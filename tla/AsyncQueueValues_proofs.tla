---------------------- MODULE AsyncQueueValues_proofs ----------------------
(***************************************************************************)
(* Proofs about the values that pass through the asynchronous queue and    *)
(* the calls that wait in it, for every value of the constants and from    *)
(* the invariant QueueInv of AsyncQueue_proofs: the queue uses its storage *)
(* as a bounded FIFO queue, a push that succeeds commits all its values    *)
(* once and no value is lost, the end of the stream is final when stores   *)
(* are seen at once, every variable keeps its type, nobody stays parked    *)
(* who could go on, and a thread's calls get what they get in the order    *)
(* it made them.                                                           *)
(***************************************************************************)
EXTENDS AsyncQueue_proofs

(* The queue uses the ring only as its storage allows. *)
LEMMA NextStorage == ASSUME QueueInv, [Next]_vars PROVE [StorageNext]_storageVars
<1>1. CASE UNCHANGED vars
    BY <1>1 DEF vars
<1>2. ASSUME NEW t \in Threads, TransferStep(t) PROVE [StorageNext]_storageVars
    BY <1>2, TransferMoved DEF Moved
<1>3. ASSUME NEW t \in Threads, Flush(t) PROVE [StorageNext]_storageVars
    BY <1>3, FlushShown
<1>4. CASE Next /\ ~\E t \in Threads : TransferStep(t) \/ Flush(t)
    <2>1. PICK t \in Threads : SteadyStep(t)
        BY <1>4, NextSteady
    <2>2. QED
        BY <2>1 DEF SteadyStep, Steady
<1>5. QED
    BY <1>1, <1>2, <1>3, <1>4

(* Whoever runs a transfer, the caller or a server of the waiters, does    *)
(* with the ring what the cell protocols of RingBuffer.h allow.            *)
THEOREM QueueUsesStorage == Spec => StorageSpec
<1>1. Init => StorageInit
    BY DEF Init
<1>2. QueueInv /\ [Next]_vars => [StorageNext]_storageVars
    BY NextStorage
<1>3. QED
    BY <1>1, <1>2, QueueInvariant, PTL DEF Spec, StorageSpec

(* The asynchronous queue is a bounded FIFO: values leave in the order     *)
(* they entered and none but the queued ones, whatever the paths of the    *)
(* pushes and pops.                                                        *)
THEOREM QueueImplementsFifo == Spec => FifoSpec
<1>1. QED
    BY QueueUsesStorage, StorageImplementsFifo, PTL

(* Two positions in use never share a cell of the ring, with any number of *)
(* producers and consumers of the queue.                                   *)
THEOREM QueueCellsExclusive == Spec => []CellsDisjoint
<1>1. QED
    BY QueueUsesStorage, CellsExclusive, PTL

(* A push is told Enqueued exactly if its values went into the ring, all   *)
(* of them and one after the other, and one that may not suspend never     *)
(* waits in a list.                                                        *)
THEOREM PushesCommit == Spec => []PushesCommitOnce
<1>1. ASSUME QueueInv, NEW o \in PushOps, op[o].signals = 1, op[o].result # "Enqueued"
      PROVE  Pushed(o) = 0
    <2>1. o \in Operations /\ op[o].phase = "Completed"
        BY <1>1 DEF Operations, QueueInv, BaseInv, Signals
    <2>2. ASSUME NEW t \in Threads, Placing(thread[t]), thread[t].job = o PROVE FALSE
        BY <1>1, <2>1, <2>2, JobPlace DEF Placing, Transferring, QueueInv
    <2>3. QED
        BY <1>1, <2>2 DEF QueueInv, ValueInv, Placed
<1>2. ASSUME QueueInv, NEW o \in PushOps
      PROVE  LET mine == {i \in 1 .. Len(log) : log[i][1] = o} IN
             /\ Pushed(o) = 0 => mine = {}
             /\ Pushed(o) = Size[o] =>
                  /\ Cardinality(mine) = Size[o]
                  /\ \A i, j \in mine : /\ j - i < Size[o]
                                        /\ i < j <=> log[i][2] < log[j][2]
    <2> DEFINE mine == {i \in 1 .. Len(log) : log[i][1] = o}
    <2>1. Pushed(o) = Cardinality(mine) /\ o \in Pushes
        BY DEF Pushed, Pushes
    <2>2. PICK b \in Nat : Block(log, o, b, Pushed(o)) /\ Pushed(o) \in Nat
        BY <1>2, <2>1, PushedCounts
    <2>3. ASSUME NEW i \in mine PROVE i \in Int /\ b < i /\ i <= b + Pushed(o) /\ log[i][2] = i - b
        <3>1. i \in 1 .. Len(log) /\ b < i /\ i <= b + Pushed(o)
            BY <2>2 DEF Block
        <3>2. i - b \in 1 .. Pushed(o) /\ b + (i - b) = i
            BY <2>2, <3>1
        <3>3. log[b + (i - b)] = <<o, i - b>>
            BY <2>2, <3>2 DEF Block
        <3>4. QED
            BY <3>1, <3>2, <3>3
    <2>4. QED
        BY <2>1, <2>2, <2>3, SMTT(30)
<1>3. QueueInv => PushesCommitOnce
    <2> SUFFICES ASSUME QueueInv, NEW o \in PushOps
                 PROVE  /\ ~MaySuspend(o) => op[o].phase # "Pending"
                        /\ op[o].signals = 1 =>
                             LET mine == {i \in 1 .. Len(log) : log[i][1] = o} IN
                             IF op[o].result = "Enqueued"
                             THEN /\ Cardinality(mine) = Size[o]
                                  /\ \A i, j \in mine : /\ j - i < Size[o]
                                                        /\ i < j <=> log[i][2] < log[j][2]
                             ELSE mine = {}
        BY DEF PushesCommitOnce
    <2>1. ~MaySuspend(o) => op[o].phase # "Pending"
        BY DEF QueueInv, GateInv, NeverParked
    <2>2. op[o].result = "Enqueued" => Pushed(o) = Size[o]
        BY DEF QueueInv, ValueInv, Placed
    <2>3. QED
        BY <1>1, <1>2, <2>1, <2>2
<1>4. QED
    BY <1>3, QueueInvariant, PTL
-----------------------------------------------------------------------------
(***************************************************************************)
(* The end of the stream.  A consumer that is told of it saw, under the    *)
(* lock, that the queue was closed, nobody inside and nothing left; from   *)
(* then on nobody comes in.                                                *)
(***************************************************************************)
LEMMA TakenMoves ==
    ASSUME IInv, [StorageNext]_storageVars
    PROVE  /\ taken \in Nat /\ Claimed \in Nat /\ taken <= Claimed /\ taken <= taken'
           /\ taken' \in Nat /\ Claimed' \in Nat /\ taken' <= Claimed'
<1>1. IInv'
    BY NextIInv
<1>2. Claimed \in Nat /\ Claimed' \in Nat
    BY <1>1 DEF IInv, StorageTypeOK, Claimed
<1>3. taken \in 0 .. Claimed /\ taken' \in 0 .. Claimed'
    BY <1>1 DEF IInv, StorageTypeOK
<1>4. taken' = taken \/ taken' = taken + 1
    BY DEF StorageNext, storageVars, Claim, PushAtOnce, Publish, Free, Take, PopAtOnce
<1>5. QED
    BY <1>2, <1>3, <1>4

(* Whoever holds the lock and finds the queue closed and empty sees the end. *)
LEMMA EndIsSeen ==
    ASSUME QueueInv, Final, NEW t \in Threads, ClosedAndEmpty(t),
           thread[t].pc \in {"sweep", "admit", "front.push", "front.pop"}
    PROVE  EndSeen
<1>1. Lifecycle(t) = lifecycle
    <2>1. Len(buffer[t]) = 0
        BY EmptySeq DEF Final
    <2>2. QED
        BY <2>1 DEF Lifecycle
<1>2. taken = Claimed /\ lifecycle # "Open" /\ active = 0
    BY <1>1 DEF ClosedAndEmpty, IsDrained
<1>3. ASSUME NEW u \in Threads, Entered(thread[u]) PROVE FALSE
    <2> DEFINE S == {v \in Threads : Entered(thread[v])}
    <2>1. IsFiniteSet(S)
        BY FiniteAssumption, FS_Subset
    <2>2. Cardinality(S) = 0
        BY <1>2 DEF QueueInv, GateInv, Insiders
    <2>3. S = {}
        BY <2>1, <2>2, FS_EmptySet
    <2>4. QED
        BY <1>3, <2>3
<1>4. ASSUME NEW u \in Threads, Placing(thread[u]) PROVE FALSE
    <2>1. Transferring(thread[u]) /\ IsPush(thread[u].job)
        BY <1>4, Known DEF Placing, Transferring, Jobs
    <2>2. thread[u].job # None
        BY <2>1, NamesAssumption DEF IsPush, Calls, Operations
    <2>3. thread[u].from \in {"reserved", "front"}
        BY <1>3, <1>4, <2>1, <2>2, Known DEF Jobs, Entered
    <2>4. Holding(thread[u])
        BY <2>1, <2>3 DEF Holding
    <2>5. Holding(thread[t])
        BY DEF Holding, Locked, Served
    <2>6. u = t
        BY <2>4, <2>5 DEF QueueInv, BaseInv, LockHeld
    <2>7. QED
        BY <1>4, <2>6 DEF Placing
<1>5. QED
    BY <1>2, <1>3, <1>4 DEF EndSeen, Entered

LEMMA EndLasts ==
    ASSUME QueueInv, EndSeen, NEW t \in Threads, OnlyThread(t), lifecycle' # "Open",
           [StorageNext]_storageVars, log' = log, ~Opening(thread'[t])
    PROVE  EndSeen'
<1>1. taken' = Claimed'
    <2>1. Claimed' = Claimed
        BY DEF Claimed
    <2>2. QED
        BY <2>1, TakenMoves DEF EndSeen, QueueInv, ValueInv
<1>2. ASSUME NEW u \in Threads PROVE ~Opening(thread'[u])
    BY DEF OnlyThread, EndSeen, Opening
<1>3. QED
    BY <1>1, <1>2 DEF EndSeen, Opening, Placing

LEMMA SteadyFinal ==
    ASSUME QueueInv, ~StoreBuffers, Final, NEW t \in Threads, SteadyStep(t) PROVE Final'
<1> DEFINE th == thread[t]
           new == thread'[t]
<1>1. /\ OnlyThread(t) /\ buffer' = buffer /\ UNCHANGED storageVars
      /\ \A o \in Operations : OpSteady(t, o)
    BY DEF SteadyStep, Steady, SteadyTypes
<1>2. \A u \in Threads : buffer[u] = << >> /\ buffer'[u] = << >>
    BY <1>1 DEF Final
<1>3. Lifecycle(t) = lifecycle /\ (lifecycle # "Open" => lifecycle' # "Open")
    <2>1. Len(buffer[t]) = 0 /\ Len(buffer'[t]) = 0
        BY <1>2, EmptySeq
    <2>2. Lifecycle(t) = lifecycle /\ Lifecycle(t)' = lifecycle'
        BY <2>1 DEF Lifecycle
    <2>3. QED
        BY <2>2 DEF SteadyStep, StaysClosed, NotOpen
<1>4. EndSeen => EndSeen'
    <2>1. EndSeen => ~Opening(new)
        BY <1>3 DEF EndSeen, SteadyStep, Gated, Opening
    <2>2. QED
        BY <1>1, <1>3, <2>1, EndLasts DEF EndSeen, storageVars
<1>5. ASSUME NEW o \in PopOps, op'[o].result = "Stopped", ~op'[o].stop PROVE EndSeen'
    <2>1. CASE op[o].result = "Stopped" /\ ~op[o].stop
        BY <1>4, <2>1 DEF Final
    <2>2. CASE th.pc = "sweep.all"
        BY <1>4, <2>2 DEF Final, At
    <2>3. CASE ClosedAndEmpty(t) /\ th.pc \in {"admit", "front.push", "front.pop"}
        BY <1>4, <2>3, EndIsSeen
    <2>4. QED
        BY <1>5, <2>1, <2>2, <2>3 DEF SteadyStep, Gated
<1>6. ASSUME NEW u \in Threads, thread'[u].pc = "sweep.all" PROVE EndSeen'
    <2>1. CASE u = t
        BY <1>4, <1>6, <2>1, EndIsSeen DEF SteadyStep, Gated
    <2>2. CASE u # t
        BY <1>1, <1>4, <1>6, <2>2 DEF OnlyThread, Final, At
    <2>3. QED
        BY <2>1, <2>2
<1>7. QED
    BY <1>2, <1>5, <1>6 DEF Final, At

LEMMA MovedFinal ==
    ASSUME QueueInv, ~StoreBuffers, Final, NEW t \in Threads, Moved(t) PROVE Final'
<1> DEFINE th == thread[t]
           new == thread'[t]
<1>1. /\ OnlyThread(t) /\ buffer' = buffer /\ lifecycle' = lifecycle /\ Transferring(th)
      /\ [StorageNext]_storageVars /\ (log' = log \/ Placing(th)) /\ JobMoved(th.job)
      /\ Continues(th, new) \/ \E result : Over(th, new, result)
    BY DEF Moved, SteadyTypes
<1>2. new.pc # "sweep.all" /\ (Placing(th) \/ ~Opening(new))
    <2>1. CASE Continues(th, new)
        BY <2>1 DEF Continues, Transferring, Opening, Placing
    <2>2. ASSUME NEW result, Over(th, new, result)
          PROVE  new.pc # "sweep.all" /\ ~Opening(new)
        <3>1. new = Back(th, result)
            BY <2>2 DEF Over
        <3>2. PICK r : r = new
            OBVIOUS
        <3>3. r.pc # "sweep.all" /\ ~Opening(r)
            BY <1>1, <3>1, <3>2, Known, BackOver, ZenonT(40)
        <3>4. QED
            BY <3>2, <3>3
    <2>3. QED
        BY <1>1, <2>1, <2>2
<1>3. EndSeen => EndSeen'
    BY <1>1, <1>2, EndLasts DEF EndSeen
<1>4. ASSUME NEW o \in PopOps, op'[o].result = "Stopped", ~op'[o].stop
      PROVE  op[o].result = "Stopped" /\ ~op[o].stop
    BY <1>1, <1>4 DEF JobMoved, Operations
<1>5. QED
    BY <1>1, <1>2, <1>3, <1>4 DEF Final, OnlyThread, At

LEMMA NextFinal == ASSUME QueueInv, ~StoreBuffers, Final, [Next]_vars PROVE Final'
<1>1. CASE UNCHANGED vars
    BY <1>1 DEF vars, queueVars, storageVars, Final, EndSeen, Claimed, At
<1>2. ASSUME NEW t \in Threads, TransferStep(t) PROVE Final'
    BY <1>2, TransferMoved, MovedFinal
<1>3. ASSUME NEW t \in Threads PROVE ~Flush(t)
    BY DEF Final, Flush
<1>4. CASE Next /\ ~\E t \in Threads : TransferStep(t) \/ Flush(t)
    BY <1>4, NextSteady, SteadyFinal
<1>5. QED
    BY <1>1, <1>2, <1>3, <1>4

LEMMA InitFinal == Init => Final
<1> SUFFICES ASSUME Init PROVE Final
    OBVIOUS
<1>1. /\ \A o \in PopOps : op[o].result = None
      /\ \A t \in Threads : buffer[t] = << >> /\ thread[t] = NewThread
    BY DEF Init, NewOperation, Operations
<1>2. QED
    BY <1>1, IdleThread, NamesAssumption DEF Final, At

(* A pop is told the end of the stream only when it has come: the queue is *)
(* closed, everything was taken, and nobody is on the way to push more.    *)
(* With delayed stores this is not so.                                     *)
THEOREM StoppedAtEnd == ~StoreBuffers => (Spec => []StopIsFinal)
<1> SUFFICES ASSUME ~StoreBuffers PROVE Spec => []StopIsFinal
    OBVIOUS
<1>1. Init => Final
    BY InitFinal
<1>2. QueueInv /\ Final /\ [Next]_vars => Final'
    BY NextFinal
<1>3. Final => StopIsFinal
    BY DEF Final, StopIsFinal, EndOfStream, EndSeen
<1>4. QED
    BY <1>1, <1>2, <1>3, QueueInvariant, PTL DEF Spec
-----------------------------------------------------------------------------
(***************************************************************************)
(* Types.  What bounds the two kinds of counters is who is counted: the    *)
(* producers inside, and the operations in a list and one reserved place.  *)
(***************************************************************************)
LEMMA InjectiveLength ==
    ASSUME NEW S, IsFiniteSet(S), NEW s \in Seq(S), Injective(s)
    PROVE  Len(s) \in Nat /\ Cardinality(S) \in Nat /\ Len(s) <= Cardinality(S)
<1>1. Len(s) \in Nat /\ s \in [1 .. Len(s) -> S]
    BY LenProperties
<1>2. s \in Injection(1 .. Len(s), S)
    BY <1>1 DEF Injective, Injection, IsInjective
<1>3. Cardinality(1 .. Len(s)) = Len(s)
    BY <1>1, FS_Interval
<1>4. Cardinality(S) \in Nat
    BY FS_CardinalityType
<1>5. QED
    BY <1>1, <1>2, <1>3, <1>4, FS_Injection

LEMMA WaitersBounded ==
    ASSUME BaseInv, NEW side \in Sides
    PROVE  waiting[side] \in 0 .. Cardinality(Operations)
<1> PICK s : s = pending[side]
    OBVIOUS
<1>1. s \in Seq(Operations) /\ Injective(s) /\ Len(s) \in Nat
    BY PendingTypes, LenProperties DEF BaseInv, PendingPhase
<1>2. waiting[side] = Len(s) + IF Reserved(side) THEN 1 ELSE 0
    BY DEF BaseInv, Counted
<1>3. CASE ~Reserved(side)
    BY <1>1, <1>2, <1>3, InjectiveLength, FiniteAssumption
<1>4. CASE Reserved(side)
    <2>1. PICK t \in Threads : Reserving(thread[t]) /\ SideOf(Call(t)) = side
        BY <1>4 DEF Reserved
    <2>2. Carrying(t, thread[t]) /\ Call(t) \in Operations
        BY <2>1, Shaped DEF Reserving, Shape, Jobs, Carrying, OwnStart, Call, Transferring
    <2>3. ~ListedIn(s, Call(t))
        BY <2>1, <2>2 DEF BaseInv, CarriedPhase, PendingPhase
    <2>4. Append(s, Call(t)) \in Seq(Operations) /\ Len(Append(s, Call(t))) = Len(s) + 1
        BY <1>1, <2>2, AppendProperties
    <2>5. Injective(Append(s, Call(t)))
        BY <1>1, <2>2, <2>3, ListedAppend
    <2>6. Len(Append(s, Call(t))) <= Cardinality(Operations) /\ Cardinality(Operations) \in Nat
        BY <2>4, <2>5, InjectiveLength, FiniteAssumption
    <2>7. QED
        BY <1>1, <1>2, <1>4, <2>4, <2>6
<1>5. QED
    BY <1>3, <1>4

WaitingMap == waiting = [side \in Sides |-> waiting[side]]

LEMMA NextMap == ASSUME BaseInv, WaitingMap, [Next]_vars PROVE WaitingMap'
<1> USE DEF queueVars, waiters
<1>0. ASSUME waiting' = waiting PROVE WaitingMap'
    BY <1>0 DEF WaitingMap
<1>1. ASSUME NEW side, NEW n, waiting' = [waiting EXCEPT ![side] = n] PROVE WaitingMap'
    BY <1>1 DEF WaitingMap
<1>2. CASE UNCHANGED vars
    BY <1>0, <1>2 DEF vars
<1>3. ASSUME NEW t \in Threads, CallStep(t) PROVE WaitingMap'
    BY <1>0, <1>3 DEF CallStep, TryPopWaiting, TryPopAfter, CheckToken, RegisterCallback,
       StartPhase, StartLifecycle, EnterProducer, EnterOpen, FastPath, LeaveProducer,
       LastProducerLeft, Wake, StartRefused
<1>4. ASSUME NEW t \in Threads, TransferStep(t) PROVE WaitingMap'
    BY <1>0, <1>4, TransferMoves
<1>5. ASSUME NEW t \in Threads, LockedStep(t) PROVE WaitingMap'
    <2>1. CASE StopConsumers(t) \/ FailPending(t)
        BY <2>1 DEF StopConsumers, FailPending, DrainAll, WaitingMap, Sides
    <2>2. CASE AdmitReserved(t)
        BY <1>1, <2>2 DEF AdmitReserved
    <2>3. CASE Settle(t)
        BY <1>1, <2>3 DEF Settle
    <2>4. CASE Drop(t)
        BY <1>1, <2>4 DEF Drop
    <2>5. CASE CancelOperation(t)
        BY <1>0, <1>1, <2>5 DEF CancelOperation
    <2>6. CASE AdmitStopped(t) \/ AdmitRefused(t) \/ Park(t) \/ Sweep(t) \/ SetLifecycle(t)
               \/ MarkStopRequested(t) \/ Unlock(t) \/ \E side \in {"push", "pop"} : Front(t, side)
        BY <1>0, <2>6 DEF AdmitStopped, AdmitRefused, Park, Sweep, SetLifecycle,
           MarkStopRequested, Unlock, Front
    <2>7. QED
        BY <1>5, <2>1, <2>2, <2>3, <2>4, <2>5, <2>6 DEF LockedStep
<1>6. ASSUME NEW t \in Threads, Lock(t) \/ Complete(t) \/ Flush(t) PROVE WaitingMap'
    BY <1>0, <1>6 DEF Lock, Complete, Flush
<1>7. ASSUME NEW t, Begin(t) PROVE WaitingMap'
    BY <1>0, <1>7 DEF Begin, TryPush, TryPop, Start
<1>8. ASSUME NEW k, Close(k) \/ Abort(k) \/ RequestStop(k) PROVE WaitingMap'
    BY <1>0, <1>8 DEF Close, Abort, EndQueue, RequestStop
<1>9. QED
    BY <1>2, <1>3, <1>4, <1>5, <1>6, <1>7, <1>8 DEF Next

(* Every variable of the queue keeps its type, and no counter goes below   *)
(* zero or beyond the threads or operations there are, although producers  *)
(* are counted in and out at several places of Push and of TryPush, and    *)
(* waiters are taken away by service, cancellation, Close and Abort.       *)
THEOREM QueueTypes == Spec => []TypeOK
<1>1. Init => WaitingMap
    BY DEF Init, WaitingMap, Sides
<1>2. BaseInv /\ WaitingMap /\ [Next]_vars => WaitingMap'
    BY NextMap
<1>3. QueueInv /\ WaitingMap => TypeOK
    <2> SUFFICES ASSUME QueueInv, WaitingMap PROVE TypeOK
        OBVIOUS
    <2>1. StorageTypeOK /\ topology \in Topologies /\ lifecycle \in {"Open", "Closing", "Aborted"}
        BY DEF QueueInv, ValueInv, DataTypes, IInv
    <2>2. lock \in Threads \cup {None} /\ pending.push \in Seq(PushOps) /\ pending.pop \in Seq(PopOps)
        BY DEF QueueInv, BaseInv, Types
    <2>3. active \in 0 .. Cardinality(Threads)
        <3> DEFINE S == {t \in Threads : Entered(thread[t])}
        <3>1. S \in SUBSET Threads /\ active = Cardinality(S)
            BY DEF QueueInv, GateInv, Insiders
        <3>2. IsFiniteSet(S) /\ Cardinality(S) <= Cardinality(Threads)
            BY <3>1, FiniteAssumption, FS_Subset
        <3>3. Cardinality(S) \in Nat /\ Cardinality(Threads) \in Nat
            BY <3>2, FiniteAssumption, FS_CardinalityType
        <3>4. QED
            BY <3>1, <3>2, <3>3
    <2>4. waiting \in [{"push", "pop"} -> 0 .. Cardinality(Operations)]
        <3>1. \A side \in Sides : waiting[side] \in 0 .. Cardinality(Operations)
            BY WaitersBounded DEF QueueInv
        <3>2. QED
            BY <3>1 DEF WaitingMap, Sides
    <2>5. \A o \in Operations :
            /\ op[o].phase \in Phases /\ op[o].result \in Results
            /\ op[o].moved \in Seq(Elements) /\ op[o].budget \in Nat
            /\ op[o].signals \in Nat
            /\ {op[o].stop, op[o].registered} \subseteq BOOLEAN
        <3>1. \A o \in Operations : op[o].signals \in Nat
            BY DEF QueueInv, BaseInv, Signals
        <3>2. QED
            BY <3>1 DEF QueueInv, ValueInv, DataTypes
    <2>6. \A t \in Threads : thread[t].done \in Seq(Operations)
        BY Known DEF Shape
    <2>7. QED
        BY <2>1, <2>2, <2>3, <2>4, <2>5, <2>6 DEF TypeOK
<1>4. QED
    BY <1>1, <1>2, <1>3, BaseInvariant, QueueInvariant, PTL DEF Spec
-----------------------------------------------------------------------------
(***************************************************************************)
(* Who has what was taken from the ring: one pop, or one caller of TryPop. *)
(***************************************************************************)
Origin == \A i \in 1 .. Len(log) : log[i][1] \in Pushes

TakenOut == {log[i] : i \in 1 .. taken}
HasIt(o, e) == ListedIn(op[o].moved, e)
GotIt(c, e) == ListedIn(calls[c], e)

Owned ==
    /\ \A e \in TakenOut :
         (\E o \in PopOps : HasIt(o, e)) \/ (\E c \in Consumers : GotIt(c, e))
    /\ \A e \in Elements, o \in PopOps : HasIt(o, e) =>
         /\ e \in TakenOut /\ \A u \in PopOps : HasIt(u, e) => u = o
         /\ \A c \in Consumers : ~GotIt(c, e)
    /\ \A e \in Elements, c \in Consumers : GotIt(c, e) =>
         e \in TakenOut /\ \A d \in Consumers : GotIt(d, e) => d = c

(* A step takes nothing, or it takes the head into one hand. *)
Aside(c) == calls'[c] = calls[c] \/ \E y \in Calls : calls'[c] = Append(calls[c], y)
TakesNothing ==
    /\ taken' = taken /\ \A o \in PopOps : op'[o].moved = op[o].moved
    /\ \A c \in Consumers : Aside(c)
TakesInto(x) ==
    /\ x \in PopOps /\ op'[x].moved = Append(op[x].moved, log[taken + 1])
    /\ \A o \in PopOps \ {x} : op'[o].moved = op[o].moved
    /\ calls' = calls
TakesHome(c) ==
    /\ c \in Consumers /\ calls'[c] = Append(calls[c], log[taken + 1])
    /\ \A d \in Consumers \ {c} : calls'[d] = calls[d]
    /\ \A o \in PopOps : op'[o].moved = op[o].moved
Takes ==
    /\ HasItem /\ taken' = taken + 1 /\ log' = log
    /\ \E h : TakesInto(h) \/ TakesHome(h)

(* The values in the ring are all different. *)
LEMMA DistinctLog ==
    ASSUME QueueInv, Origin, NEW i \in 1 .. Len(log), NEW j \in 1 .. Len(log), log[i] = log[j]
    PROVE  i = j
<1> PICK x : x = log[i][1]
    OBVIOUS
<1>1. x \in Pushes /\ log[j][1] = x /\ Len(log) \in Nat
    BY LenProperties DEF Origin, QueueInv, ValueInv, IInv, StorageTypeOK
<1>2. PICK b \in Nat, n \in Nat : Stands(x, b, n)
    BY <1>1 DEF QueueInv, ValueInv, Together
<1>3. i - b \in 1 .. n /\ j - b \in 1 .. n /\ b + (i - b) = i /\ b + (j - b) = j
    BY <1>1, <1>2 DEF Stands
<1>4. log[b + (i - b)] = <<x, i - b>> /\ log[b + (j - b)] = <<x, j - b>>
    BY <1>2, <1>3 DEF Stands
<1>5. i - b = j - b
    BY <1>3, <1>4
<1>6. QED
    BY <1>2, <1>5

LEMMA TakenTypes ==
    ASSUME QueueInv PROVE TakenOut \subseteq Elements /\ taken \in Nat /\ taken <= Len(log)
<1>1. log \in Seq(Values) /\ taken \in 0 .. Claimed /\ Claimed = Len(log) /\ Len(log) \in Nat
    BY LenProperties DEF QueueInv, ValueInv, IInv, StorageTypeOK, Claimed
<1>2. \A i \in 1 .. taken : log[i] \in Elements
    BY <1>1, ElementOfSeq, QueueAssumption
<1>3. QED
    BY <1>1, <1>2 DEF TakenOut

LEMMA OwnedKept ==
    ASSUME QueueInv, Owned, taken' = taken, \A i \in 1 .. taken : log'[i] = log[i],
           \A o \in PopOps, e \in Elements : HasIt(o, e)' <=> HasIt(o, e),
           \A c \in Consumers, e \in Elements : GotIt(c, e)' <=> GotIt(c, e)
    PROVE  Owned'
<1>1. TakenOut' = TakenOut
    BY DEF TakenOut
<1>2. TakenOut \subseteq Elements
    BY TakenTypes
<1>3. QED
    BY <1>1, <1>2 DEF Owned

LEMMA OwnedGiven ==
    ASSUME QueueInv, Origin, Owned, HasItem, taken' = taken + 1, log' = log,
           NEW x, NEW d, IF x \in PopOps THEN d \notin Consumers ELSE d \in Consumers,
           NEW new, new = log[taken + 1],
           \A o \in PopOps, e \in Elements : HasIt(o, e)' <=> HasIt(o, e) \/ (o = x /\ e = new),
           \A c \in Consumers, e \in Elements : GotIt(c, e)' <=> GotIt(c, e) \/ (c = d /\ e = new)
    PROVE  Owned'
<1>1. /\ TakenOut \subseteq Elements /\ new \in Elements
      /\ taken \in Nat /\ taken + 1 \in 1 .. Len(log)
    BY TakenTypes, HeadElement DEF Claimed
<1>2. TakenOut' = TakenOut \cup {new}
    BY <1>1 DEF TakenOut
<1>3. new \notin TakenOut
    <2>1. ASSUME NEW i \in 1 .. taken, log[i] = new PROVE FALSE
        <3>1. i \in 1 .. Len(log) /\ i # taken + 1
            BY <1>1
        <3>2. QED
            BY <1>1, <2>1, <3>1, DistinctLog
    <2>2. QED
        BY <2>1 DEF TakenOut
<1>4. /\ \A o \in PopOps : ~HasIt(o, new)
      /\ \A c \in Consumers : ~GotIt(c, new)
    BY <1>1, <1>3 DEF Owned
<1>5. ASSUME NEW e \in TakenOut'
      PROVE  (\E o \in PopOps : HasIt(o, e)') \/ (\E c \in Consumers : GotIt(c, e)')
    BY <1>1, <1>2 DEF Owned
<1>6. ASSUME NEW e \in Elements, NEW o \in PopOps, HasIt(o, e)'
      PROVE  /\ e \in TakenOut' /\ \A u \in PopOps : HasIt(u, e)' => u = o
             /\ \A c \in Consumers : ~GotIt(c, e)'
    BY <1>2, <1>4, <1>6 DEF Owned
<1>7. ASSUME NEW e \in Elements, NEW c \in Consumers, GotIt(c, e)'
      PROVE  e \in TakenOut' /\ \A u \in Consumers : GotIt(u, e)' => u = c
    BY <1>2, <1>4, <1>7 DEF Owned
<1>8. QED
    BY <1>5, <1>6, <1>7 DEF Owned

LEMMA TakesOwned ==
    ASSUME QueueInv, Origin, Owned, Takes PROVE Owned'
<1> PICK new : new = log[taken + 1]
    OBVIOUS
<1>1. new \in Elements
    BY HeadElement DEF Takes
<1>2. ASSUME NEW x, TakesInto(x) PROVE Owned'
    <2>1. x \in PopOps /\ op[x].moved \in Seq(Elements) /\ op'[x].moved = Append(op[x].moved, new)
        BY <1>2 DEF TakesInto, QueueInv, ValueInv, DataTypes, Operations
    <2>2. \A e : ListedIn(op'[x].moved, e) <=> ListedIn(op[x].moved, e) \/ e = new
        BY <1>1, <2>1, ListedAppend
    <2>3. \A o \in PopOps, e \in Elements : HasIt(o, e)' <=> HasIt(o, e) \/ (o = x /\ e = new)
        BY <1>2, <2>2 DEF TakesInto, HasIt
    <2>4. None \notin Consumers
        BY NamesAssumption DEF Threads
    <2>5. \A c \in Consumers, e \in Elements : GotIt(c, e)' <=> GotIt(c, e) \/ (c = None /\ e = new)
        BY <1>2, <2>4 DEF TakesInto, GotIt
    <2>6. QED
        BY <2>1, <2>3, <2>4, <2>5, OwnedGiven DEF Takes
<1>3. ASSUME NEW d, TakesHome(d) PROVE Owned'
    <2>1. d \in Consumers /\ calls[d] \in Seq(Calls \cup Elements) /\ calls'[d] = Append(calls[d], new)
        BY <1>3 DEF TakesHome, QueueInv, ValueInv, DataTypes
    <2>2. \A e : ListedIn(calls'[d], e) <=> ListedIn(calls[d], e) \/ e = new
        <3>1. new \in Calls \cup Elements
            BY <1>1
        <3>2. QED
            BY <2>1, <3>1, ListedAppend
    <2>3. \A c \in Consumers, e \in Elements : GotIt(c, e)' <=> GotIt(c, e) \/ (c = d /\ e = new)
        BY <1>3, <2>2 DEF TakesHome, GotIt
    <2>4. None \notin PopOps
        BY NamesAssumption DEF Calls, Operations
    <2>5. \A o \in PopOps, e \in Elements : HasIt(o, e)' <=> HasIt(o, e) \/ (o = None /\ e = new)
        BY <1>3, <2>4 DEF TakesHome, HasIt
    <2>6. QED
        BY <2>1, <2>3, <2>4, <2>5, OwnedGiven DEF Takes
<1>4. QED
    BY <1>2, <1>3 DEF Takes

LEMMA NothingOwned ==
    ASSUME QueueInv, Owned, TakesNothing, \A i \in 1 .. taken : log'[i] = log[i] PROVE Owned'
<1>1. \A o \in PopOps, e \in Elements : HasIt(o, e)' <=> HasIt(o, e)
    BY DEF TakesNothing, HasIt
<1>2. ASSUME NEW c \in Consumers, NEW e \in Elements PROVE GotIt(c, e)' <=> GotIt(c, e)
    <2>1. CASE calls'[c] = calls[c]
        BY <2>1 DEF GotIt
    <2>2. ASSUME NEW y \in Calls, calls'[c] = Append(calls[c], y) PROVE GotIt(c, e)' <=> GotIt(c, e)
        <3>1. calls[c] \in Seq(Calls \cup Elements) /\ y \in Calls \cup Elements /\ e # y
            BY FiniteAssumption DEF QueueInv, ValueInv, DataTypes
        <3>2. ListedIn(Append(calls[c], y), e) <=> ListedIn(calls[c], e)
            BY <3>1, ListedAppend
        <3>3. QED
            BY <2>2, <3>2 DEF GotIt
    <2>3. QED
        BY <2>1, <2>2 DEF TakesNothing, Aside
<1>3. QED
    BY <1>1, <1>2, OwnedKept DEF TakesNothing
-----------------------------------------------------------------------------
LEMMA ConcludeHolds ==
    ASSUME BaseInv, NEW t \in Threads, NEW result, Conclude(t, result)
    PROVE  \A o \in PopOps : op'[o].moved = op[o].moved
<1> PICK x : x = thread[t].job
    OBVIOUS
<1>1. op' = IF x \in Operations /\ result # None THEN [op EXCEPT ![x].result = result] ELSE op
    BY DEF Conclude
<1>2. DOMAIN op = Operations /\ \A o \in Operations : DOMAIN op[o] = OpFields
    BY DEF BaseInv, Types
<1>3. QED
    BY <1>1, <1>2, Fields DEF Operations

(* What a step of a transfer does to the ring and to who has what.         *)
KeepsMoved == \A o \in PopOps : op'[o].moved = op[o].moved
Gives(t, x) ==
    /\ thread[t].pc = "push" /\ Appends(x) /\ taken' = taken /\ KeepsMoved
    /\ calls' = IF x \in TryValues THEN [calls EXCEPT ![t] = Append(calls[t], x)] ELSE calls
TakesOut(t, x) ==
    /\ HasItem /\ taken' = taken + 1 /\ log' = log
    /\ \/ TakesInto(x)
       \/ /\ x = None /\ t \in Consumers /\ KeepsMoved
          /\ calls' = [calls EXCEPT ![t] = Append(calls[t], log[taken + 1])]

LEMMA HeadTakes ==
    ASSUME QueueInv, NEW t \in Threads, NEW x, x = thread[t].job,
           thread[t].pc \in {"pop", "pop.advance"}, HasItem,
           taken' = taken + 1, log' = log, MoveHead(t)
    PROVE  TakesOut(t, x)
<1> PICK new : new = log[taken + 1]
    OBVIOUS
<1>1. /\ x = None => op' = op /\ calls' = [calls EXCEPT ![t] = Append(calls[t], new)]
      /\ x # None => /\ op' = [op EXCEPT ![x].moved = Append(op[x].moved, new), ![x].result = "Popped"]
                     /\ calls' = calls
    BY DEF MoveHead
<1>2. x \in PopOps \cup {None} /\ (x = None => t \in Consumers)
    <2>1. Transferring(thread[t]) /\ thread[t].from \in {"fast", "poll", "reserved", "front"}
        BY Known DEF Transferring, Jobs
    <2>2. x \in PopOps \cup {None}
        BY Popper
    <2>3. x = None => thread[t].from = "poll"
        BY <2>1, Known, NamesAssumption DEF Jobs, OwnStart, OwnTry, Calls
    <2>4. QED
        BY <2>1, <2>2, <2>3, Known DEF Jobs, OwnPoll
<1>3. CASE x = None
    BY <1>1, <1>2, <1>3 DEF TakesOut, KeepsMoved
<1>4. CASE x # None
    <2>1. x \in PopOps /\ x \in Operations /\ \A o \in PopOps : o \in Operations
        BY <1>2, <1>4 DEF Operations
    <2>2. op'[x].moved = Append(op[x].moved, new) /\ \A o \in Operations \ {x} : op'[o] = op[o]
        BY <1>1, <1>4, <2>1, Known, Fields
    <2>3. TakesInto(x)
        BY <1>1, <1>4, <2>1, <2>2 DEF TakesInto
    <2>4. QED
        BY <2>3 DEF TakesOut
<1>5. QED
    BY <1>3, <1>4

LEMMA TransferEffect ==
    ASSUME QueueInv, NEW t \in Threads, TransferStep(t), NEW x, x = thread[t].job
    PROVE  \/ UNCHANGED <<log, taken, calls>> /\ KeepsMoved
           \/ Gives(t, x)
           \/ TakesOut(t, x)
<1> DEFINE th == thread[t]
<1>0. BaseInv
    BY DEF QueueInv
<1>1. CASE PushElement(t)
    <2>1. /\ th.pc = "push" /\ taken' = taken /\ log' = Append(log, <<x, Pushed(x) + 1>>)
          /\ op' = op \/ Conclude(t, "Enqueued")
          /\ calls' = IF x \in TryValues THEN [calls EXCEPT ![t] = Append(@, x)] ELSE calls
        BY <1>1 DEF PushElement, PushAtOnce, At
    <2>2. Placing(th) /\ KeepsMoved
        BY <1>0, <2>1, ConcludeHolds DEF Placing, KeepsMoved
    <2>3. Appends(x)
        BY <1>1, <2>1, <2>2, TransferMoved DEF Moved, Appends
    <2>4. QED
        BY <2>1, <2>2, <2>3 DEF Gives
<1>2. CASE PushClaim(t)
    <2>1. /\ th.pc = "push" /\ taken' = taken /\ op' = op /\ log' = Append(log, <<x, 1>>)
          /\ calls' = IF x \in TryValues THEN [calls EXCEPT ![t] = Append(@, x)] ELSE calls
        BY <1>2 DEF PushClaim, Claim, At
    <2>2. Appends(x)
        BY <1>2, <2>1, TransferMoved DEF Moved, Appends
    <2>3. QED
        BY <2>1, <2>2 DEF Gives, KeepsMoved
<1>3. CASE PushPublish(t)
    BY <1>0, <1>3, ConcludeHolds DEF PushPublish, Publish, KeepsMoved
<1>4. CASE PushUnplaced(t)
    <2>1. /\ UNCHANGED <<log, taken, calls>>
          /\ (\E result : Conclude(t, result)) \/ op' = [op EXCEPT ![x].budget = op[x].budget - 1]
        BY <1>4 DEF PushUnplaced, storageVars
    <2>2. op' = [op EXCEPT ![x].budget = op[x].budget - 1] => KeepsMoved
        BY Known, Fields DEF KeepsMoved, Operations
    <2>3. QED
        BY <1>0, <2>1, <2>2, ConcludeHolds DEF KeepsMoved
<1>5. CASE PopElement(t) \/ PopTake(t) \/ PopAdvance(t)
    <2>1. th.pc \in {"pop", "pop.advance"} /\ HasItem /\ taken' = taken + 1 /\ log' = log /\ MoveHead(t)
        BY <1>5 DEF PopElement, PopTake, PopAdvance, Take, PopAtOnce, At
    <2>2. QED
        BY <2>1, HeadTakes
<1>6. CASE PopFree(t) \/ PopRelease(t)
    BY <1>6 DEF PopFree, PopRelease, Free, KeepsMoved
<1>7. CASE PopNothing(t)
    <2>1. UNCHANGED <<log, taken, calls>> /\ \E result : Conclude(t, result)
        BY <1>7 DEF PopNothing, storageVars
    <2>2. QED
        BY <1>0, <2>1, ConcludeHolds DEF KeepsMoved
<1>8. QED
    BY <1>1, <1>2, <1>3, <1>4, <1>5, <1>6, <1>7 DEF TransferStep

(* A call of TryPush is remembered with its value. *)
LEMMA PushAside ==
    ASSUME QueueInv, NEW t \in Threads, Placing(thread[t]), NEW x, x = thread[t].job,
           calls' = IF x \in TryValues THEN [calls EXCEPT ![t] = Append(@, x)] ELSE calls
    PROVE  \A c \in Consumers : Aside(c)
<1>1. x \in Calls
    BY Pusher
<1>2. DOMAIN calls = Producers \cup Consumers
    BY DEF QueueInv, ValueInv, DataTypes
<1>3. QED
    BY <1>1, <1>2 DEF Aside

LEMMA TransferTakes ==
    ASSUME QueueInv, NEW t \in Threads, TransferStep(t) PROVE Takes \/ TakesNothing
<1> PICK x : x = thread[t].job
    OBVIOUS
<1>1. CASE UNCHANGED <<log, taken, calls>> /\ KeepsMoved
    BY <1>1 DEF TakesNothing, KeepsMoved, Aside
<1>2. CASE Gives(t, x)
    <2>1. \A c \in Consumers : Aside(c)
        BY <1>2, PushAside DEF Gives, Placing
    <2>2. QED
        BY <1>2, <2>1 DEF TakesNothing, Gives, KeepsMoved
<1>3. CASE TakesOut(t, x) /\ TakesInto(x)
    BY <1>3 DEF Takes, TakesOut
<1>4. CASE TakesOut(t, x) /\ ~TakesInto(x)
    <2>1. DOMAIN calls = Producers \cup Consumers
        BY DEF QueueInv, ValueInv, DataTypes
    <2>2. TakesHome(t)
        BY <1>4, <2>1 DEF TakesOut, TakesHome, KeepsMoved
    <2>3. QED
        BY <1>4, <2>2 DEF Takes, TakesOut
<1>5. QED
    BY <1>1, <1>2, <1>3, <1>4, TransferEffect

(* What steps other than the transfers and the starts leave alone. *)
LEMMA CallStepLeaves ==
    ASSUME NEW t, CallStep(t)
    PROVE  UNCHANGED <<calls, pending, lock>>
BY DEF CallStep, TryPopWaiting, TryPopAfter, CheckToken, RegisterCallback,
       StartPhase, StartLifecycle, EnterProducer, EnterOpen, FastPath, LeaveProducer,
       LastProducerLeft, Wake, StartRefused, queueVars, waiters

LEMMA LockedStepLeaves ==
    ASSUME NEW t, LockedStep(t)
    PROVE  calls' = calls
BY DEF LockedStep, AdmitStopped, AdmitRefused, AdmitReserved, Settle, Park, Front, Drop,
       Sweep, StopConsumers, SetLifecycle, FailPending, CancelOperation, MarkStopRequested,
       Unlock, DrainAll

LEMMA OtherAside ==
    ASSUME QueueInv, Next, ~\E t \in Threads : TransferStep(t) \/ Flush(t)
    PROVE  \A c \in Consumers : Aside(c)
<1>0. calls' = calls => \A c \in Consumers : Aside(c)
    BY DEF Aside
<1>1. ASSUME NEW t \in Threads, CallStep(t) PROVE calls' = calls
    BY <1>1, CallStepLeaves
<1>2. ASSUME NEW t \in Threads, LockedStep(t) PROVE calls' = calls
    BY <1>2, LockedStepLeaves
<1>3. ASSUME NEW t \in Threads, Lock(t) \/ Complete(t) PROVE calls' = calls
    BY <1>3 DEF Lock, Complete
<1>4. ASSUME NEW k, Close(k) \/ Abort(k) \/ RequestStop(k) PROVE calls' = calls
    BY <1>4 DEF Close, Abort, EndQueue, RequestStop
<1>5. ASSUME NEW t \in Producers \cup Consumers, Begin(t) PROVE \A c \in Consumers : Aside(c)
    <2>1. ASSUME NEW o \in Operations, Start(t, o) PROVE \A c \in Consumers : Aside(c)
        <3>1. calls' = [calls EXCEPT ![t] = Append(@, o)] /\ o \in Calls
            BY <2>1 DEF Start, Calls
        <3>2. DOMAIN calls = Producers \cup Consumers
            BY DEF QueueInv, ValueInv, DataTypes
        <3>3. QED
            BY <3>1, <3>2 DEF Aside
    <2>2. ASSUME NEW v, TryPush(t, v) \/ TryPop(t) PROVE calls' = calls
        BY <2>2 DEF TryPush, TryPop
    <2>3. QED
        BY <1>0, <1>5, <2>1, <2>2 DEF Begin
<1>6. QED
    BY <1>0, <1>1, <1>2, <1>3, <1>4, <1>5 DEF Next

LEMMA NextTakes == ASSUME QueueInv, [Next]_vars PROVE Takes \/ TakesNothing
<1>1. CASE UNCHANGED vars
    BY <1>1 DEF vars, storageVars, TakesNothing, Aside
<1>2. ASSUME NEW t \in Threads, TransferStep(t) PROVE Takes \/ TakesNothing
    BY <1>2, TransferTakes
<1>3. ASSUME NEW t \in Threads, Flush(t) PROVE Takes \/ TakesNothing
    BY <1>3 DEF Flush, storageVars, Free, TakesNothing, Aside
<1>4. CASE Next /\ ~\E t \in Threads : TransferStep(t) \/ Flush(t)
    <2>1. PICK t \in Threads : SteadyStep(t)
        BY <1>4, NextSteady
    <2>2. taken' = taken /\ \A o \in PopOps : op'[o].moved = op[o].moved
        BY <2>1 DEF SteadyStep, Steady, OpSteady, storageVars, Operations
    <2>3. QED
        BY <1>4, <2>2, OtherAside DEF TakesNothing
<1>5. QED
    BY <1>1, <1>2, <1>3, <1>4

LEMMA NextLog ==
    ASSUME QueueInv, [Next]_vars
    PROVE  \/ log' = log
           \/ \E x \in Pushes : \E e \in Values : e[1] = x /\ log' = Append(log, e)
<1>1. CASE UNCHANGED vars
    BY <1>1 DEF vars, storageVars
<1>2. ASSUME NEW t \in Threads, TransferStep(t), log' # log
      PROVE  \E x \in Pushes : \E e \in Values : e[1] = x /\ log' = Append(log, e)
    <2> PICK x : x = thread[t].job
        OBVIOUS
    <2>1. Placing(thread[t]) /\ Appends(x)
        BY <1>2, TransferMoved DEF Moved
    <2>2. x \in Pushes
        BY <2>1, Pusher
    <2>3. QED
        BY <2>1, <2>2 DEF Appends
<1>3. ASSUME NEW t \in Threads, Flush(t) PROVE log' = log
    BY <1>3, FlushShown
<1>4. CASE Next /\ ~\E t \in Threads : TransferStep(t) \/ Flush(t)
    BY <1>4, NextSteady DEF SteadyStep, Steady, storageVars
<1>5. QED
    BY <1>1, <1>2, <1>3, <1>4

LEMMA NextOwned ==
    ASSUME QueueInv, Origin, Owned, [Next]_vars PROVE Origin' /\ Owned'
<1>1. log \in Seq(Values) /\ Len(log) \in Nat /\ taken \in Nat /\ taken <= Len(log)
    BY TakenTypes, LenProperties DEF QueueInv, ValueInv, IInv, StorageTypeOK
<1>2. /\ \A i \in 1 .. Len(log) : log'[i] = log[i]
      /\ \A i \in 1 .. Len(log') : i \in 1 .. Len(log) \/ log'[i][1] \in Pushes
    <2>1. CASE log' = log
        BY <2>1
    <2>2. ASSUME NEW e \in Values, e[1] \in Pushes, log' = Append(log, e)
          PROVE  /\ \A i \in 1 .. Len(log) : log'[i] = log[i]
                 /\ \A i \in 1 .. Len(log') : i \in 1 .. Len(log) \/ log'[i][1] \in Pushes
        <3>1. /\ Len(Append(log, e)) = Len(log) + 1 /\ Append(log, e)[Len(log) + 1] = e
              /\ \A i \in 1 .. Len(log) : Append(log, e)[i] = log[i]
            BY <1>1, <2>2, AppendProperties
        <3>2. QED
            BY <1>1, <2>2, <3>1
    <2>3. QED
        BY <2>1, <2>2, NextLog
<1>3. Origin'
    BY <1>2 DEF Origin
<1>4. \A i \in 1 .. taken : log'[i] = log[i]
    BY <1>1, <1>2
<1>5. QED
    BY <1>3, <1>4, NextTakes, TakesOwned, NothingOwned

LEMMA OwnedInvariant == Spec => [](Origin /\ Owned)
<1>1. Init => Origin /\ Owned
    <2> SUFFICES ASSUME Init PROVE Origin /\ Owned
        OBVIOUS
    <2>1. /\ log = << >> /\ taken = 0
          /\ \A o \in PopOps : op[o].moved = << >>
          /\ \A c \in Consumers : calls[c] = << >>
        BY DEF Init, StorageInit, NewOperation, Operations
    <2>2. QED
        BY <2>1 DEF Origin, Owned, TakenOut, HasIt, GotIt, ListedIn
<1>2. QueueInv /\ Origin /\ Owned /\ [Next]_vars => (Origin /\ Owned)'
    BY NextOwned
<1>3. QED
    BY <1>1, <1>2, QueueInvariant, PTL DEF Spec

(* One of two disjoint kinds has it, and only one of them. *)
LEMMA OneHolder ==
    ASSUME NEW S, NEW T, NEW x, (S = {x} /\ T = {}) \/ (S = {} /\ T = {x})
    PROVE  Cardinality(S) + Cardinality(T) = 1
<1>1. Cardinality({x}) = 1 /\ Cardinality({}) = 0
    BY FS_EmptySet, FS_Singleton
<1>2. QED
    BY <1>1

(* What was taken from the ring is in the hands of one pop or of one       *)
(* caller of TryPop, also when a batch pop goes on meanwhile or the queue  *)
(* is aborted; and a pop completes with Popped exactly if it has some.     *)
THEOREM TakenIsKept == Spec => []NothingLost
<1>1. ASSUME QueueInv, Owned, NEW i \in 1 .. taken
      PROVE  Cardinality({o \in PopOps : ListedIn(op[o].moved, log[i])})
             + Cardinality({c \in Consumers : ListedIn(calls[c], log[i])}) = 1
    <2> PICK e : e = log[i]
        OBVIOUS
    <2> DEFINE S == {o \in PopOps : HasIt(o, e)}
               T == {c \in Consumers : GotIt(c, e)}
    <2>1. e \in TakenOut /\ e \in Elements
        BY <1>1, TakenTypes DEF TakenOut
    <2>2. ASSUME NEW o \in PopOps, HasIt(o, e) PROVE Cardinality(S) + Cardinality(T) = 1
        <3>1. S = {o} /\ T = {}
            BY <1>1, <2>1, <2>2 DEF Owned
        <3>2. QED
            BY <3>1, OneHolder
    <2>3. ASSUME NEW c \in Consumers, GotIt(c, e) PROVE Cardinality(S) + Cardinality(T) = 1
        <3>1. S = {} /\ T = {c}
            BY <1>1, <2>1, <2>3 DEF Owned
        <3>2. QED
            BY <3>1, OneHolder
    <2>4. QED
        BY <1>1, <2>1, <2>2, <2>3 DEF Owned, HasIt, GotIt
<1>2. QueueInv /\ Owned => NothingLost
    <2> SUFFICES ASSUME QueueInv, Owned PROVE NothingLost
        OBVIOUS
    <2>1. \A o \in PopOps : op[o].result = "Popped" <=> op[o].moved # << >>
        BY DEF QueueInv, ValueInv, Placed
    <2>2. QED
        BY <1>1, <2>1 DEF NothingLost
<1>3. QED
    BY <1>2, QueueInvariant, OwnedInvariant, PTL
-----------------------------------------------------------------------------
(***************************************************************************)
(* Nobody is stranded: whoever is parked although there is room, an item   *)
(* or the end of the stream for it, is about to be served by some thread.  *)
(***************************************************************************)

(* A thread that is sure to look at both lists of waiters. *)
Attentive(th) ==
    \/ th.pc = "lock" /\ th.goal \in {"start", "service"}
    \/ th.pc \in {"admit", "park", "settle", "front.push", "drop"}
    \/ Transferring(th) /\ th.from = "reserved"
    \/ Transferring(th) /\ th.from = "front" /\ IsPush(th.job)

(* It looks at the pops, and at the pushes again if anything has moved. *)
InFront(th) == th.pc = "front.pop" \/ (Transferring(th) /\ th.from = "front")

(* Who will find the room of a parked push, the item of a parked pop and   *)
(* the end of the stream.                                                  *)
ServesPush(th) ==
    \/ Attentive(th)
    \/ InFront(th) /\ th.progress
    \/ th.pc \in {"pop.free", "pop.advance"}
    \/ th.pc = "pop" /\ th.job \in PopOps /\ op[th.job].moved # << >>
    \/ th.pc = "wake" /\ ~IsPush(th.call)
    \/ th.pc = "polled" /\ th.ok

ServesPop(th) ==
    \/ Attentive(th)
    \/ InFront(th)
    \/ th.pc = "push" /\ Pushed(th.job) # 0
    \/ th.pc \in {"leave", "left"} /\ (th.ok \/ th.goal = "start")
    \/ th.pc = "wake" /\ IsPush(th.call)

Sweeps(th) ==
    \/ Attentive(th)
    \/ InFront(th)
    \/ th.pc \in {"sweep", "sweep.all", "left"}
    \/ th.pc = "fail" /\ th.goal = "close"
    \/ th.pc = "wake" /\ IsPush(th.call)

RoomOwed ==
    lifecycle = "Open" /\ pending["push"] # << >> /\ RoomFor(Head(pending["push"]))
ItemOwed == lifecycle # "Aborted" /\ pending["pop"] # << >> /\ HasItem
EndOwed ==
    lifecycle = "Closing" /\ pending["pop"] # << >> /\ active = 0 /\ Claimed = taken

RoomServed == RoomOwed => \E t \in Threads : ServesPush(thread[t])
ItemServed == ItemOwed => \E t \in Threads : ServesPop(thread[t])
EndServed == EndOwed => \E t \in Threads : Sweeps(thread[t])

(* A list that the lifecycle leaves no hope for is about to be drained by  *)
(* the thread that ended it, and nobody gets into it meanwhile.            *)
Ended(side) == lifecycle = "Aborted" \/ (side = "push" /\ lifecycle = "Closing")
Fails(th, side) == th.pc = "fail" /\ (side = "push" \/ th.goal = "abort")
Hopeless(side) == pending[side] # << >> /\ Ended(side)
EndedFails ==
    \A side \in Sides : Hopeless(side) => \E t \in Threads : Fails(thread[t], side)
ReservedOpen ==
    \A t \in Threads : Reserving(thread[t]) => ~Ended(SideOf(Call(t)))

(* Cells are given back in order where batches are pushed, and a pop that  *)
(* gives one back later holds the value.                                   *)
CellSteps == {"publish", "pop.free", "pop.advance"}
GivenInOrder ==
    topology = "Spsc" =>
      freed = 0 .. taken - 1 /\ \A t \in Threads : thread[t].pc \notin CellSteps
FreeHolds ==
    \A t \in Threads : At(t, "pop.free") /\ thread[t].job # None =>
        op[thread[t].job].moved # << >>

StrandInv ==
    /\ RoomServed /\ ItemServed /\ EndServed
    /\ EndedFails /\ ReservedOpen /\ GivenInOrder /\ FreeHolds
-----------------------------------------------------------------------------
(* What a step of t has to see to: what is owed afterwards is served by t, *)
(* or was owed before to somebody whom t did not serve.                    *)
RoomDuty(t) ==
    RoomOwed' => ServesPush(thread[t])' \/ (RoomOwed /\ ~ServesPush(thread[t]))
ItemDuty(t) ==
    ItemOwed' => ServesPop(thread[t])' \/ (ItemOwed /\ ~ServesPop(thread[t]))
EndDuty(t) ==
    EndOwed' => Sweeps(thread[t])' \/ (EndOwed /\ ~Sweeps(thread[t]))
FailDuty(t) ==
    \A side \in Sides : Hopeless(side)' =>
        Fails(thread'[t], side) \/ (Hopeless(side) /\ ~Fails(thread[t], side))

(* The transfers of the other threads do not go back. *)
TransfersGrow ==
    /\ \A o \in PopOps : op[o].moved # << >> => op'[o].moved # << >>
    /\ \A x \in Pushes : Pushed(x) # 0 => Pushed(x)' # 0

LEMMA OthersServe ==
    ASSUME BaseInv, TransfersGrow, NEW t \in Threads, OnlyThread(t), NEW u \in Threads, u # t
    PROVE  /\ ServesPush(thread[u]) => ServesPush(thread[u])'
           /\ ServesPop(thread[u]) => ServesPop(thread[u])'
           /\ Sweeps(thread[u]) => Sweeps(thread[u])'
<1>1. thread'[u] = thread[u]
    BY DEF OnlyThread
<1>2. thread[u].pc = "push" => thread[u].job \in Pushes
    <2>1. thread[u].pc = "push" => Transferring(thread[u]) /\ IsPush(thread[u].job)
        BY Shaped DEF Jobs, Transferring
    <2>2. QED
        BY <2>1 DEF IsPush, Pushes
<1>3. ServesPush(thread[u]) => ServesPush(thread[u])'
    BY <1>1 DEF ServesPush, TransfersGrow
<1>4. ServesPop(thread[u]) => ServesPop(thread[u])'
    BY <1>1, <1>2 DEF ServesPop, TransfersGrow
<1>5. Sweeps(thread[u]) => Sweeps(thread[u])'
    BY <1>1 DEF Sweeps
<1>6. QED
    BY <1>3, <1>4, <1>5

LEMMA DutiesServe ==
    ASSUME BaseInv, StrandInv, TransfersGrow, NEW t \in Threads, OnlyThread(t)
    PROVE  /\ RoomDuty(t) => RoomServed'
           /\ ItemDuty(t) => ItemServed'
           /\ EndDuty(t) => EndServed'
           /\ FailDuty(t) => EndedFails'
<1>1. RoomDuty(t) => RoomServed'
    <2> SUFFICES ASSUME RoomDuty(t), RoomOwed' PROVE \E u \in Threads : ServesPush(thread[u])'
        BY DEF RoomServed
    <2>1. CASE ServesPush(thread[t])'
        BY <2>1
    <2>2. CASE RoomOwed /\ ~ServesPush(thread[t])
        <3>1. PICK u \in Threads : ServesPush(thread[u])
            BY <2>2 DEF StrandInv, RoomServed
        <3>2. QED
            BY <2>2, <3>1, OthersServe
    <2>3. QED
        BY <2>1, <2>2 DEF RoomDuty
<1>2. ItemDuty(t) => ItemServed'
    <2> SUFFICES ASSUME ItemDuty(t), ItemOwed' PROVE \E u \in Threads : ServesPop(thread[u])'
        BY DEF ItemServed
    <2>1. CASE ServesPop(thread[t])'
        BY <2>1
    <2>2. CASE ItemOwed /\ ~ServesPop(thread[t])
        <3>1. PICK u \in Threads : ServesPop(thread[u])
            BY <2>2 DEF StrandInv, ItemServed
        <3>2. QED
            BY <2>2, <3>1, OthersServe
    <2>3. QED
        BY <2>1, <2>2 DEF ItemDuty
<1>3. EndDuty(t) => EndServed'
    <2> SUFFICES ASSUME EndDuty(t), EndOwed' PROVE \E u \in Threads : Sweeps(thread[u])'
        BY DEF EndServed
    <2>1. CASE Sweeps(thread[t])'
        BY <2>1
    <2>2. CASE EndOwed /\ ~Sweeps(thread[t])
        <3>1. PICK u \in Threads : Sweeps(thread[u])
            BY <2>2 DEF StrandInv, EndServed
        <3>2. QED
            BY <2>2, <3>1, OthersServe
    <2>3. QED
        BY <2>1, <2>2 DEF EndDuty
<1>4. FailDuty(t) => EndedFails'
    <2> SUFFICES ASSUME FailDuty(t), NEW side \in Sides, Hopeless(side)'
                 PROVE  \E u \in Threads : Fails(thread'[u], side)
        BY DEF EndedFails, Fails
    <2>1. CASE Fails(thread'[t], side)
        BY <2>1
    <2>2. CASE Hopeless(side) /\ ~Fails(thread[t], side)
        <3>1. PICK u \in Threads : Fails(thread[u], side)
            BY <2>2 DEF StrandInv, EndedFails
        <3>2. QED
            BY <2>2, <3>1 DEF OnlyThread
    <2>3. QED
        BY <2>1, <2>2 DEF FailDuty
<1>5. QED
    BY <1>1, <1>2, <1>3, <1>4
-----------------------------------------------------------------------------
(* Where a thread has no duty. *)
Unserving == Starting \cup {"idle", "enter", "waiting", "poll", "refused", "complete",
                            "close", "abort", "cancel", "mark", "unlock"}
LEMMA NoDuty ==
    ASSUME NEW th, th.pc \in Unserving
    PROVE  /\ ~Attentive(th) /\ ~InFront(th) /\ ~ServesPush(th) /\ ~ServesPop(th) /\ ~Sweeps(th)
           /\ \A side : ~Fails(th, side)
BY DEF Unserving, Starting, Attentive, InFront, Transferring, ServesPush, ServesPop, Sweeps, Fails

(* A thread at Attentive serves all of them. *)
LEMMA AllDuties ==
    ASSUME NEW t, Attentive(thread'[t])
    PROVE  RoomDuty(t) /\ ItemDuty(t) /\ EndDuty(t)
BY DEF RoomDuty, ItemDuty, EndDuty, ServesPush, ServesPop, Sweeps, Attentive, Transferring

(* Nothing that is owed changes. *)
LEMMA SameOwed ==
    ASSUME UNCHANGED <<lifecycle, pending, storageVars>>
    PROVE  /\ RoomOwed' <=> RoomOwed
           /\ ItemOwed' <=> ItemOwed
           /\ active' = active => (EndOwed' <=> EndOwed)
           /\ \A side : Hopeless(side)' <=> Hopeless(side)
BY DEF RoomOwed, ItemOwed, EndOwed, RoomFor, Claimed, Pushed, HasItem, storageVars, Hopeless, Ended

-----------------------------------------------------------------------------
(* What a step that transfers nothing has to see to.                       *)
Duties(t) == RoomDuty(t) /\ ItemDuty(t) /\ EndDuty(t) /\ FailDuty(t)
Manners(t) ==
    /\ Reserving(thread'[t]) => ~Ended(SideOf(Call(t)))'
    /\ lifecycle' = lifecycle \/ Holding(thread[t])
    /\ thread'[t].pc \notin CellSteps
Cares(t) == OnlyThread(t) /\ Duties(t) /\ Manners(t)

LEMMA ReservedKept ==
    ASSUME BaseInv, ReservedOpen, NEW t \in Threads, OnlyThread(t),
           Reserving(thread'[t]) => ~Ended(SideOf(Call(t)))',
           lifecycle' = lifecycle \/ Holding(thread[t])
    PROVE  ReservedOpen'
<1> SUFFICES ASSUME NEW u \in Threads, Reserving(thread'[u]) PROVE ~Ended(SideOf(Call(u)))'
    BY DEF ReservedOpen
<1>1. CASE u # t
    <2>1. thread'[u] = thread[u]
        BY <1>1 DEF OnlyThread
    <2>2. lifecycle' = lifecycle
        BY <1>1, <2>1, HolderAlone
    <2>3. QED
        BY <2>1, <2>2 DEF ReservedOpen, Ended, Call
<1>2. QED
    BY <1>1

LEMMA CaresKeep ==
    ASSUME BaseInv, StrandInv, NEW t \in Threads, Steady(t), Cares(t) PROVE StrandInv'
<1>1. TransfersGrow
    <2>1. \A x : Pushed(x)' = Pushed(x)
        BY SamePushed DEF Steady, storageVars
    <2>2. \A o \in PopOps : op'[o].moved = op[o].moved
        BY DEF Steady, OpSteady, Operations
    <2>3. QED
        BY <2>1, <2>2 DEF TransfersGrow
<1>2. RoomServed' /\ ItemServed' /\ EndServed' /\ EndedFails'
    BY <1>1, DutiesServe DEF Cares, Duties
<1>3. ReservedOpen'
    BY ReservedKept DEF StrandInv, Cares, Manners
<1>4. GivenInOrder'
    BY DEF StrandInv, GivenInOrder, Cares, Manners, OnlyThread, Steady, storageVars
<1>5. FreeHolds'
    <2> SUFFICES ASSUME NEW u \in Threads, thread'[u].pc = "pop.free", thread'[u].job # None
                 PROVE  op'[thread'[u].job].moved # << >>
        BY DEF FreeHolds, At
    <2>1. u # t /\ thread'[u] = thread[u]
        BY DEF Cares, Manners, CellSteps, OnlyThread
    <2>2. thread[u].job \in PopOps
        BY <2>1, Shaped DEF Jobs, Transferring
    <2>3. op[thread[u].job].moved # << >>
        BY <2>1 DEF StrandInv, FreeHolds, At
    <2>4. QED
        BY <1>1, <2>1, <2>2, <2>3 DEF TransfersGrow
<1>6. QED
    BY <1>2, <1>3, <1>4, <1>5 DEF StrandInv

(* A step that changes nothing of what is owed hands its services on. *)
LEMMA ServicesPassed ==
    ASSUME NEW t \in Threads, UNCHANGED <<lifecycle, pending, storageVars>>,
           EndOwed' => EndOwed,
           RoomOwed /\ ServesPush(thread[t]) => ServesPush(thread[t])',
           ItemOwed /\ ServesPop(thread[t]) => ServesPop(thread[t])',
           EndOwed' /\ Sweeps(thread[t]) => Sweeps(thread[t])',
           thread[t].pc # "fail"
    PROVE  Duties(t)
<1>1. RoomDuty(t) /\ ItemDuty(t) /\ EndDuty(t)
    BY SameOwed DEF RoomDuty, ItemDuty, EndDuty
<1>2. FailDuty(t)
    BY SameOwed DEF FailDuty, Fails
<1>3. QED
    BY <1>1, <1>2 DEF Duties

LEMMA EndOwedKept ==
    ASSUME UNCHANGED <<lifecycle, pending, storageVars>>, active' = active \/ active' # 0
    PROVE  EndOwed' => EndOwed
BY SameOwed DEF EndOwed

LEMMA UnservingCares ==
    ASSUME NEW t \in Threads, OnlyThread(t), thread[t].pc \in Unserving,
           thread'[t].pc \notin CellSteps, ~Reserving(thread'[t]),
           UNCHANGED <<lifecycle, pending, storageVars>>, active' = active \/ active' # 0
    PROVE  Cares(t)
<1>1. thread[t].pc # "fail"
    BY DEF Unserving, Starting
<1>2. Duties(t)
    BY <1>1, NoDuty, ServicesPassed, EndOwedKept
<1>3. QED
    BY <1>2 DEF Cares, Manners

(* A thread that is going to look at both lists cares for all.             *)
LEMMA AttentiveCares ==
    ASSUME NEW t \in Threads, OnlyThread(t), Attentive(thread'[t]), thread'[t].pc \notin CellSteps,
           ~Reserving(thread'[t]), thread[t].pc # "fail",
           UNCHANGED <<lifecycle, pending>>
    PROVE  Cares(t)
<1>1. RoomDuty(t) /\ ItemDuty(t) /\ EndDuty(t)
    BY AllDuties
<1>2. FailDuty(t)
    BY DEF FailDuty, Hopeless, Ended, Fails
<1>3. QED
    BY <1>1, <1>2 DEF Cares, Duties, Manners
-----------------------------------------------------------------------------
(* The steps of a call outside of its transfer.                            *)
LEMMA TryPopWaitingCares ==
    ASSUME QueueInv, NEW t \in Threads, TryPopWaiting(t) PROVE Cares(t)
<1>1. /\ OnlyThread(t) /\ thread[t].pc = "poll"
      /\ UNCHANGED <<lifecycle, active, pending, storageVars>>
      /\ thread'[t] = NewThread \/ (thread'[t].pc = "pop" /\ thread'[t].from = "poll")
    BY Known, Fields DEF TryPopWaiting, OnlyThread, At, queueVars, waiters
<1>2. thread'[t].pc \notin CellSteps /\ ~Reserving(thread'[t])
    BY <1>1, IdleThread DEF CellSteps, Reserving, Transferring
<1>3. QED
    BY <1>1, <1>2, UnservingCares DEF Unserving

LEMMA CountedWaiters ==
    ASSUME QueueInv, NEW side \in Sides, pending[side] # << >> PROVE waiting[side] # 0
<1>1. pending[side] \in Seq(Operations) /\ Len(pending[side]) \in Nat /\ Len(pending[side]) # 0
    BY PendingTypes, EmptySeq DEF QueueInv
<1>2. waiting[side] = Len(pending[side]) + IF Reserved(side) THEN 1 ELSE 0
    BY DEF QueueInv, BaseInv, Counted
<1>3. CASE Reserved(side)
    BY <1>1, <1>2, <1>3
<1>4. CASE ~Reserved(side)
    BY <1>1, <1>2, <1>4
<1>5. QED
    BY <1>3, <1>4

LEMMA TryPopAfterCares ==
    ASSUME QueueInv, NEW t \in Threads, TryPopAfter(t) PROVE Cares(t)
<1>1. /\ OnlyThread(t) /\ thread[t].pc = "polled" /\ thread[t].goal = "service"
      /\ UNCHANGED <<lifecycle, active, pending, storageVars>>
      /\ \/ thread'[t] = NewThread /\ ~(thread[t].ok /\ waiting["push"] # 0)
         \/ thread'[t].pc = "lock" /\ thread'[t].goal = "service"
    BY Known, Fields DEF TryPopAfter, OnlyThread, At, queueVars, waiters, Shape, OwnPoll
<1>2. thread'[t].pc \notin CellSteps /\ ~Reserving(thread'[t])
    BY <1>1, IdleThread DEF CellSteps, Reserving, Transferring
<1>3. CASE thread'[t].pc = "lock" /\ thread'[t].goal = "service"
    BY <1>1, <1>2, <1>3, AttentiveCares DEF Attentive
<1>4. CASE ~(thread[t].ok /\ waiting["push"] # 0)
    <2>1. RoomOwed => waiting["push"] # 0
        BY CountedWaiters DEF RoomOwed, Sides
    <2>2. /\ ServesPush(thread[t]) => thread[t].ok
          /\ ~ServesPop(thread[t]) /\ ~Sweeps(thread[t])
        BY <1>1 DEF ServesPush, ServesPop, Sweeps, Attentive, InFront, Transferring
    <2>3. Duties(t)
        BY <1>1, <1>4, <2>1, <2>2, ServicesPassed, EndOwedKept
    <2>4. QED
        BY <1>1, <1>2, <2>3 DEF Cares, Manners
<1>5. QED
    BY <1>1, <1>3, <1>4

(* What the first steps of a start have in common. *)
LEMMA GotoCares ==
    ASSUME QueueInv, NEW t \in Threads, NEW pc, Goto(t, pc), thread[t].pc \in Unserving,
           pc \notin CellSteps \cup {"park", "settle", "push", "pop"},
           UNCHANGED <<lifecycle, pending, storageVars>>, active' = active \/ active' # 0
    PROVE  Cares(t)
<1>1. OnlyThread(t) /\ thread'[t].pc = pc
    BY GotoOnto DEF QueueInv, Onto
<1>2. thread'[t].pc \notin CellSteps /\ ~Reserving(thread'[t])
    BY <1>1 DEF CellSteps, Reserving, Transferring
<1>3. QED
    BY <1>1, <1>2, UnservingCares

LEMMA StartingCares ==
    ASSUME QueueInv, NEW t \in Threads,
           CheckToken(t) \/ RegisterCallback(t) \/ StartPhase(t) \/ StartLifecycle(t)
    PROVE  Cares(t)
<1>1. /\ OnlyThread(t) /\ thread[t].pc \in {"token", "register", "begin", "admit.fast"}
      /\ UNCHANGED <<lifecycle, active, pending, storageVars>>
      /\ thread'[t].pc \in {"idle", "register", "lock", "begin", "admit.fast", "refused",
                            "enter.fast", "waiting"}
    BY Known, Fields, IdleThread DEF CheckToken, RegisterCallback, StartPhase, StartLifecycle, Goto,
       OnlyThread, At, queueVars, waiters
<1>2. thread'[t].pc \notin CellSteps /\ ~Reserving(thread'[t])
    BY <1>1 DEF CellSteps, Reserving, Transferring
<1>3. QED
    BY <1>1, <1>2, UnservingCares DEF Unserving, Starting

LEMMA ActiveCount ==
    ASSUME QueueInv PROVE active \in Nat
<1>1. IsFiniteSet({t \in Threads : Entered(thread[t])})
    BY FiniteAssumption, FS_Subset
<1>2. QED
    BY <1>1, FS_CardinalityType DEF QueueInv, GateInv, Insiders

LEMMA EnterCares ==
    ASSUME QueueInv, NEW t \in Threads, EnterProducer(t) \/ EnterOpen(t) PROVE Cares(t)
<1>1. /\ OnlyThread(t) /\ thread[t].pc \in {"enter.fast", "enter"}
      /\ UNCHANGED <<lifecycle, pending, storageVars>>
      /\ active' = active \/ active' = active + 1
      /\ thread'[t].pc \in {"enter", "waiting", "leave"}
    BY Known, Fields DEF EnterProducer, EnterOpen, Goto, OnlyThread, At, queueVars, waiters
<1>2. thread'[t].pc \notin CellSteps /\ ~Reserving(thread'[t])
    BY <1>1 DEF CellSteps, Reserving, Transferring
<1>3. active' = active \/ active' # 0
    BY <1>1, ActiveCount
<1>4. QED
    BY <1>1, <1>2, <1>3, UnservingCares DEF Unserving, Starting

LEMMA FastPathCares ==
    ASSUME QueueInv, NEW t \in Threads, FastPath(t) PROVE Cares(t)
<1>1. /\ OnlyThread(t) /\ thread[t].pc = "waiting"
      /\ UNCHANGED <<lifecycle, active, pending, storageVars>>
      /\ \/ thread'[t].pc \in {"leave", "lock"}
         \/ thread'[t].pc \in {"push", "pop"} /\ thread'[t].from = "fast"
    BY Known, Fields DEF FastPath, OnlyThread, At, queueVars, waiters, SideOf
<1>2. thread'[t].pc \notin CellSteps /\ ~Reserving(thread'[t])
    BY <1>1 DEF CellSteps, Reserving, Transferring
<1>3. QED
    BY <1>1, <1>2, UnservingCares DEF Unserving

LEMMA DepartCares ==
    ASSUME QueueInv, NEW t \in Threads, NEW service \in BOOLEAN, Depart(t, service),
           thread[t].pc \in {"leave", "left"}, UNCHANGED <<lifecycle, pending, storageVars>>,
           EndOwed' => EndOwed /\ (thread[t].pc = "leave" \/ service)
    PROVE  Cares(t)
<1> DEFINE th == thread[t]
           new == thread'[t]
<1>1. /\ OnlyThread(t) /\ IsPush(th.call)
      /\ th.goal \in {"start", "service"}
    BY Known DEF Depart, Finish, OnlyThread, Shape, Inside, OwnStart, OwnTry, QueueInv, GateInv,
       PushesPass, Door, Call
<1>2. /\ ~ServesPush(th)
      /\ Sweeps(th) => th.pc = "left"
      /\ ServesPop(th) => th.ok \/ th.goal = "start"
    BY DEF ServesPush, ServesPop, Sweeps, Attentive, InFront, Transferring
<1>3. CASE th.goal = "start" /\ ~th.ok
    <2>1. new.pc = "lock" /\ new.goal = "start"
        BY <1>3, Known, Fields DEF Depart
    <2>2. QED
        BY <1>1, <2>1, AttentiveCares DEF Attentive, CellSteps, Reserving, Transferring
<1>4. CASE ~(th.goal = "start" /\ ~th.ok) /\ service
    <2>1. new.pc = "lock" /\ new.goal = "service"
        <3> DEFINE listed == IF Call(t) \in Operations THEN <<Call(t)>> ELSE << >>
                   next == [th EXCEPT !.done = listed, !.goal = "service"]
        <3>1. thread' = [thread EXCEPT ![t] = [next EXCEPT !.pc = "lock"]]
            BY <1>4 DEF Depart, Finish
        <3>2. DOMAIN next = ThreadFields /\ next.goal = "service"
            BY Known, Fields
        <3> HIDE DEF next
        <3>3. QED
            BY <3>1, <3>2, Known, Fields
    <2>2. QED
        BY <1>1, <2>1, AttentiveCares DEF Attentive, CellSteps, Reserving, Transferring
<1>5. CASE ~(th.goal = "start" /\ ~th.ok) /\ ~service
    <2>1. \/ th.ok /\ new.pc = "wake" /\ new.call = th.call
          \/ ~th.ok /\ new = NewThread
        BY <1>5, Known, Fields DEF Depart
    <2>2. ServesPop(th) => ServesPop(thread[t])'
        BY <1>1, <1>2, <1>5, <2>1 DEF ServesPop
    <2>3. EndOwed' => ~Sweeps(th)
        BY <1>2, <1>5
    <2>4. Duties(t)
        BY <1>2, <2>2, <2>3, ServicesPassed
    <2>5. new.pc \notin CellSteps /\ ~Reserving(new)
        BY <2>1, IdleThread DEF CellSteps, Reserving, Transferring
    <2>6. QED
        BY <1>1, <2>4, <2>5 DEF Cares, Manners
<1>6. QED
    BY <1>3, <1>4, <1>5

LEMMA LeaveCares ==
    ASSUME QueueInv, NEW t \in Threads, LeaveProducer(t) PROVE Cares(t)
<1> DEFINE th == thread[t]
           new == thread'[t]
<1>1. /\ th.pc = "leave" /\ UNCHANGED <<lifecycle, pending, storageVars>>
      /\ active' = active - 1
    BY DEF LeaveProducer, At, waiters
<1>2. CASE active = 1
    <2>1. /\ OnlyThread(t) /\ new.pc = "left" /\ new.ok = th.ok /\ new.goal = th.goal
        BY <1>2, GotoOnto DEF LeaveProducer, QueueInv, Onto
    <2>2. /\ ~ServesPush(th) /\ ~Sweeps(th)
          /\ ServesPop(th) => ServesPop(thread[t])'
          /\ Sweeps(thread[t])'
        BY <1>1, <2>1 DEF ServesPush, ServesPop, Sweeps, Attentive, InFront, Transferring
    <2>3. RoomDuty(t) /\ ItemDuty(t) /\ EndDuty(t)
        BY <1>1, <2>2, SameOwed DEF RoomDuty, ItemDuty, EndDuty
    <2>4. FailDuty(t)
        BY <1>1, SameOwed DEF FailDuty, Fails
    <2>5. new.pc \notin CellSteps /\ ~Reserving(new)
        BY <2>1 DEF CellSteps, Reserving, Transferring
    <2>6. QED
        BY <1>1, <2>1, <2>3, <2>4, <2>5 DEF Cares, Duties, Manners
<1>3. CASE active # 1
    <2>1. ~EndOwed'
        BY <1>1, <1>3, ActiveCount DEF EndOwed
    <2>2. Depart(t, FALSE)
        BY <1>3 DEF LeaveProducer
    <2>3. QED
        BY <1>1, <2>1, <2>2, DepartCares
<1>4. QED
    BY <1>2, <1>3

(* Without store buffers every thread sees the same. *)
LEMMA SeenAtOnce ==
    ASSUME Final, NEW t \in Threads
    PROVE  /\ Lifecycle(t) = lifecycle
           /\ IsDrained(t) <=> Claimed = taken
           /\ ClosedAndEmpty(t) <=> lifecycle = "Closing" /\ active = 0 /\ Claimed = taken
<1>1. \A u \in Threads : buffer[u] = << >> /\ Len(buffer[u]) = 0
    BY EmptySeq DEF Final
<1>2. Lifecycle(t) = lifecycle
    BY <1>1 DEF Lifecycle
<1>3. IsDrained(t) <=> Claimed = taken
    BY <1>1 DEF IsDrained
<1>4. QED
    BY <1>2, <1>3 DEF ClosedAndEmpty

LEMMA LastLeftCares ==
    ASSUME QueueInv, Final, NEW t \in Threads, LastProducerLeft(t) PROVE Cares(t)
<1>1. /\ thread[t].pc = "left" /\ UNCHANGED <<lifecycle, active, pending, storageVars>>
      /\ Depart(t, lifecycle = "Closing")
    BY SeenAtOnce DEF LastProducerLeft, At, queueVars, waiters
<1>2. EndOwed' => EndOwed /\ lifecycle = "Closing"
    BY <1>1, EndOwedKept DEF EndOwed
<1>3. QED
    BY <1>1, <1>2, DepartCares

(* What a thread may go on to when it returns cares for nothing. *)
LEMMA ReturnPlain ==
    ASSUME NEW t, NEW th, DOMAIN th = ThreadFields, th.position \in Nat
    PROVE  Return(t, th).pc \notin CellSteps /\ ~Reserving(Return(t, th))
<1>1. Apart(Return(t, th))
    BY ReturnApart
<1>2. QED
    BY <1>1 DEF Apart, CellSteps, Transferring

LEMMA WakeCares ==
    ASSUME QueueInv, NEW t \in Threads, Wake(t) PROVE Cares(t)
<1> DEFINE th == thread[t]
           new == thread'[t]
           x == Call(t)
           listed == IF x \in Operations THEN <<x>> ELSE << >>
           next == [th EXCEPT !.done = listed, !.goal = "service"]
<1>1. /\ th.pc = "wake" /\ OnlyThread(t) /\ x = th.call
      /\ UNCHANGED <<lifecycle, active, pending, storageVars>>
    BY Known DEF Wake, At, Finish, OnlyThread, Call, queueVars, waiters
<1>2. DOMAIN next = ThreadFields /\ next.position \in Nat /\ next.goal = "service"
    BY Known, Fields
<1>3. \/ new = [next EXCEPT !.pc = "lock"]
      \/ new = Return(t, next) /\ waiting[Opposite(x)] = 0
    BY Known DEF Wake, Finish
<1> HIDE DEF next
<1>4. CASE new = [next EXCEPT !.pc = "lock"]
    <2>1. new.pc = "lock" /\ new.goal = "service"
        BY <1>2, <1>4, Fields
    <2>2. QED
        BY <1>1, <2>1, AttentiveCares DEF Attentive, CellSteps, Reserving, Transferring
<1>5. CASE new = Return(t, next) /\ waiting[Opposite(x)] = 0
    <2>1. new.pc \notin CellSteps /\ ~Reserving(new)
        BY <1>2, <1>5, ReturnPlain
    <2>2. Opposite(x) \in Sides /\ pending[Opposite(x)] = << >>
        BY <1>5, CountedWaiters DEF Opposite, Sides
    <2>3. /\ ServesPush(th) => ~IsPush(x)
          /\ ServesPop(th) => IsPush(x)
          /\ Sweeps(th) => IsPush(x)
        BY <1>1 DEF ServesPush, ServesPop, Sweeps, Attentive, InFront, Transferring
    <2>4. /\ ServesPush(th) => ~RoomOwed
          /\ ServesPop(th) => ~ItemOwed
          /\ Sweeps(th) => ~EndOwed
        BY <2>2, <2>3 DEF Opposite, RoomOwed, ItemOwed, EndOwed
    <2>5. Duties(t)
        BY <1>1, <2>4, ServicesPassed, EndOwedKept
    <2>6. QED
        BY <1>1, <2>1, <2>5 DEF Cares, Manners
<1>6. QED
    BY <1>3, <1>4, <1>5

LEMMA RefusedCares ==
    ASSUME QueueInv, NEW t \in Threads, StartRefused(t) PROVE Cares(t)
<1>1. /\ OnlyThread(t) /\ thread[t].pc = "refused" /\ thread'[t] = NewThread
      /\ UNCHANGED <<lifecycle, active, pending, storageVars>>
    BY Known DEF StartRefused, OnlyThread, At, queueVars, waiters
<1>2. thread'[t].pc \notin CellSteps /\ ~Reserving(thread'[t])
    BY <1>1, IdleThread DEF CellSteps, Reserving, Transferring
<1>3. QED
    BY <1>1, <1>2, UnservingCares DEF Unserving

LEMMA CallStepCares ==
    ASSUME QueueInv, Final, NEW t \in Threads, CallStep(t) PROVE Cares(t)
BY TryPopWaitingCares, TryPopAfterCares, StartingCares, EnterCares, FastPathCares, LeaveCares,
   LastLeftCares, WakeCares, RefusedCares DEF CallStep
-----------------------------------------------------------------------------
(* Steps into a call and out of the lock.                                  *)
LEMMA BeginCares ==
    ASSUME QueueInv, NEW t \in Producers \cup Consumers, Begin(t) PROVE Cares(t)
<1>1. ASSUME NEW v \in TryValues, TryPush(t, v)
      PROVE  /\ OnlyThread(t) /\ thread[t].pc = "idle" /\ thread'[t].pc = "enter"
             /\ UNCHANGED <<lifecycle, pending, storageVars>> /\ active' = active + 1
    <2>1. thread'[t] = [NewThread EXCEPT !.pc = "enter", !.goal = "service", !.call = v]
        BY <1>1, Known, Names DEF TryPush
    <2>2. QED
        BY <1>1, <2>1, Known, Names, Fields, IdleThread DEF ThreadFields, TryPush, OnlyThread, At, waiters
<1>2. ASSUME TryPop(t)
      PROVE  /\ OnlyThread(t) /\ thread[t].pc = "idle" /\ thread'[t].pc = "poll"
             /\ UNCHANGED <<lifecycle, active, pending, storageVars>>
    <2>1. thread'[t] = [NewThread EXCEPT !.pc = "poll", !.goal = "service"]
        BY <1>2, Known, Names DEF TryPop
    <2>2. QED
        BY <1>2, <2>1, Known, Names, Fields, IdleThread DEF ThreadFields, TryPop, OnlyThread, At, queueVars, waiters
<1>3. ASSUME NEW o \in Operations, Start(t, o)
      PROVE  /\ OnlyThread(t) /\ thread[t].pc = "idle" /\ thread'[t].pc \in {"token", "admit.fast"}
             /\ UNCHANGED <<lifecycle, active, pending, storageVars>>
    <2>1. thread'[t] = [NewThread EXCEPT !.call = o, !.goal = "start", !.ok = TRUE,
                          !.pc = IF o \in Stoppable THEN "token" ELSE "admit.fast"]
        BY <1>3, Known, Names DEF Start
    <2>2. QED
        BY <1>3, <2>1, Known, Names, Fields, IdleThread DEF ThreadFields, Start, OnlyThread, At, queueVars, waiters
<1>4. /\ t \in Threads /\ OnlyThread(t) /\ thread[t].pc = "idle"
      /\ thread'[t].pc \in {"enter", "poll", "token", "admit.fast"}
      /\ UNCHANGED <<lifecycle, pending, storageVars>> /\ (active' = active \/ active' = active + 1)
    BY <1>1, <1>2, <1>3, Names DEF Begin
<1>5. thread'[t].pc \notin CellSteps /\ ~Reserving(thread'[t])
    BY <1>4 DEF CellSteps, Reserving, Transferring
<1>6. active' = active \/ active' # 0
    BY <1>4, ActiveCount
<1>7. QED
    BY <1>4, <1>5, <1>6, UnservingCares DEF Unserving

LEMMA EndQueueCares ==
    ASSUME QueueInv, NEW k \in Controllers, Close(k) \/ Abort(k) PROVE Cares(k)
<1>1. PICK goal : EndQueue(k, goal)
    BY DEF Close, Abort
<1>2. /\ k \in Threads /\ OnlyThread(k) /\ thread[k].pc = "idle" /\ thread'[k].pc = "lock"
      /\ UNCHANGED <<lifecycle, active, pending, storageVars>>
    <2>1. thread'[k] = [NewThread EXCEPT !.pc = "lock", !.goal = goal]
        BY <1>1, Known, Names DEF EndQueue
    <2>2. QED
        BY <1>1, <2>1, Known, Names, Fields, IdleThread DEF ThreadFields, EndQueue, OnlyThread, At, queueVars,
           waiters
<1>3. thread'[k].pc \notin CellSteps /\ ~Reserving(thread'[k])
    BY <1>2 DEF CellSteps, Reserving, Transferring
<1>4. QED
    BY <1>2, <1>3, UnservingCares DEF Unserving

LEMMA RequestStopCares ==
    ASSUME QueueInv, NEW x \in Stoppable, RequestStop(x) PROVE Cares(x)
<1>1. /\ x \in Threads /\ OnlyThread(x) /\ thread[x].pc = "idle" /\ thread'[x].pc \in {"idle", "lock"}
      /\ UNCHANGED <<lifecycle, active, pending, storageVars>>
    <2>1. \/ thread'[x] = [NewThread EXCEPT !.pc = "lock", !.goal = "cancel", !.call = x]
          \/ thread'[x] = thread[x]
        BY Known, Names DEF RequestStop
    <2>2. thread'[x].pc \in {"idle", "lock"}
        BY <2>1, Fields, IdleThread DEF ThreadFields, RequestStop, At
    <2>3. QED
        BY <2>2, Known, Names DEF RequestStop, OnlyThread, At, queueVars, waiters
<1>2. thread'[x].pc \notin CellSteps /\ ~Reserving(thread'[x])
    BY <1>1 DEF CellSteps, Reserving, Transferring
<1>3. QED
    BY <1>1, <1>2, UnservingCares DEF Unserving

LEMMA UnlockCares ==
    ASSUME QueueInv, NEW t \in Threads, Unlock(t) PROVE Cares(t)
<1>1. /\ OnlyThread(t) /\ thread[t].pc = "unlock" /\ thread'[t] = Return(t, thread[t])
      /\ UNCHANGED <<lifecycle, active, pending, storageVars>>
    BY Known DEF Unlock, At, OnlyThread, waiters
<1>2. thread'[t].pc \notin CellSteps /\ ~Reserving(thread'[t])
    BY <1>1, Known, ReturnPlain
<1>3. QED
    BY <1>1, <1>2, UnservingCares DEF Unserving

LEMMA CompleteCares ==
    ASSUME QueueInv, NEW t \in Threads, Complete(t) PROVE Cares(t)
<1> DEFINE mid == [thread[t] EXCEPT !.done = Tail(thread[t].done)]
<1>1. /\ OnlyThread(t) /\ thread[t].pc = "complete" /\ thread'[t] = Return(t, mid)
      /\ UNCHANGED <<lifecycle, active, pending, storageVars>>
    BY Known DEF Complete, At, OnlyThread, queueVars, waiters
<1>2. DOMAIN mid = ThreadFields /\ mid.position \in Nat
    BY Known, Fields
<1> HIDE DEF mid
<1>3. thread'[t].pc \notin CellSteps /\ ~Reserving(thread'[t])
    BY <1>1, <1>2, ReturnPlain
<1>4. QED
    BY <1>1, <1>3, UnservingCares DEF Unserving

LEMMA MarkCares ==
    ASSUME QueueInv, NEW t \in Threads, MarkStopRequested(t) PROVE Cares(t)
BY GotoCares DEF MarkStopRequested, At, queueVars, waiters, Unserving, CellSteps

(* A thread that scans the lists looks at whatever is in them. *)
LEMMA ScanServes ==
    ASSUME NEW mid, DOMAIN mid = ThreadFields, NEW lists, NEW new, new = Scan(mid, lists)
    PROVE  /\ lists["push"] # << >> => Attentive(new)
           /\ lists["pop"] # << >> => Attentive(new) \/ InFront(new)
           /\ new.pc \notin CellSteps /\ ~Reserving(new)
<1>1. new.pc = IF lists["push"] # << >> THEN "front.push"
               ELSE IF lists["pop"] # << >> THEN "front.pop" ELSE "unlock"
    BY Fields DEF Scan, Clear
<1>2. QED
    BY <1>1 DEF Attentive, InFront, CellSteps, Reserving, Transferring

LEMMA ScanCares ==
    ASSUME NEW t \in Threads, OnlyThread(t), NEW mid, DOMAIN mid = ThreadFields,
           thread'[t] = Scan(mid, pending'), FailDuty(t), lifecycle' = lifecycle
    PROVE  Cares(t)
<1>1. /\ pending'["push"] # << >> => Attentive(thread'[t])
      /\ pending'["pop"] # << >> => Attentive(thread'[t]) \/ InFront(thread'[t])
      /\ thread'[t].pc \notin CellSteps /\ ~Reserving(thread'[t])
    BY ScanServes
<1>2. RoomDuty(t)
    BY <1>1, AllDuties DEF RoomDuty, RoomOwed
<1>3. ItemDuty(t) /\ EndDuty(t)
    BY <1>1 DEF ItemDuty, EndDuty, ItemOwed, EndOwed, ServesPop, Sweeps, Attentive, InFront, Transferring
<1>4. QED
    BY <1>1, <1>2, <1>3 DEF Cares, Duties, Manners

LEMMA NobodyFailed ==
    ASSUME NEW t, thread[t].pc # "fail", lifecycle' = lifecycle,
           \A side \in Sides : pending'[side] # << >> => pending[side] # << >> \/ ~Ended(side)
    PROVE  FailDuty(t)
BY DEF FailDuty, Hopeless, Ended, Fails

LEMMA LockCares ==
    ASSUME QueueInv, NEW t \in Threads, Lock(t) PROVE Cares(t)
<1> DEFINE th == thread[t]
           new == thread'[t]
<1>1. /\ th.pc = "lock" /\ OnlyThread(t) /\ th.goal \in {"start", "service", "close", "abort", "cancel"}
      /\ UNCHANGED <<lifecycle, active, pending, storageVars>>
      /\ new = IF th.goal = "service" THEN Scan(th, pending)
               ELSE [th EXCEPT !.pc = Entrance[th.goal]]
    BY Known DEF Lock, At, OnlyThread, waiters, Shape
<1>2. CASE th.goal = "service"
    <2>1. FailDuty(t)
        BY <1>1, NobodyFailed
    <2>2. thread'[t] = Scan(th, pending')
        BY <1>1, <1>2
    <2>3. QED
        BY <1>1, <2>1, <2>2, Known, ScanCares
<1>3. CASE th.goal = "start"
    <2>1. new.pc = "admit"
        BY <1>1, <1>3, Known, Fields DEF Entrance
    <2>2. QED
        BY <1>1, <2>1, AttentiveCares DEF Attentive, CellSteps, Reserving, Transferring
<1>4. CASE th.goal \in {"close", "abort", "cancel"}
    <2>1. new.pc \in {"close", "abort", "cancel"}
        BY <1>1, <1>4, Known, Fields DEF Entrance
    <2>2. ~ServesPush(th) /\ ~ServesPop(th) /\ ~Sweeps(th)
        BY <1>1, <1>4 DEF ServesPush, ServesPop, Sweeps, Attentive, InFront, Transferring
    <2>3. Duties(t)
        BY <1>1, <2>2, ServicesPassed, EndOwedKept
    <2>4. new.pc \notin CellSteps /\ ~Reserving(new)
        BY <2>1 DEF CellSteps, Reserving, Transferring
    <2>5. QED
        BY <1>1, <2>3, <2>4 DEF Cares, Manners
<1>5. QED
    BY <1>1, <1>2, <1>3, <1>4

LEMMA AdmitStoppedCares ==
    ASSUME QueueInv, NEW t \in Threads, AdmitStopped(t) PROVE Cares(t)
<1> DEFINE mid == [thread[t] EXCEPT !.ok = FALSE]
<1>1. /\ thread[t].pc = "admit" /\ OnlyThread(t) /\ UNCHANGED <<lifecycle, pending>>
      /\ thread'[t] = Scan(mid, pending')
    BY Known DEF AdmitStopped, At, OnlyThread, queueVars, waiters
<1>2. DOMAIN mid = ThreadFields
    BY Known, Fields
<1> HIDE DEF mid
<1>3. FailDuty(t)
    BY <1>1, NobodyFailed
<1>4. QED
    BY <1>1, <1>2, <1>3, ScanCares

LEMMA SettledCares ==
    ASSUME QueueInv, NEW t \in Threads, thread[t].pc \in {"admit", "settle"}, NEW result,
           Settled(t, Call(t), result), UNCHANGED <<lifecycle, pending>>
    PROVE  Cares(t)
<1> DEFINE mid == [thread[t] EXCEPT !.done = Append(thread[t].done, Call(t))]
<1>1. OnlyThread(t) /\ thread'[t] = Scan(mid, pending')
    BY Known DEF Settled, OnlyThread
<1>2. DOMAIN mid = ThreadFields
    BY Known, Fields
<1> HIDE DEF mid
<1>3. FailDuty(t)
    BY <1>1, NobodyFailed
<1>4. QED
    BY <1>1, <1>2, <1>3, ScanCares

LEMMA AdmitReservedCares ==
    ASSUME QueueInv, Final, NEW t \in Threads, AdmitReserved(t) PROVE Cares(t)
<1> DEFINE th == thread[t]
           new == thread'[t]
           x == Call(t)
<1>1. /\ th.pc = "admit" /\ OnlyThread(t) /\ Refusal(t, x) = None /\ th.call = x
      /\ UNCHANGED <<lifecycle, active, pending, storageVars>>
    BY Known DEF AdmitReserved, At, OnlyThread, Call, Goto, Transfer
<1>2. /\ new.call = x
      /\ \/ new.pc = "park"
         \/ new.pc \in {"push", "pop"} /\ new.from = "reserved"
    <2>1. CASE HasOlder(x)
        <3>1. thread' = [thread EXCEPT ![t].pc = "park"]
            BY <2>1 DEF AdmitReserved, Goto
        <3>2. QED
            BY <1>1, <3>1, Known, Fields
    <2>2. CASE ~HasOlder(x)
        <3>1. thread' = [thread EXCEPT ![t].pc = SideOf(x), ![t].job = x, ![t].from = "reserved"]
            BY <2>2 DEF AdmitReserved, Transfer
        <3>2. QED
            BY <1>1, <3>1, Known, Fields DEF SideOf
    <2>3. QED
        BY <2>1, <2>2
<1>3. Attentive(new) /\ new.pc \notin CellSteps
    BY <1>2 DEF Attentive, Transferring, CellSteps
<1>4. ~Ended(SideOf(Call(t)))'
    <2>1. Lifecycle(t) = lifecycle
        BY SeenAtOnce
    <2>2. lifecycle # "Aborted" /\ (IsPush(x) => lifecycle # "Closing")
        BY <1>1, <2>1, NamesAssumption DEF Refusal
    <2>3. ~Ended(SideOf(x))
        BY <2>2 DEF Ended, SideOf
    <2>4. QED
        BY <1>1, <1>2, <2>3 DEF Ended, Call
<1>5. FailDuty(t)
    BY <1>1, NobodyFailed
<1>6. QED
    BY <1>1, <1>3, <1>4, <1>5, AllDuties DEF Cares, Duties, Manners

LEMMA ParkCares ==
    ASSUME QueueInv, ReservedOpen, NEW t \in Threads, Park(t) PROVE Cares(t)
<1> DEFINE x == Call(t)
<1>1. /\ thread[t].pc = "park" /\ OnlyThread(t) /\ lifecycle' = lifecycle
      /\ thread'[t] = Scan(thread[t], pending')
      /\ pending' = [pending EXCEPT ![SideOf(x)] = Append(@, x)]
    BY Known DEF Park, At, OnlyThread
<1>2. ~Ended(SideOf(x))
    BY <1>1 DEF ReservedOpen, Reserving
<1>3. \A side \in Sides : side # SideOf(x) => pending'[side] = pending[side]
    BY <1>1, Known DEF BaseInv, Types
<1>4. FailDuty(t)
    BY <1>1, <1>2, <1>3, NobodyFailed
<1>5. QED
    BY <1>1, <1>4, Known, ScanCares

LEMMA FrontCares ==
    ASSUME QueueInv, NEW t \in Threads, NEW side \in Sides, Front(t, side) PROVE Cares(t)
<1> DEFINE th == thread[t]
           new == thread'[t]
           x == Head(pending[side])
<1>1. /\ th.pc = (IF side = "push" THEN "front.push" ELSE "front.pop") /\ OnlyThread(t)
      /\ UNCHANGED <<lifecycle, active, pending, storageVars>>
    BY Known DEF Front, At, OnlyThread, queueVars, waiters, Transfer
<1>2. SideOf(x) = side
    <2>1. pending[side] # << >>
        BY <1>1 DEF QueueInv, BaseInv, Heads, At, Sides
    <2>2. QED
        BY <2>1, PendingTypes DEF QueueInv
<1>3. /\ new.job = x /\ new.progress = th.progress
      /\ \/ new.pc = side /\ new.from = "front"
         \/ new.pc = "drop"
    <2>1. CASE Refusal(t, x) = None
        <3>1. thread' = [thread EXCEPT ![t].pc = SideOf(x), ![t].job = x, ![t].from = "front"]
            BY <2>1 DEF Front, Transfer
        <3>2. QED
            BY <1>2, <3>1, Known, Fields
    <2>2. CASE Refusal(t, x) # None
        <3>1. thread' = [thread EXCEPT ![t].pc = "drop", ![t].job = x]
            BY <2>2 DEF Front
        <3>2. QED
            BY <3>1, Known, Fields
    <2>3. QED
        BY <2>1, <2>2
<1>4. new.pc \notin CellSteps /\ ~Reserving(new)
    BY <1>3 DEF CellSteps, Reserving, Transferring, Sides
<1>5. CASE Attentive(new)
    BY <1>1, <1>4, <1>5, AttentiveCares
<1>6. CASE ~Attentive(new)
    <2>1. new.pc = "pop" /\ new.from = "front" /\ side = "pop"
        BY <1>2, <1>3, <1>6 DEF Attentive, Transferring, Sides, SideOf
    <2>2. InFront(new) /\ (ServesPush(th) => new.progress)
        BY <1>1, <1>3, <2>1 DEF InFront, Transferring, ServesPush, Attentive
    <2>3. ServesPush(th) => ServesPush(thread[t])'
        BY <2>2 DEF ServesPush, InFront, Transferring
    <2>4. ServesPop(thread[t])' /\ Sweeps(thread[t])'
        BY <2>2 DEF ServesPop, Sweeps, InFront, Transferring
    <2>5. Duties(t)
        BY <1>1, <2>3, <2>4, ServicesPassed, EndOwedKept
    <2>6. QED
        BY <1>1, <1>4, <2>5 DEF Cares, Manners
<1>7. QED
    BY <1>5, <1>6

LEMMA DropCares ==
    ASSUME QueueInv, NEW t \in Threads, Drop(t) PROVE Cares(t)
<1> DEFINE th == thread[t]
           new == thread'[t]
           x == thread[t].job
           mid == [th EXCEPT !.progress = TRUE, !.done = Append(thread[t].done, x)]
<1>1. /\ th.pc = "drop" /\ OnlyThread(t) /\ lifecycle' = lifecycle
      /\ new = AfterFront(mid, SideOf(x), pending')
      /\ pending' = [pending EXCEPT ![SideOf(x)] = Tail(@)]
    BY Known DEF Drop, At, OnlyThread
<1>2. DOMAIN mid = ThreadFields /\ mid.progress = TRUE
    BY Known, Fields
<1> HIDE DEF mid
<1>3. FailDuty(t)
    <2>1. pending[SideOf(x)] # << >>
        BY <1>1 DEF QueueInv, BaseInv, Heads, Fronting
    <2>2. \A side \in Sides : side # SideOf(x) => pending'[side] = pending[side]
        BY <1>1, Known DEF BaseInv, Types
    <2>3. QED
        BY <1>1, <2>1, <2>2, NobodyFailed
<1>4. CASE SideOf(x) = "push" /\ pending'["pop"] # << >>
    <2>1. new.pc = "front.pop" /\ new.progress
        BY <1>1, <1>2, <1>4, Fields DEF AfterFront, Clear
    <2>2. ServesPush(thread[t])' /\ ServesPop(thread[t])' /\ Sweeps(thread[t])'
        BY <2>1 DEF ServesPush, ServesPop, Sweeps, InFront
    <2>3. Duties(t)
        BY <1>3, <2>2 DEF Duties, RoomDuty, ItemDuty, EndDuty
    <2>4. new.pc \notin CellSteps /\ ~Reserving(new)
        BY <2>1 DEF CellSteps, Reserving, Transferring
    <2>5. QED
        BY <1>1, <2>3, <2>4 DEF Cares, Manners
<1>5. CASE ~(SideOf(x) = "push" /\ pending'["pop"] # << >>)
    <2>1. new = Scan(mid, pending')
        BY <1>1, <1>2, <1>5 DEF AfterFront
    <2>2. QED
        BY <1>1, <1>2, <1>3, <2>1, ScanCares
<1>6. QED
    BY <1>4, <1>5

LEMMA SweepCares ==
    ASSUME QueueInv, Final, NEW t \in Threads, Sweep(t) PROVE Cares(t)
<1> DEFINE th == thread[t]
           new == thread'[t]
<1>1. /\ th.pc = "sweep" /\ OnlyThread(t) /\ UNCHANGED <<lifecycle, active, pending, storageVars>>
      /\ new.pc = IF ClosedAndEmpty(t) THEN "sweep.all" ELSE "unlock"
    BY Known, Fields DEF Sweep, At, OnlyThread, queueVars, waiters, Goto
<1>2. ~ServesPush(th) /\ ~ServesPop(th)
    BY <1>1 DEF ServesPush, ServesPop, Attentive, InFront, Transferring
<1>3. EndOwed => ClosedAndEmpty(t)
    BY SeenAtOnce DEF EndOwed
<1>4. EndOwed' => Sweeps(thread[t])'
    BY <1>1, <1>3, EndOwedKept DEF Sweeps
<1>5. Duties(t)
    BY <1>1, <1>2, <1>4, ServicesPassed, EndOwedKept
<1>6. new.pc \notin CellSteps /\ ~Reserving(new)
    BY <1>1 DEF CellSteps, Reserving, Transferring
<1>7. QED
    BY <1>1, <1>5, <1>6 DEF Cares, Manners

LEMMA DrainedLists ==
    ASSUME QueueInv, NEW t \in Threads, NEW sides \in SUBSET Sides, NEW result, DrainAll(t, sides, result)
    PROVE  /\ OnlyThread(t) /\ UNCHANGED <<lifecycle, active, storageVars>>
           /\ \A side \in Sides : pending'[side] = IF side \in sides THEN << >> ELSE pending[side]
           /\ "pop" \in sides => thread'[t].pc = "unlock"
           /\ "pop" \notin sides =>
                \E mid : DOMAIN mid = ThreadFields /\ thread'[t] = Scan(mid, pending')
<1> DEFINE drained(side) == IF side \in sides THEN pending[side] ELSE << >>
           all == drained("push") \o drained("pop")
           listed == thread[t].done \o all
           mid == [thread[t] EXCEPT !.done = listed]
           ends == [thread[t] EXCEPT !.done = listed, !.pc = "unlock"]
<1>1. /\ UNCHANGED <<lifecycle, active, storageVars>>
      /\ pending' = [side \in {"push", "pop"} |-> IF side \in sides THEN << >> ELSE pending[side]]
      /\ thread' = [thread EXCEPT ![t] = IF "pop" \in sides THEN ends ELSE Scan(mid, pending')]
    BY DEF DrainAll
<1>2. DOMAIN mid = ThreadFields /\ ends.pc = "unlock"
    BY Known, Fields
<1> HIDE DEF mid, ends
<1>3. OnlyThread(t) /\ thread'[t] = IF "pop" \in sides THEN ends ELSE Scan(mid, pending')
    BY <1>1, Known DEF OnlyThread
<1>4. QED
    BY <1>1, <1>2, <1>3 DEF Sides

LEMMA StopConsumersCares ==
    ASSUME QueueInv, NEW t \in Threads, StopConsumers(t) PROVE Cares(t)
<1>1. thread[t].pc = "sweep.all" /\ DrainAll(t, {"pop"}, "Stopped")
    BY DEF StopConsumers, At
<1>2. /\ OnlyThread(t) /\ UNCHANGED <<lifecycle, active, storageVars>> /\ thread'[t].pc = "unlock"
      /\ pending'["push"] = pending["push"] /\ pending'["pop"] = << >>
    BY <1>1, DrainedLists DEF Sides
<1>3. RoomDuty(t)
    <2>1. RoomOwed' => RoomOwed
        BY <1>2 DEF RoomOwed, RoomFor, Claimed, Pushed, storageVars
    <2>2. ~ServesPush(thread[t])
        BY <1>1 DEF ServesPush, Attentive, InFront, Transferring
    <2>3. QED
        BY <2>1, <2>2 DEF RoomDuty
<1>4. ItemDuty(t) /\ EndDuty(t)
    BY <1>2 DEF ItemDuty, EndDuty, ItemOwed, EndOwed
<1>5. FailDuty(t)
    BY <1>1, <1>2, NobodyFailed DEF Sides
<1>6. thread'[t].pc \notin CellSteps /\ ~Reserving(thread'[t])
    BY <1>2 DEF CellSteps, Reserving, Transferring
<1>7. QED
    BY <1>2, <1>3, <1>4, <1>5, <1>6 DEF Cares, Duties, Manners

LEMMA FailPendingCares ==
    ASSUME QueueInv, NEW t \in Threads, FailPending(t) PROVE Cares(t)
<1>1. thread[t].pc = "fail"
    BY DEF FailPending, At
<1>2. CASE thread[t].goal = "close"
    <2>1. DrainAll(t, {"push"}, "Closed")
        BY <1>2 DEF FailPending
    <2>2. /\ OnlyThread(t) /\ lifecycle' = lifecycle
          /\ pending'["push"] = << >> /\ pending'["pop"] = pending["pop"]
          /\ \E mid : DOMAIN mid = ThreadFields /\ thread'[t] = Scan(mid, pending')
        BY <2>1, DrainedLists DEF Sides
    <2>3. FailDuty(t)
        BY <1>2, <2>2 DEF FailDuty, Hopeless, Ended, Fails, Sides
    <2>4. QED
        BY <2>2, <2>3, ScanCares
<1>3. CASE thread[t].goal # "close"
    <2>1. DrainAll(t, {"push", "pop"}, "Aborted")
        BY <1>3 DEF FailPending
    <2>2. /\ OnlyThread(t) /\ lifecycle' = lifecycle /\ thread'[t].pc = "unlock"
          /\ pending'["push"] = << >> /\ pending'["pop"] = << >>
        BY <2>1, DrainedLists DEF Sides
    <2>3. Duties(t)
        BY <2>2 DEF Duties, RoomDuty, ItemDuty, EndDuty, FailDuty, RoomOwed, ItemOwed, EndOwed, Hopeless, Sides
    <2>4. thread'[t].pc \notin CellSteps /\ ~Reserving(thread'[t])
        BY <2>2 DEF CellSteps, Reserving, Transferring
    <2>5. QED
        BY <2>2, <2>3, <2>4 DEF Cares, Manners
<1>4. QED
    BY <1>2, <1>3

LEMMA SetLifecycleCares ==
    ASSUME QueueInv, ~StoreBuffers, NEW t \in Threads, SetLifecycle(t) PROVE Cares(t)
<1> DEFINE th == thread[t]
           new == thread'[t]
           target == IF th.goal = "close" THEN "Closing" ELSE "Aborted"
           returns == IF th.goal = "close" THEN lifecycle # "Open" ELSE lifecycle = "Aborted"
<1>1. /\ th.pc \in {"close", "abort"} /\ OnlyThread(t) /\ th.goal \in {"close", "abort"}
      /\ UNCHANGED <<active, pending, storageVars>>
      /\ new.goal = th.goal
      /\ \/ new.pc = "unlock" /\ lifecycle' = lifecycle
         \/ new.pc = "fail" /\ ~returns /\ lifecycle' = target
    BY Known, Fields DEF SetLifecycle, At, OnlyThread, Goto, Shape, waiters
<1>2. /\ Holding(th) /\ th.pc \in Unserving /\ th.pc # "fail"
      /\ new.pc \notin CellSteps /\ ~Reserving(new)
    BY <1>1 DEF Holding, Locked, Unserving, CellSteps, Reserving, Transferring
<1>3. CASE new.pc = "unlock" /\ lifecycle' = lifecycle
    BY <1>1, <1>2, <1>3, UnservingCares
<1>4. CASE new.pc = "fail" /\ ~returns /\ lifecycle' = target
    <2>1. ~ServesPop(th)
        BY <1>2, NoDuty
    <2>2. RoomDuty(t)
        BY <1>4 DEF RoomDuty, RoomOwed
    <2>3. lifecycle # "Aborted"
        BY <1>4
    <2>4. ItemOwed' => ItemOwed
        BY <1>1, <2>3 DEF ItemOwed, HasItem, storageVars
    <2>5. ItemDuty(t)
        BY <2>1, <2>4 DEF ItemDuty
    <2>6. EndOwed' => Sweeps(thread[t])'
        BY <1>1, <1>4 DEF EndOwed, Sweeps
    <2>7. EndDuty(t)
        BY <2>6 DEF EndDuty
    <2>8. FailDuty(t)
        BY <1>1, <1>4 DEF FailDuty, Hopeless, Ended, Fails
    <2>9. QED
        BY <1>1, <1>2, <2>2, <2>5, <2>7, <2>8 DEF Cares, Duties, Manners
<1>5. QED
    BY <1>1, <1>3, <1>4

(* A push that may be cancelled is not larger than any other: those behind *)
(* it have not been waiting for room that it did not leave them.           *)
CancelsSmall == \A o \in Stoppable \cap PushOps, q \in PushOps : Size[o] <= Size[q]

LEMMA RingTypes ==
    ASSUME QueueInv
    PROVE  /\ log \in Seq(Values) /\ Claimed \in Nat /\ taken \in Nat /\ taken <= Claimed
           /\ ready \subseteq 0 .. Claimed - 1 /\ freed \subseteq ready
           /\ topology \in Topologies /\ \A x \in PushOps : Size[x] \in Nat
<1>1. log \in Seq(Values) /\ taken \in 0 .. Claimed /\ ready \subseteq 0 .. Claimed - 1 /\ freed \subseteq ready
    BY DEF QueueInv, ValueInv, IInv, StorageTypeOK
<1>2. Claimed \in Nat
    BY <1>1, LenProperties DEF Claimed
<1>3. QED
    BY <1>1, <1>2, QueueAssumption DEF QueueInv, ValueInv, DataTypes

LEMMA SmallerFits ==
    ASSUME QueueInv, GivenInOrder, NEW a \in PushOps, NEW b \in PushOps, Pushed(a) = 0, Pushed(b) = 0,
           Size[a] <= Size[b], RoomFor(b)
    PROVE  RoomFor(a)
<1>1. SizeOf(a) = Size[a] /\ SizeOf(b) = Size[b]
    BY NamesAssumption DEF SizeOf, Operations
<1>2. Claimed \in Nat /\ taken \in Nat /\ Size[a] \in Nat /\ Size[b] \in Nat /\ Capacity \in Nat
    BY RingTypes, CapacityAssumption
<1>3. CASE topology # "Spsc"
    <2>1. Size[a] = 1 /\ Size[b] = 1
        BY <1>3, RingTypes, TopologyAssumption
    <2>2. QED
        BY <1>1, <2>1 DEF RoomFor
<1>4. CASE topology = "Spsc"
    <2>1. freed = 0 .. taken - 1
        BY <1>4 DEF GivenInOrder
    <2>2. QED
        BY <1>1, <1>2, <2>1, SMTT(30) DEF RoomFor
<1>5. QED
    BY <1>3, <1>4

LEMMA HeadWithout ==
    ASSUME NEW S, NEW s \in Seq(S), NEW x, ListedIn(s, x), Injective(s), Without(s, x) # << >>
    PROVE  \/ Head(Without(s, x)) = Head(s)
           \/ Head(s) = x /\ ListedIn(s, Head(Without(s, x)))
<1> DEFINE w == Without(s, x)
           at == CHOOSE i \in 1 .. Len(s) : s[i] = x
<1>1. at \in 1 .. Len(s) /\ s[at] = x /\ Len(s) \in Nat
    BY LenProperties DEF ListedIn
<1>2. w = [i \in 1 .. Len(s) - 1 |-> IF i < at THEN s[i] ELSE s[i + 1]]
    BY DEF Without
<1>3. w \in Seq(S) /\ Len(w) = Len(s) - 1 /\ \A y : ListedIn(w, y) => ListedIn(s, y)
    BY ListedWithout
<1> HIDE DEF w, at
<1>4. Len(w) \in Nat \ {0}
    BY <1>3, EmptySeq DEF w
<1>5. Head(w) = w[1] /\ Head(s) = s[1] /\ 1 \in 1 .. Len(s) - 1
    BY <1>1, <1>3, <1>4
<1>6. ListedIn(w, Head(w))
    BY <1>4, <1>5 DEF ListedIn
<1>7. CASE at = 1
    BY <1>1, <1>3, <1>5, <1>6, <1>7 DEF w
<1>8. CASE at # 1
    BY <1>1, <1>2, <1>5, <1>8 DEF w
<1>9. QED
    BY <1>7, <1>8

LEMMA CancelCares ==
    ASSUME QueueInv, GivenInOrder, CancelsSmall, NEW t \in Threads, CancelOperation(t) PROVE Cares(t)
<1> DEFINE th == thread[t]
           new == thread'[t]
           x == Call(t)
           side == SideOf(x)
<1>1. /\ th.pc = "cancel" /\ OnlyThread(t) /\ x \in Stoppable /\ x \in Operations
      /\ UNCHANGED <<lifecycle, active, storageVars>> /\ side \in Sides
    BY Known, Names DEF CancelOperation, At, OnlyThread, Shape, Call, Goto, SideOf, Sides
<1>2. new.pc \in {"unlock", "mark"}
    BY Known, Fields DEF CancelOperation, Goto
<1>3. new.pc \notin CellSteps /\ ~Reserving(new) /\ th.pc \in Unserving
    BY <1>1, <1>2 DEF CellSteps, Reserving, Transferring, Unserving
<1>4. CASE ~Cancellable(x)
    BY <1>1, <1>3, <1>4, UnservingCares DEF CancelOperation, waiters
<1>5. CASE Cancellable(x)
    <2>1. /\ pending' = [pending EXCEPT ![side] = Without(pending[side], x)]
          /\ op' = [op EXCEPT ![x].phase = "Completing", ![x].result = "Stopped"]
        BY <1>5 DEF CancelOperation, MarkCompleting
    <2>2. /\ pending'[side] = Without(pending[side], x)
          /\ \A other \in Sides : other # side => pending'[other] = pending[other]
        BY <1>1, <2>1, Known DEF BaseInv, Types
    <2>3. ListedIn(pending[side], x) /\ Injective(pending[side]) /\ pending[side] \in Seq(Operations)
        BY <1>1, <1>5, PendingTypes DEF Cancellable, QueueInv, BaseInv, PendingPhase
    <2>4. pending[side] # << >>
        BY <2>3, ListedFew
    <2>5. FailDuty(t)
        BY <1>1, <2>2, <2>4, NobodyFailed
    <2>6. ItemDuty(t) /\ EndDuty(t)
        <3>1. pending'["pop"] # << >> => pending["pop"] # << >>
            BY <2>2, <2>4 DEF Sides
        <3>2. (ItemOwed' => ItemOwed) /\ (EndOwed' => EndOwed)
            BY <1>1, <3>1 DEF ItemOwed, EndOwed, HasItem, Claimed, storageVars
        <3>3. QED
            BY <1>3, <3>2, NoDuty DEF ItemDuty, EndDuty
    <2>7. RoomOwed' => RoomOwed
        <3>1. CASE side # "push"
            <4>1. pending'["push"] = pending["push"]
                BY <2>2, <3>1 DEF Sides
            <4>2. QED
                BY <1>1, <4>1 DEF RoomOwed, RoomFor, Claimed, Pushed, storageVars
        <3>2. CASE side = "push"
            <4> SUFFICES ASSUME RoomOwed' PROVE RoomOwed
                OBVIOUS
            <4> DEFINE b == Head(Without(pending["push"], x))
            <4>1. pending["push"] # << >> /\ lifecycle = "Open" /\ RoomFor(b)
                BY <1>1, <2>2, <2>4, <3>2 DEF RoomOwed, RoomFor, Claimed, Pushed, storageVars
            <4>2. Without(pending["push"], x) # << >>
                BY <2>2, <3>2 DEF RoomOwed
            <4>3. \/ b = Head(pending["push"])
                  \/ Head(pending["push"]) = x /\ ListedIn(pending["push"], b)
                BY <2>3, <3>2, <4>2, HeadWithout
            <4> HIDE DEF b
            <4>4. CASE Head(pending["push"]) = x /\ ListedIn(pending["push"], b)
                <5>1. x \in PushOps /\ b \in PushOps /\ op[b].phase = "Pending" /\ op[x].phase = "Pending"
                    <6>1. SideOf(b) = "push" /\ b \in Operations /\ op[b].phase = "Pending"
                        BY <4>4, PendingTypes DEF QueueInv, BaseInv, PendingPhase, Sides
                    <6>2. \A o \in Operations : SideOf(o) = "push" => o \in PushOps
                        BY NamesAssumption DEF SideOf, IsPush, Operations
                    <6>3. QED
                        BY <1>1, <1>5, <3>2, <6>1, <6>2 DEF Cancellable
                <5>2. Size[x] <= Size[b]
                    BY <1>1, <5>1 DEF CancelsSmall
                <5>3. Pushed(x) = 0 /\ Pushed(b) = 0
                    <6>1. ~Transferring(th) /\ ~Fronting(th) /\ Holding(th)
                        BY <1>1 DEF Transferring, Fronting, Holding, Locked
                    <6>2. \A o \in PushOps : op[o].phase = "Pending" => Pushed(o) = 0
                        BY <6>1, StillWaiting
                    <6>3. QED
                        BY <5>1, <6>2
                <5>4. QED
                    BY <4>1, <4>4, <5>1, <5>2, <5>3, SmallerFits DEF RoomOwed
            <4>5. QED
                BY <4>1, <4>3, <4>4 DEF RoomOwed
        <3>3. QED
            BY <3>1, <3>2
    <2>8. RoomDuty(t)
        BY <1>3, <2>7, NoDuty DEF RoomDuty
    <2>9. QED
        BY <1>1, <1>3, <2>5, <2>6, <2>8 DEF Cares, Duties, Manners
<1>6. QED
    BY <1>4, <1>5

LEMMA LockedStepCares ==
    ASSUME QueueInv, StrandInv, ~StoreBuffers, Final, CancelsSmall, NEW t \in Threads, LockedStep(t)
    PROVE  Cares(t)
<1>1. ASSUME AdmitStopped(t) \/ AdmitReserved(t) \/ Park(t) \/ Drop(t) \/ Sweep(t) \/ StopConsumers(t)
      PROVE  Cares(t)
    BY <1>1, AdmitStoppedCares, AdmitReservedCares, ParkCares, DropCares, SweepCares, StopConsumersCares
       DEF StrandInv
<1>2. ASSUME AdmitRefused(t) \/ Settle(t) PROVE Cares(t)
    <2>1. thread[t].pc \in {"admit", "settle"} /\ UNCHANGED <<lifecycle, pending>>
        BY <1>2 DEF AdmitRefused, Settle, At, queueVars, waiters
    <2>2. \E result : Settled(t, Call(t), result)
        BY <1>2 DEF AdmitRefused, Settle
    <2>3. QED
        BY <2>1, <2>2, SettledCares
<1>3. ASSUME NEW side \in {"push", "pop"}, Front(t, side) PROVE Cares(t)
    BY <1>3, FrontCares DEF Sides
<1>4. ASSUME SetLifecycle(t) \/ FailPending(t) \/ CancelOperation(t) \/ MarkStopRequested(t) \/ Unlock(t)
      PROVE  Cares(t)
    BY <1>4, SetLifecycleCares, FailPendingCares, CancelCares, MarkCares, UnlockCares DEF StrandInv
<1>5. QED
    BY <1>1, <1>2, <1>3, <1>4 DEF LockedStep

LEMMA SteadyStrand ==
    ASSUME QueueInv, StrandInv, ~StoreBuffers, Final, CancelsSmall, Next,
           ~\E t \in Threads : TransferStep(t) \/ Flush(t)
    PROVE  StrandInv'
<1>0. ASSUME NEW t \in Threads, SteadyStep(t), Cares(t) PROVE StrandInv'
    BY <1>0, CaresKeep DEF QueueInv, SteadyStep
<1>1. ASSUME NEW t \in Producers \cup Consumers, Begin(t) PROVE StrandInv'
    <2>1. SteadyStep(t)
        BY <1>1, TryPushSteady, TryPopSteady, StartSteady DEF Begin
    <2>2. t \in Threads /\ Cares(t)
        BY <1>1, BeginCares, Names
    <2>3. QED
        BY <1>0, <2>1, <2>2
<1>2. ASSUME NEW k \in Controllers, Close(k) \/ Abort(k) PROVE StrandInv'
    <2>1. SteadyStep(k)
        BY <1>2, EndQueueSteady DEF Close, Abort
    <2>2. k \in Threads /\ Cares(k)
        BY <1>2, EndQueueCares, Names
    <2>3. QED
        BY <1>0, <2>1, <2>2
<1>3. ASSUME NEW x \in Stoppable, RequestStop(x) PROVE StrandInv'
    <2>1. SteadyStep(x) /\ x \in Threads /\ Cares(x)
        BY <1>3, RequestStopSteady, RequestStopCares, Names
    <2>2. QED
        BY <1>0, <2>1
<1>4. ASSUME NEW t \in Threads, CallStep(t) \/ Lock(t) \/ LockedStep(t) \/ Complete(t)
      PROVE  StrandInv'
    <2>1. SteadyStep(t)
        BY <1>4, CallStepSteady, LockSteady, LockedStepSteady, CompleteSteady
    <2>2. Cares(t)
        BY <1>4, CallStepCares, LockCares, LockedStepCares, CompleteCares
    <2>3. QED
        BY <1>0, <2>1, <2>2
<1>5. QED
    BY <1>1, <1>2, <1>3, <1>4 DEF Next

-----------------------------------------------------------------------------
(* The steps of a transfer.                                                *)

(* Where a transfer leads, by the place it was tried from. *)
BackTo(th, result, new) ==
    LET success == result \notin {None, "TooLarge"} IN
    /\ new.call = th.call /\ new.goal = th.goal
    /\ th.from = "fast" /\ IsPush(th.job) => new.pc = "leave" /\ (new.ok <=> success)
    /\ th.from = "fast" /\ ~IsPush(th.job) => new.pc = IF success THEN "wake" ELSE "lock"
    /\ th.from = "poll" => new.pc = "polled" /\ (new.ok <=> success)
    /\ th.from = "reserved" => new.pc \in {"settle", "park"}
    /\ th.from = "front" /\ result # None => new.pc = "drop"
    /\ th.from = "front" /\ result = None => new = AfterFront(th, SideOf(th.job), pending)
LEMMA BackCases ==
    ASSUME BaseInv, NEW t \in Threads, Transferring(thread[t]), NEW result,
           NEW new, new = Back(thread[t], result)
    PROVE  BackTo(thread[t], result, new)
<1> USE DEF BackTo
<1> DEFINE th == thread[t]
<1>0. th.from \in {"fast", "poll", "reserved", "front"} /\ DOMAIN th = ThreadFields
    BY Shaped DEF Jobs
<1>1. CASE th.from = "fast" /\ IsPush(th.job)
    <2>1. PICK b \in BOOLEAN : /\ b <=> result \notin {None, "TooLarge"}
                               /\ new = [Clear(th) EXCEPT !.pc = "leave", !.ok = b]
        BY <1>1 DEF Back
    <2>2. new.pc = "leave" /\ new.ok = b /\ new.call = th.call /\ new.goal = th.goal
        BY <1>0, <2>1, Fields DEF Clear
    <2>3. QED
        BY <1>1, <2>1, <2>2
<1>2. CASE th.from = "fast" /\ ~IsPush(th.job)
    <2>1. new = [Clear(th) EXCEPT !.pc = IF result \notin {None, "TooLarge"} THEN "wake" ELSE "lock"]
        BY <1>2 DEF Back
    <2>2. QED
        BY <1>0, <1>2, <2>1, Fields DEF Clear
<1>3. CASE th.from = "poll"
    <2>1. PICK b \in BOOLEAN : /\ b <=> result \notin {None, "TooLarge"}
                               /\ new = [Clear(th) EXCEPT !.pc = "polled", !.ok = b]
        BY <1>3 DEF Back
    <2>2. new.pc = "polled" /\ new.ok = b /\ new.call = th.call /\ new.goal = th.goal
        BY <1>0, <2>1, Fields DEF Clear
    <2>3. QED
        BY <1>3, <2>1, <2>2
<1>4. CASE th.from = "reserved"
    <2>1. new = [th EXCEPT !.pc = IF result # None THEN "settle" ELSE "park"]
        BY <1>4 DEF Back
    <2>2. QED
        BY <1>0, <1>4, <2>1, Fields
<1>5. CASE th.from = "front" /\ result # None
    <2>1. new = [th EXCEPT !.pc = "drop"]
        BY <1>5 DEF Back
    <2>2. QED
        BY <1>0, <1>5, <2>1, Fields
<1>6. CASE th.from = "front" /\ result = None
    <2>1. new = AfterFront(th, SideOf(th.job), pending)
        BY <1>6 DEF Back
    <2>2. new.call = th.call /\ new.goal = th.goal
        BY <1>0, <2>1, AfterFrontOnward DEF Onward
    <2>3. QED
        BY <1>6, <2>1, <2>2
<1>7. QED
    BY <1>0, <1>1, <1>2, <1>3, <1>4, <1>5, <1>6

(* After a look at the front of a list that moved nothing. *)
LEMMA AfterFrontServes ==
    ASSUME NEW th, DOMAIN th = ThreadFields, NEW side, NEW lists, NEW new,
           new = AfterFront(th, side, lists)
    PROVE  /\ side = "push" /\ lists["pop"] # << >> =>
                new.pc = "front.pop" /\ new.progress = th.progress
           /\ ~(side = "push" /\ lists["pop"] # << >>) /\ th.progress => new = Scan(th, lists)
           /\ ~(side = "push" /\ lists["pop"] # << >>) /\ ~th.progress =>
                new.pc = IF lists["pop"] # << >> THEN "sweep" ELSE "unlock"
BY Fields DEF AfterFront, Clear

LEMMA NobodyInside ==
    ASSUME QueueInv, active = 0, NEW t \in Threads PROVE ~Entered(thread[t])
<1> DEFINE S == {v \in Threads : Entered(thread[v])}
<1>1. IsFiniteSet(S) /\ Cardinality(S) = 0
    BY FiniteAssumption, FS_Subset DEF QueueInv, GateInv, Insiders
<1>2. S = {}
    BY <1>1, FS_EmptySet
<1>3. QED
    BY <1>2
-----------------------------------------------------------------------------
(* A pop that takes a value, or gives a cell back, serves the pushes then. *)
PopsOn(th, new) ==
    /\ new.pc \in {"pop", "pop.free", "pop.advance"}
    /\ new.job = th.job /\ new.from = th.from /\ new.progress = th.progress

Yields(t) == PopElement(t) \/ PopTake(t) \/ PopFree(t) \/ PopRelease(t) \/ PopAdvance(t)

LEMMA MoveHeadYields ==
    ASSUME QueueInv, NEW t \in Threads, thread[t].pc \in {"pop", "pop.advance"}, HasItem, MoveHead(t)
    PROVE  /\ PopsOn(thread[t], thread'[t]) \/ thread'[t] = Back(thread[t], "Popped")
           /\ thread[t].job # None => op'[thread[t].job].moved # << >>
<1> DEFINE th == thread[t]
           new == thread'[t]
           e == log[taken + 1]
<1> PICK x : x = th.job
    OBVIOUS
<1>1. /\ \/ thread' = [thread EXCEPT ![t] = Back(th, "Popped")]
         \/ thread' = [thread EXCEPT ![t] = [th EXCEPT !.pc = "pop.free", !.position = taken]]
         \/ thread' = [thread EXCEPT ![t] = [th EXCEPT !.pc = "pop"]]
      /\ x # None => op' = [op EXCEPT ![x].moved = Append(@, e), ![x].result = "Popped"]
    BY Known DEF MoveHead
<1>2. e \in Elements
    BY HeadElement
<1> HIDE DEF e
<1>3. PopsOn(th, new) \/ new = Back(th, "Popped")
    <2>1. CASE thread' = [thread EXCEPT ![t] = Back(th, "Popped")]
        BY <2>1, Known
    <2>2. CASE \/ thread' = [thread EXCEPT ![t] = [th EXCEPT !.pc = "pop.free", !.position = taken]]
               \/ thread' = [thread EXCEPT ![t] = [th EXCEPT !.pc = "pop"]]
        BY <2>2, Known, Fields, ZenonT(40) DEF PopsOn
    <2>3. QED
        BY <1>1, <2>1, <2>2
<1>4. ASSUME x # None PROVE op'[x].moved # << >>
    <2>1. x \in Operations /\ op[x].moved \in Seq(Elements)
        BY <1>4, Popper DEF QueueInv, ValueInv, DataTypes
    <2>2. op'[x].moved = Append(op[x].moved, e)
        BY <1>1, <1>4, <2>1, Known, Fields
    <2>3. QED
        BY <1>2, <2>1, <2>2, AppendProperties
<1>5. QED
    BY <1>3, <1>4

LEMMA YieldsServe ==
    ASSUME QueueInv, FreeHolds, NEW t \in Threads, Yields(t)
    PROVE  /\ thread[t].pc \in {"pop", "pop.free", "pop.advance"}
           /\ PopsOn(thread[t], thread'[t]) \/ thread'[t] = Back(thread[t], "Popped")
           /\ ServesPush(thread[t])'
           /\ thread'[t].pc = "pop.free" /\ thread'[t].job # None => op'[thread'[t].job].moved # << >>
<1> DEFINE th == thread[t]
           new == thread'[t]
<1> PICK x : x = th.job
    OBVIOUS
<1>1. th.pc \in {"pop", "pop.free", "pop.advance"}
    BY DEF Yields, PopElement, PopTake, PopFree, PopRelease, PopAdvance, At
<1>2. x \in PopOps \cup {None} /\ Transferring(th) /\ BaseInv
    BY <1>1, Popper, Known
<1>3. /\ PopsOn(th, new) \/ new = Back(th, "Popped")
      /\ x # None /\ new.pc \in {"pop", "pop.free"} => op'[x].moved # << >>
      /\ PopsOn(th, new) /\ new.pc = "pop" => x # None
    <2>1. CASE PopElement(t) \/ PopTake(t) \/ PopAdvance(t)
        <3>1. th.pc \in {"pop", "pop.advance"} /\ HasItem /\ MoveHead(t)
            BY <2>1 DEF PopElement, PopTake, PopAdvance, Take, PopAtOnce, At
        <3>2. (PopsOn(th, new) \/ new = Back(th, "Popped")) /\ (x # None => op'[x].moved # << >>)
            BY <3>1, MoveHeadYields
        <3>3. ASSUME x = None, PopsOn(th, new) PROVE new.pc # "pop"
            <4>1. \/ thread' = [thread EXCEPT ![t] = Back(th, "Popped")]
                  \/ thread' = [thread EXCEPT ![t] = [th EXCEPT !.pc = "pop.free", !.position = taken]]
                BY <3>1, <3>3, Known DEF MoveHead
            <4>2. PICK new2 : new2 = new
                OBVIOUS
            <4>3. new2 = Back(th, "Popped") => ~Transferring(new2)
                BY <1>2, Known, BackOver
            <4>4. CASE thread' = [thread EXCEPT ![t] = Back(th, "Popped")]
                BY <4>2, <4>3, <4>4, Known DEF Transferring
            <4>5. CASE thread' = [thread EXCEPT ![t] = [th EXCEPT !.pc = "pop.free", !.position = taken]]
                BY <4>5, Known, Fields
            <4>6. QED
                BY <4>1, <4>4, <4>5
        <3>4. QED
            BY <3>2, <3>3
    <2>2. CASE PopRelease(t)
        <3>1. thread' = [thread EXCEPT ![t].pc = "pop.advance"]
            BY <2>2 DEF PopRelease, Goto
        <3>2. QED
            BY <3>1, Known, Fields DEF PopsOn
    <2>3. CASE PopFree(t)
        <3>1. /\ th.pc = "pop.free" /\ op' = op
              /\ \/ thread' = [thread EXCEPT ![t] = Back(th, "Popped")]
                 \/ thread' = [thread EXCEPT ![t] = [th EXCEPT !.pc = "pop"]] /\ x # None
            BY <2>3, Known DEF PopFree, At
        <3>2. x # None => op'[x].moved # << >>
            BY <3>1 DEF FreeHolds, At
        <3>3. CASE thread' = [thread EXCEPT ![t] = Back(th, "Popped")]
            <4>1. new = Back(th, "Popped")
                BY <3>3, Known
            <4>2. PICK back : back = new
                OBVIOUS
            <4>3. ~Transferring(back)
                BY <1>2, <4>1, <4>2, Known, BackOver
            <4>4. ~PopsOn(th, new)
                BY <4>2, <4>3 DEF PopsOn, Transferring
            <4>5. QED
                BY <3>2, <4>1, <4>4
        <3>4. CASE thread' = [thread EXCEPT ![t] = [th EXCEPT !.pc = "pop"]] /\ x # None
            BY <3>2, <3>4, Known, Fields DEF PopsOn
        <3>5. QED
            BY <3>1, <3>3, <3>4
    <2>4. QED
        BY <2>1, <2>2, <2>3 DEF Yields
<1>4. ServesPush(thread[t])'
    <2>1. CASE PopsOn(th, new)
        BY <1>2, <1>3, <2>1 DEF PopsOn, ServesPush
    <2>2. CASE new = Back(th, "Popped")
        <3>1. PICK back : back = new
            OBVIOUS
        <3>2. /\ th.from = "fast" => back.pc = "wake" /\ back.call = th.call
              /\ th.from = "poll" => back.pc = "polled" /\ back.ok
              /\ th.from = "reserved" => back.pc \in {"settle", "park"}
              /\ th.from = "front" => back.pc = "drop"
            <4>1. "Popped" \notin {None, "TooLarge"} /\ ~IsPush(x)
                BY <1>1, <1>2, NamesAssumption DEF IsPush, Calls, Operations
            <4>2. back = Back(th, "Popped")
                BY <2>2, <3>1
            <4>3. BackTo(th, "Popped", back)
                BY <1>2, <4>2, BackCases
            <4>4. QED
                BY <4>1, <4>3 DEF BackTo
        <3>3. th.from \in {"fast", "poll", "reserved", "front"} /\ (th.from = "fast" => th.call = x)
            BY <1>2, Known DEF Jobs
        <3>4. ~IsPush(x)
            BY <1>1, <1>2, NamesAssumption DEF IsPush, Calls, Operations
        <3>5. QED
            BY <3>1, <3>2, <3>3, <3>4 DEF ServesPush, Attentive
    <2>3. QED
        BY <1>3, <2>1, <2>2
<1>5. ASSUME new.pc = "pop.free" PROVE new.job = x
    <2>1. PICK back : back = new
        OBVIOUS
    <2>2. back = Back(th, "Popped") => ~Transferring(back)
        BY <1>2, <2>1, Known, BackOver
    <2>3. QED
        BY <1>3, <1>5, <2>1, <2>2 DEF Transferring, PopsOn
<1>6. QED
    BY <1>1, <1>3, <1>4, <1>5

LEMMA TransferGrows ==
    ASSUME QueueInv, NEW t \in Threads, TransferStep(t) PROVE TransfersGrow
<1>1. \A o \in PopOps : op[o].moved # << >> => op'[o].moved # << >>
    <2>1. CASE TakesNothing
        BY <2>1 DEF TakesNothing
    <2>2. CASE Takes
        <3>1. HasItem /\ \E h : TakesInto(h) \/ TakesHome(h)
            BY <2>2 DEF Takes
        <3>2. PICK e : e = log[taken + 1]
            OBVIOUS
        <3>3. e \in Elements /\ \A o \in PopOps : op[o].moved \in Seq(Elements)
            BY <3>1, <3>2, HeadElement DEF QueueInv, ValueInv, DataTypes, Operations
        <3>4. \A o \in PopOps : op'[o].moved = op[o].moved \/ op'[o].moved = Append(op[o].moved, e)
            BY <3>1, <3>2 DEF TakesInto, TakesHome
        <3>5. \A o \in PopOps : Append(op[o].moved, e) # << >>
            BY <3>3, AppendProperties
        <3>6. QED
            BY <3>4, <3>5
    <2>3. QED
        BY <2>1, <2>2, TransferTakes
<1>2. ASSUME NEW x \in Pushes, Pushed(x) # 0 PROVE Pushed(x)' # 0
    <2>1. CASE log' = log
        BY <1>2, <2>1 DEF Pushed
    <2>2. CASE log' # log
        <3> PICK y : y = thread[t].job
            OBVIOUS
        <3>1. Placing(thread[t]) /\ Appends(y)
            BY <2>2, TransferMoved DEF Moved
        <3>2. y \in Pushes
            BY <3>1, Pusher
        <3>3. Pushed(y)' = Pushed(y) + 1 /\ \A z \in Pushes \ {y} : Pushed(z)' = Pushed(z)
            BY <3>1, <3>2, AppendTogether DEF Appends
        <3>4. Pushed(y) \in Nat
            BY <3>2, PushedCounts
        <3>5. QED
            BY <1>2, <3>3, <3>4
    <2>3. QED
        BY <2>1, <2>2
<1>3. QED
    BY <1>1, <1>2 DEF TransfersGrow

(* What all the steps of a transfer leave alone. *)
LEMMA TransferLists ==
    ASSUME QueueInv, NEW t \in Threads, TransferStep(t)
    PROVE  /\ OnlyThread(t) /\ Transferring(thread[t]) /\ UNCHANGED <<topology, lifecycle, active, pending>>
           /\ FailDuty(t)
           /\ Reserving(thread'[t]) => Reserving(thread[t]) /\ thread'[t].call = thread[t].call
<1> DEFINE th == thread[t]
           new == thread'[t]
<1>1. OnlyThread(t) /\ Transferring(th) /\ UNCHANGED <<topology, lifecycle, active>>
    BY TransferMoved DEF Moved
<1>2. UNCHANGED pending
    BY DEF TransferStep, PushElement, PushClaim, PushPublish, PushUnplaced, PopElement, PopTake,
       PopFree, PopRelease, PopAdvance, PopNothing, queueVars, waiters
<1>3. FailDuty(t)
    BY <1>1, <1>2, NobodyFailed DEF Transferring
<1>4. Reserving(new) => Reserving(th) /\ new.call = th.call
    <2>1. CASE Continues(th, new)
        BY <1>1, <2>1 DEF Continues, Reserving, Transferring
    <2>2. ASSUME NEW result, Over(th, new, result) PROVE Reserving(new) => Reserving(th) /\ new.call = th.call
        <3>1. ASSUME NEW r, r = Back(th, result) PROVE Reserving(r) => Reserving(th) /\ r.call = th.call
            BY <1>1, <3>1, Known, BackOver, ZenonT(40)
        <3>2. QED
            BY <2>2, <3>1 DEF Over
    <2>3. QED
        BY <2>1, <2>2, TransferMoved DEF Moved
<1>5. QED
    BY <1>1, <1>2, <1>3, <1>4
-----------------------------------------------------------------------------
(* Under the lock a pop goes on to look at the lists.                      *)
LEMMA YieldsAttend ==
    ASSUME QueueInv, FreeHolds, NEW t \in Threads, Yields(t), thread[t].from \in {"reserved", "front"}
    PROVE  Attentive(thread'[t]) \/ InFront(thread'[t])
<1> DEFINE th == thread[t]
<1> PICK new : new = thread'[t]
    OBVIOUS
<1>1. /\ Transferring(th) /\ BaseInv
      /\ PopsOn(th, new) \/ new = Back(th, "Popped")
    BY YieldsServe, Known DEF Transferring
<1>2. CASE PopsOn(th, new)
    BY <1>2 DEF PopsOn, Attentive, InFront, Transferring
<1>3. CASE new = Back(th, "Popped")
    <2>1. "Popped" \notin {None, "TooLarge"} /\ th.from \in {"reserved", "front"}
        BY NamesAssumption
    <2>2. /\ th.from = "reserved" => new.pc \in {"settle", "park"}
          /\ th.from = "front" => new.pc = "drop"
        <3>1. ASSUME NEW r, r = Back(th, "Popped") PROVE BackTo(th, "Popped", r)
            BY <1>1, <3>1, BackCases
        <3>2. BackTo(th, "Popped", new)
            BY <1>3, <3>1
        <3>3. QED
            BY <2>1, <3>2 DEF BackTo
    <2>3. QED
        BY <2>1, <2>2 DEF Attentive
<1>4. QED
    BY <1>1, <1>2, <1>3

LEMMA UnlockedServices ==
    ASSUME NEW th, th.pc \in {"pop", "pop.free", "pop.advance"}, th.from \notin {"reserved", "front"}
    PROVE  ~ServesPop(th) /\ ~Sweeps(th)
BY DEF ServesPop, Sweeps, Attentive, InFront

(* Who takes the last item leaves the end of the stream to whom the item   *)
(* was for: with nobody inside, that is somebody who sweeps afterwards.    *)
LEMMA LastTaken ==
    ASSUME QueueInv, active = 0, NEW u \in Threads, ServesPop(thread[u]) PROVE Sweeps(thread[u])
<1> DEFINE th == thread[u]
<1>1. ~Entered(th)
    BY NobodyInside
<1>2. CASE th.pc = "push"
    <2>1. Transferring(th) /\ Placing(th) /\ IsPush(th.job) /\ th.from # "fast"
        BY <1>1, <1>2, Known DEF Jobs, Placing, Entered, Transferring
    <2>2. th.job # None
        BY <2>1, NamesAssumption DEF IsPush, Calls, Operations
    <2>3. th.from \in {"reserved", "front"}
        BY <2>1, <2>2, Known DEF Jobs
    <2>4. QED
        BY <2>1, <2>3 DEF Sweeps, Attentive
<1>3. CASE th.pc # "push"
    BY <1>1, <1>3 DEF ServesPop, Sweeps, Entered
<1>4. QED
    BY <1>2, <1>3

LEMMA YieldsItems ==
    ASSUME QueueInv, NEW t \in Threads, Yields(t)
    PROVE  /\ HasItem' => HasItem
           /\ Claimed' = Claimed /\ (taken' = taken \/ HasItem)
<1>1. CASE PopElement(t) \/ PopTake(t) \/ PopAdvance(t)
    BY <1>1 DEF PopElement, PopTake, PopAdvance, Take, PopAtOnce, HasItem, Claimed
<1>2. CASE PopFree(t) \/ PopRelease(t)
    BY <1>2 DEF PopFree, PopRelease, Free, HasItem, Claimed
<1>3. QED
    BY <1>1, <1>2 DEF Yields

LEMMA YieldsServed ==
    ASSUME QueueInv, StrandInv, NEW t \in Threads, Yields(t)
    PROVE  RoomServed' /\ ItemServed' /\ EndServed'
<1> DEFINE th == thread[t]
           new == thread'[t]
<1>0. TransferStep(t) /\ FreeHolds
    BY DEF Yields, TransferStep, StrandInv
<1>1. /\ OnlyThread(t) /\ UNCHANGED <<lifecycle, active, pending>> /\ TransfersGrow /\ BaseInv
      /\ th.pc \in {"pop", "pop.free", "pop.advance"}
    BY <1>0, TransferLists, TransferGrows, YieldsServe DEF QueueInv
<1>2. RoomServed'
    BY <1>0, YieldsServe DEF RoomServed
<1>3. CASE th.from \in {"reserved", "front"}
    <2>1. ServesPop(thread[t])' /\ Sweeps(thread[t])'
        BY <1>0, <1>3, YieldsAttend DEF ServesPop, Sweeps
    <2>2. QED
        BY <1>2, <2>1 DEF ItemServed, EndServed
<1>4. CASE th.from \notin {"reserved", "front"}
    <2>1. ~ServesPop(th) /\ ~Sweeps(th)
        BY <1>1, <1>4, UnlockedServices
    <2>2. ItemDuty(t)
        BY <1>1, <2>1, YieldsItems DEF ItemDuty, ItemOwed
    <2>3. ItemServed'
        BY <1>1, <2>2, DutiesServe
    <2>4. CASE taken' = taken
        <3>1. EndDuty(t)
            BY <1>1, <2>1, <2>4, YieldsItems DEF EndDuty, EndOwed
        <3>2. QED
            BY <1>1, <1>2, <2>3, <3>1, DutiesServe
    <2>5. CASE HasItem
        <3> SUFFICES ASSUME EndOwed' PROVE \E u \in Threads : Sweeps(thread[u])'
            BY <1>2, <2>3 DEF EndServed
        <3>1. ItemOwed /\ active = 0
            BY <1>1, <2>5 DEF EndOwed, ItemOwed
        <3>2. PICK u \in Threads : ServesPop(thread[u])
            BY <3>1 DEF StrandInv, ItemServed
        <3>3. Sweeps(thread[u]) /\ u # t
            BY <2>1, <3>1, <3>2, LastTaken
        <3>4. QED
            BY <1>1, <3>3, OthersServe
    <2>6. QED
        BY <2>4, <2>5, YieldsItems
<1>5. QED
    BY <1>3, <1>4

-----------------------------------------------------------------------------
(* A pop that finds nothing more.                                          *)
LEMMA NothingServed ==
    ASSUME QueueInv, StrandInv, NEW t \in Threads, PopNothing(t)
    PROVE  RoomServed' /\ ItemServed' /\ EndServed'
<1> DEFINE th == thread[t]
<1> PICK x : x = th.job
    OBVIOUS
<1> PICK new : new = thread'[t]
    OBVIOUS
<1> PICK result : result = IF x # None /\ op[x].moved # << >> THEN "Popped" ELSE None
    OBVIOUS
<1>1. /\ th.pc = "pop" /\ ~HasItem /\ Conclude(t, result) /\ UNCHANGED storageVars
    BY DEF PopNothing, At
<1>2. /\ OnlyThread(t) /\ Transferring(th) /\ UNCHANGED <<topology, lifecycle, active, pending>>
      /\ TransfersGrow /\ BaseInv /\ DOMAIN th = ThreadFields
    BY TransferLists, TransferGrows, Known DEF TransferStep
<1>3. BackTo(th, result, new)
    <2>1. new = Back(th, result)
        BY <1>1, Known DEF Conclude
    <2>2. QED
        BY <1>2, <2>1, BackCases
<1>4. /\ x \in PopOps \cup {None} /\ ~IsPush(x) /\ th.from \in {"fast", "poll", "reserved", "front"}
      /\ th.from = "fast" => th.call = x
    <2>1. x \in PopOps \cup {None}
        BY <1>1, Popper
    <2>2. QED
        BY <1>2, <2>1, Known, NamesAssumption DEF Jobs, IsPush, Calls, Operations
<1>5. ~ItemOwed'
    BY <1>1 DEF ItemOwed, HasItem, storageVars
<1>6. (EndOwed' => EndOwed) /\ (RoomOwed' => RoomOwed)
    BY <1>1, <1>2, SameOwed
<1>7. CASE Attentive(new)
    BY <1>2, <1>7, AllDuties, DutiesServe
<1>8. CASE ~Attentive(new)
    <2>1. RoomDuty(t) /\ EndDuty(t)
        <3>1. CASE result # None
            <4>1. result = "Popped" /\ result \notin {None, "TooLarge"}
                BY <3>1, NamesAssumption
            <4>2. /\ th.from = "fast" => new.pc = "wake" /\ new.call = th.call
                  /\ th.from = "poll" => new.pc = "polled" /\ new.ok
                  /\ th.from = "reserved" => new.pc \in {"settle", "park"}
                  /\ th.from = "front" => new.pc = "drop"
                BY <1>3, <1>4, <4>1 DEF BackTo
            <4>3. th.from \notin {"reserved", "front"}
                BY <1>8, <4>2 DEF Attentive
            <4>4. ServesPush(thread[t])'
                BY <1>4, <4>2, <4>3 DEF ServesPush
            <4>5. ~Sweeps(th)
                BY <1>1, <4>3, UnlockedServices
            <4>6. QED
                BY <1>6, <4>4, <4>5 DEF RoomDuty, EndDuty
        <3>2. CASE result = None
            <4>1. x = None \/ op[x].moved = << >>
                BY <3>2, NamesAssumption
            <4>2. CASE th.from \in {"fast", "poll"}
                <5>1. ~ServesPush(th)
                    BY <1>1, <1>4, <4>1, <4>2, NamesAssumption DEF ServesPush, Attentive, InFront, Calls, Operations
                <5>2. ~Sweeps(th)
                    BY <1>1, <4>2, UnlockedServices
                <5>3. QED
                    BY <1>6, <5>1, <5>2 DEF RoomDuty, EndDuty
            <4>3. CASE th.from = "reserved"
                BY <1>3, <1>8, <4>3 DEF BackTo, Attentive
            <4>4. CASE th.from = "front"
                <5>1. SideOf(x) = "pop" /\ pending["pop"] # << >>
                    BY <1>2, <1>4, <4>4 DEF QueueInv, BaseInv, Heads, Fronting, SideOf
                <5>2. new = AfterFront(th, "pop", pending)
                    BY <1>3, <3>2, <4>4, <5>1 DEF BackTo
                <5>3. CASE th.progress
                    <6>1. new = Scan(th, pending)
                        BY <1>2, <5>2, <5>3, AfterFrontServes
                    <6>2. InFront(new) /\ pending["push"] = << >>
                        BY <1>2, <1>8, <5>1, <6>1, ScanServes
                    <6>3. QED
                        BY <1>2, <6>2 DEF RoomDuty, EndDuty, RoomOwed, Sweeps
                <5>4. CASE ~th.progress
                    <6>1. new.pc = "sweep"
                        BY <1>2, <5>1, <5>2, <5>4, AfterFrontServes
                    <6>2. ~ServesPush(th)
                        BY <1>1, <1>4, <4>1, <4>4, <5>4, NamesAssumption
                           DEF ServesPush, Attentive, InFront, Calls, Operations
                    <6>3. QED
                        BY <1>6, <6>1, <6>2 DEF RoomDuty, EndDuty, Sweeps
                <5>5. QED
                    BY <5>3, <5>4
            <4>5. QED
                BY <1>4, <4>2, <4>3, <4>4
        <3>3. QED
            BY <3>1, <3>2
    <2>2. ItemDuty(t)
        BY <1>5 DEF ItemDuty
    <2>3. QED
        BY <1>2, <2>1, <2>2, DutiesServe
<1>9. QED
    BY <1>7, <1>8
-----------------------------------------------------------------------------
(* How a step of a push goes on.                                           *)
Offers(t) == PushElement(t) \/ PushClaim(t) \/ PushPublish(t) \/ PushUnplaced(t)

LEMMA OffersLead ==
    ASSUME QueueInv, NEW t \in Threads, Offers(t), NEW x, x = thread[t].job
    PROVE  /\ Placing(thread[t])
           /\ \/ Placing(thread'[t]) /\ thread'[t].job = x /\ thread'[t].from = thread[t].from
              \/ \E result : result # None /\ thread'[t] = Back(thread[t], result)
              \/ thread'[t] = Back(thread[t], None) /\ ~RoomFor(x) /\ UNCHANGED storageVars
<1> DEFINE th == thread[t]
           new == thread'[t]
<1>1. "Enqueued" # None /\ "TooLarge" # None /\ "Reject" # None /\ "Drop" # None
    BY NamesAssumption
<1>2. ASSUME NEW result, Conclude(t, result) PROVE new = Back(th, result)
    BY <1>2, Known DEF Conclude
<1>3. CASE PushElement(t)
    <2>1. th.pc = "push" /\ (Conclude(t, "Enqueued") \/ UNCHANGED thread)
        BY <1>3 DEF PushElement, At
    <2>2. QED
        BY <1>1, <1>2, <2>1 DEF Placing
<1>4. CASE PushClaim(t)
    <2>1. th.pc = "push" /\ thread' = [thread EXCEPT ![t] = [th EXCEPT !.pc = "publish", !.position = Claimed]]
        BY <1>4, Known DEF PushClaim, At
    <2>2. QED
        BY <2>1, Known, Fields DEF Placing
<1>5. CASE PushPublish(t)
    BY <1>1, <1>2, <1>5 DEF PushPublish, At, Placing
<1>6. CASE PushUnplaced(t)
    <2>1. /\ th.pc = "push" /\ UNCHANGED storageVars
          /\ \/ Conclude(t, "TooLarge") \/ Conclude(t, "Enqueued") \/ UNCHANGED thread
             \/ ~RoomFor(x) /\ Conclude(t, IF x \in TryValues \/ MaySuspend(x) THEN None ELSE Policy[x])
        BY <1>6 DEF PushUnplaced, At
    <2>2. Placing(th)
        BY <2>1 DEF Placing
    <2>3. CASE ~RoomFor(x) /\ Conclude(t, IF x \in TryValues \/ MaySuspend(x) THEN None ELSE Policy[x])
        <3>1. PICK result : result = IF x \in TryValues \/ MaySuspend(x) THEN None ELSE Policy[x]
            OBVIOUS
        <3>2. new = Back(th, result)
            BY <1>2, <2>3, <3>1
        <3>3. QED
            BY <2>1, <2>2, <2>3, <3>2
    <2>4. QED
        BY <1>1, <1>2, <2>1, <2>2, <2>3
<1>7. QED
    BY <1>3, <1>4, <1>5, <1>6 DEF Offers

(* Under the lock a push goes on to look at the lists, unless there was no *)
(* room for it.                                                            *)
LEMMA LockedOffers ==
    ASSUME QueueInv, StrandInv, NEW t \in Threads, Offers(t), thread[t].from \in {"reserved", "front"}
    PROVE  RoomServed' /\ ItemServed' /\ EndServed'
<1> DEFINE th == thread[t]
<1> PICK x : x = th.job
    OBVIOUS
<1> PICK new : new = thread'[t]
    OBVIOUS
<1>1. /\ OnlyThread(t) /\ Transferring(th) /\ UNCHANGED <<topology, lifecycle, active, pending>>
      /\ TransfersGrow /\ BaseInv /\ DOMAIN th = ThreadFields
    BY TransferLists, TransferGrows, Known DEF Offers, TransferStep
<1>2. Placing(th) /\ IsPush(x) /\ x # None
    <2>1. Placing(th)
        BY OffersLead
    <2>2. QED
        BY <2>1, Pusher, NamesAssumption
<1>3. CASE Attentive(new)
    BY <1>1, <1>3, AllDuties, DutiesServe
<1>4. CASE ~Attentive(new)
    <2>1. ~(Placing(new) /\ new.job = x /\ new.from = th.from)
        BY <1>2, <1>4 DEF Placing, Attentive, Transferring
    <2>0. ASSUME NEW result, new = Back(th, result) PROVE BackTo(th, result, new)
        BY <1>1, <2>0, BackCases
    <2>2. ASSUME NEW result, result # None, new = Back(th, result) PROVE FALSE
        BY <1>4, <2>0, <2>2 DEF BackTo, Attentive
    <2>3. new = Back(th, None) /\ ~RoomFor(x) /\ UNCHANGED storageVars
        BY <2>1, <2>2, OffersLead
    <2>4. th.from = "front" /\ new = AfterFront(th, SideOf(x), pending)
        BY <1>4, <2>0, <2>3 DEF BackTo, Attentive
    <2>5. SideOf(x) = "push" /\ pending["push"] # << >> /\ Head(pending["push"]) = x
        BY <1>1, <1>2, <2>4 DEF QueueInv, BaseInv, Heads, Fronting, SideOf
    <2>6. ~RoomOwed'
        BY <1>1, <2>3, <2>5, SameOwed DEF RoomOwed
    <2>7. CASE pending["pop"] # << >>
        <3>1. new.pc = "front.pop"
            BY <1>1, <2>4, <2>5, <2>7, AfterFrontServes
        <3>2. ServesPop(thread[t])' /\ Sweeps(thread[t])'
            BY <3>1 DEF ServesPop, Sweeps, InFront
        <3>3. QED
            BY <2>6, <3>2 DEF RoomServed, ItemServed, EndServed
    <2>8. CASE pending["pop"] = << >>
        BY <1>1, <2>6, <2>8 DEF RoomServed, ItemServed, EndServed, RoomOwed, ItemOwed, EndOwed
    <2>9. QED
        BY <2>7, <2>8
<1>5. QED
    BY <1>3, <1>4

-----------------------------------------------------------------------------
(* Without the lock a push is inside, and wakes the pops when it leaves.   *)
LEMMA FastPushes ==
    ASSUME QueueInv, NEW t \in Threads, Offers(t), thread[t].from \notin {"reserved", "front"},
           NEW x, x = thread[t].job
    PROVE  /\ Transferring(thread[t]) /\ thread[t].from = "fast" /\ Entered(thread[t]) /\ IsPush(x)
           /\ ~ServesPush(thread[t]) /\ ~Sweeps(thread[t])
           /\ ServesPop(thread[t]) => thread[t].pc = "push" /\ Pushed(x) # 0
<1> DEFINE th == thread[t]
<1>1. Placing(th) /\ Transferring(th) /\ IsPush(x) /\ x # None /\ x \notin PopOps
    BY OffersLead, Pusher, NamesAssumption
<1>2. th.from = "fast"
    BY <1>1, Known DEF Jobs
<1>3. QED
    BY <1>1, <1>2 DEF Entered, ServesPush, Sweeps, ServesPop, Attentive, InFront, Placing

LEMMA HeadPending ==
    ASSUME BaseInv, NEW side \in Sides, pending[side] # << >>
    PROVE  /\ Head(pending[side]) \in Operations /\ op[Head(pending[side])].phase = "Pending"
           /\ side = "push" => Head(pending[side]) \in PushOps
<1> DEFINE h == Head(pending[side])
<1>1. h \in Operations /\ ListedIn(pending[side], h) /\ SideOf(h) = side
    BY PendingTypes, ListedTail
<1>2. op[h].phase = "Pending"
    BY <1>1 DEF BaseInv, PendingPhase
<1>3. side = "push" => h \in PushOps
    BY <1>1, NamesAssumption DEF SideOf, IsPush, Operations
<1>4. QED
    BY <1>1, <1>2, <1>3

LEMMA FastRoom ==
    ASSUME QueueInv, StrandInv, NEW t \in Threads, Offers(t), thread[t].from \notin {"reserved", "front"}
    PROVE  RoomServed'
<1> DEFINE th == thread[t]
<1> PICK x : x = th.job
    OBVIOUS
<1>1. /\ OnlyThread(t) /\ UNCHANGED <<topology, lifecycle, active, pending>> /\ TransfersGrow /\ BaseInv
      /\ Transferring(th) /\ th.from = "fast" /\ IsPush(x) /\ ~ServesPush(th) /\ Placing(th)
    BY TransferLists, TransferGrows, FastPushes, OffersLead DEF Offers, TransferStep, QueueInv
<1>2. (RoomOwed' => RoomOwed) => RoomServed'
    BY <1>1, DutiesServe DEF RoomDuty
<1>3. CASE PushElement(t)
    <2>1. topology = "Spsc"
        BY <1>3 DEF PushElement, Topology
    <2>2. Fast(th, "push") /\ ~Multiple("push")
        BY <1>1, <2>1 DEF Fast, SideOf, Multiple, MultipleProducers
    <2>3. waiting["push"] = 0
        BY <2>2 DEF QueueInv, SingleUser, Sides
    <2>4. pending["push"] = << >>
        BY <2>3, CountedWaiters DEF Sides
    <2>5. QED
        BY <1>1, <1>2, <2>4 DEF RoomOwed
<1>4. CASE PushClaim(t)
    <2> SUFFICES ASSUME RoomOwed' PROVE RoomServed'
        BY DEF RoomServed
    <2> PICK h : h = Head(pending["push"])
        OBVIOUS
    <2>1. lifecycle = "Open" /\ pending["push"] # << >>
        BY <1>1 DEF RoomOwed
    <2>2. h \in PushOps /\ op[h].phase = "Pending"
        BY <1>1, <2>1, HeadPending DEF Sides
    <2>3. CASE Pushed(h) # 0
        <3>1. PICK u \in Threads : Fronting(thread[u]) /\ thread[u].job = h
            BY <2>2, <2>3, AttendedPush
        <3>2. ServesPush(thread[u])
            BY <2>2, <3>1 DEF Fronting, ServesPush, Attentive, IsPush
        <3>3. u # t
            BY <1>1, <3>2
        <3>4. ServesPush(thread[u])'
            BY <1>1, <3>2, <3>3, OthersServe
        <3>5. QED
            BY <3>4 DEF RoomServed
    <2>4. CASE Pushed(h) = 0
        <3>1. HasRoom /\ Topology = "SequenceCell"
            BY <1>4 DEF PushClaim
        <3>2. Topologies # {"Spsc"}
            BY <3>1, RingTypes DEF Topology
        <3>3. SizeOf(h) = 1
            BY <2>2, <3>2, TopologyAssumption, NamesAssumption DEF SizeOf, Operations
        <3>4. Claimed + 1 - 0 - 1 = Claimed
            BY RingTypes
        <3>5. RoomFor(h)
            BY <2>4, <3>1, <3>3, <3>4 DEF RoomFor, HasRoom
        <3>6. QED
            BY <1>2, <2>1, <3>5 DEF RoomOwed
    <2>5. QED
        BY <2>3, <2>4
<1>5. CASE PushPublish(t) \/ PushUnplaced(t)
    <2>1. UNCHANGED <<log, freed>>
        BY <1>5 DEF PushPublish, PushUnplaced, Publish, storageVars
    <2>2. RoomOwed' => RoomOwed
        BY <1>1, <2>1 DEF RoomOwed, RoomFor, Claimed, Pushed
    <2>3. QED
        BY <1>2, <2>2
<1>6. QED
    BY <1>3, <1>4, <1>5 DEF Offers

LEMMA FastItems ==
    ASSUME QueueInv, StrandInv, NEW t \in Threads, Offers(t), thread[t].from \notin {"reserved", "front"}
    PROVE  ItemServed'
<1> DEFINE th == thread[t]
<1> PICK x : x = th.job
    OBVIOUS
<1> PICK new : new = thread'[t]
    OBVIOUS
<1>1. /\ OnlyThread(t) /\ UNCHANGED <<topology, lifecycle, active, pending>> /\ TransfersGrow /\ BaseInv
      /\ Transferring(th) /\ th.from = "fast" /\ IsPush(x) /\ DOMAIN th = ThreadFields
      /\ ServesPop(th) => th.pc = "push" /\ Pushed(x) # 0
    BY TransferLists, TransferGrows, FastPushes, Known DEF Offers, TransferStep, QueueInv
<1>2. /\ ServesPop(thread[t])' => ItemServed'
      /\ (ItemOwed' => ItemOwed) /\ ~ServesPop(th) => ItemServed'
    BY <1>1, DutiesServe DEF ItemDuty
<1>3. ASSUME Conclude(t, "Enqueued") PROVE ServesPop(thread[t])'
    <2>1. \A r : r = Back(th, "Enqueued") => BackTo(th, "Enqueued", r)
        BY <1>1, BackCases
    <2>2. new = Back(th, "Enqueued")
        BY <1>3, Known DEF Conclude
    <2>3. new.pc = "leave" /\ new.ok
        BY <1>1, <2>1, <2>2, NamesAssumption DEF BackTo
    <2>4. QED
        BY <2>3 DEF ServesPop
<1>4. Placing(th) /\ x \in Pushes /\ Pushed(x) \in Nat /\ (th.pc = "push" => Pushed(x) = 0 \/ Midway(x))
    BY OffersLead, Pusher
<1>5. CASE PushElement(t)
    <2>1. CASE Conclude(t, "Enqueued")
        BY <1>2, <1>3, <2>1
    <2>2. CASE UNCHANGED thread
        <3>1. th.pc = "push" /\ log' = Append(log, <<x, Pushed(x) + 1>>)
            BY <1>5 DEF PushElement, At, PushAtOnce
        <3>2. log' # log
            BY <3>1, RingTypes, AppendProperties
        <3>3. Appends(x)
            BY <1>5, <3>2, TransferMoved DEF Moved, TransferStep
        <3>4. Pushed(x)' # 0
            BY <1>4, <3>3, AppendTogether DEF Appends
        <3>5. QED
            BY <1>2, <2>2, <3>1, <3>4 DEF ServesPop
    <2>3. QED
        BY <1>5, <2>1, <2>2 DEF PushElement
<1>6. CASE PushPublish(t)
    BY <1>2, <1>3, <1>6 DEF PushPublish
<1>7. CASE PushClaim(t)
    <2>1. Topology = "SequenceCell" /\ th.pc = "push" /\ UNCHANGED <<taken, ready>>
        BY <1>7 DEF PushClaim, Claim, At
    <2>2. Pushed(x) = 0
        BY <1>4, <2>1 DEF Midway, Topology
    <2>3. ItemOwed' => ItemOwed
        BY <1>1, <2>1 DEF ItemOwed, HasItem
    <2>4. QED
        BY <1>1, <1>2, <2>2, <2>3
<1>8. CASE PushUnplaced(t)
    <2>1. /\ th.pc = "push" /\ UNCHANGED storageVars
          /\ Oversized(x) \/ SizeOf(x) = 0 \/ ~RoomFor(x)
        BY <1>8 DEF PushUnplaced, At
    <2>2. Pushed(x) = 0
        BY <1>4, <2>1 DEF Midway
    <2>3. ItemOwed' => ItemOwed
        BY <1>1, <2>1, SameOwed
    <2>4. QED
        BY <1>1, <1>2, <2>2, <2>3
<1>9. QED
    BY <1>5, <1>6, <1>7, <1>8 DEF Offers

LEMMA OffersServed ==
    ASSUME QueueInv, StrandInv, NEW t \in Threads, Offers(t)
    PROVE  RoomServed' /\ ItemServed' /\ EndServed'
<1>1. CASE thread[t].from \notin {"reserved", "front"}
    <2>1. active # 0 /\ active' = active
        <3>1. active' = active
            BY TransferLists DEF Offers, TransferStep
        <3>2. QED
            BY <1>1, <3>1, FastPushes, NobodyInside
    <2>2. QED
        BY <1>1, <2>1, FastRoom, FastItems DEF EndServed, EndOwed
<1>2. QED
    BY <1>1, LockedOffers

-----------------------------------------------------------------------------
(* No cell of a batch ring is given back out of order.                     *)
LEMMA TransferInOrder ==
    ASSUME QueueInv, ~StoreBuffers, GivenInOrder, NEW t \in Threads, TransferStep(t)
    PROVE  GivenInOrder'
<1> DEFINE th == thread[t]
<1> PICK new : new = thread'[t]
    OBVIOUS
<1> SUFFICES ASSUME topology = "Spsc"
             PROVE  freed' = 0 .. taken' - 1 /\ \A u \in Threads : thread'[u].pc \notin CellSteps
    BY TransferLists DEF GivenInOrder
<1>1. /\ freed = 0 .. taken - 1 /\ \A u \in Threads : thread[u].pc \notin CellSteps
      /\ OnlyThread(t) /\ Transferring(th) /\ BaseInv /\ taken \in Nat
    BY TransferLists, RingTypes DEF GivenInOrder, QueueInv
<1>2. Topology # "SequenceCell" /\ ~MultipleConsumers
    BY DEF Topology, MultipleConsumers
<1>3. ASSUME NEW result, new = Back(th, result) PROVE new.pc \notin CellSteps
    <2>1. ~Transferring(new)
        BY <1>1, <1>3, Known, BackOver
    <2>2. QED
        BY <2>1 DEF Transferring, CellSteps
<1>4. ASSUME NEW result, Conclude(t, result) PROVE new.pc \notin CellSteps
    BY <1>3, <1>4, Known DEF Conclude
<1>5. ASSUME UNCHANGED <<taken, freed>>, new.pc \notin CellSteps
      PROVE  freed' = 0 .. taken' - 1 /\ \A u \in Threads : thread'[u].pc \notin CellSteps
    BY <1>1, <1>5 DEF OnlyThread
<1>6. CASE PushElement(t)
    <2>1. UNCHANGED <<taken, freed>> /\ (Conclude(t, "Enqueued") \/ UNCHANGED thread)
        BY <1>6 DEF PushElement, PushAtOnce
    <2>2. QED
        BY <1>1, <1>4, <1>5, <2>1
<1>7. CASE PushUnplaced(t)
    <2>1. UNCHANGED <<taken, freed>> /\ (UNCHANGED thread \/ \E result : Conclude(t, result))
        BY <1>7 DEF PushUnplaced, storageVars
    <2>2. QED
        BY <1>1, <1>4, <1>5, <2>1
<1>8. CASE PopNothing(t)
    <2>1. UNCHANGED <<taken, freed>> /\ \E result : Conclude(t, result)
        BY <1>8 DEF PopNothing, storageVars
    <2>2. QED
        BY <1>4, <1>5, <2>1
<1>9. CASE PopElement(t)
    <2>1. taken' = taken + 1 /\ freed' = freed \cup {taken} /\ MoveHead(t)
        BY <1>9 DEF PopElement, PopAtOnce
    <2>2. freed' = 0 .. taken' - 1
        BY <1>1, <2>1
    <2>3. \/ thread' = [thread EXCEPT ![t] = Back(th, "Popped")]
          \/ thread' = [thread EXCEPT ![t] = [th EXCEPT !.pc = "pop"]]
        BY <1>2, <2>1, Known DEF MoveHead
    <2>4. CASE thread' = [thread EXCEPT ![t] = Back(th, "Popped")]
        BY <1>1, <1>3, <2>2, <2>4, Known DEF OnlyThread
    <2>5. CASE thread' = [thread EXCEPT ![t] = [th EXCEPT !.pc = "pop"]]
        BY <1>1, <2>2, <2>5, Known, Fields DEF OnlyThread, CellSteps
    <2>6. QED
        BY <2>3, <2>4, <2>5
<1>10. ~(PushClaim(t) \/ PopTake(t) \/ PopRelease(t))
    BY <1>2 DEF PushClaim, PopTake, PopRelease
<1>11. ~(PushPublish(t) \/ PopFree(t) \/ PopAdvance(t))
    BY <1>1 DEF PushPublish, PopFree, PopAdvance, CellSteps, At
<1>12. QED
    BY <1>6, <1>7, <1>8, <1>9, <1>10, <1>11 DEF TransferStep

LEMMA TransferHolds ==
    ASSUME QueueInv, FreeHolds, NEW t \in Threads, TransferStep(t) PROVE FreeHolds'
<1> SUFFICES ASSUME NEW u \in Threads, thread'[u].pc = "pop.free", thread'[u].job # None
             PROVE  op'[thread'[u].job].moved # << >>
    BY DEF FreeHolds, At
<1>1. OnlyThread(t) /\ Transferring(thread[t]) /\ BaseInv /\ TransfersGrow
    BY TransferLists, TransferGrows DEF QueueInv
<1>2. CASE u # t
    <2>1. thread'[u] = thread[u]
        BY <1>1, <1>2 DEF OnlyThread
    <2>2. thread[u].job \in PopOps
        BY <2>1, Known DEF Jobs, Transferring
    <2>3. op[thread[u].job].moved # << >>
        BY <2>1 DEF FreeHolds, At
    <2>4. QED
        BY <1>1, <2>1, <2>2, <2>3 DEF TransfersGrow
<1>3. CASE u = t
    <2>1. CASE Yields(t)
        BY <1>3, <2>1, YieldsServe
    <2>2. CASE Offers(t) \/ PopNothing(t)
        <3> PICK new : new = thread'[t]
            OBVIOUS
        <3>1. ASSUME NEW result, new = Back(thread[t], result) PROVE new.pc # "pop.free"
            BY <1>1, <3>1, Known, BackOver DEF Transferring
        <3>2. PopNothing(t) => \E result : new = Back(thread[t], result)
            BY Known DEF PopNothing, Conclude
        <3>3. Offers(t) => Placing(new) \/ \E result : new = Back(thread[t], result)
            BY OffersLead
        <3>4. QED
            BY <1>3, <2>2, <3>1, <3>2, <3>3 DEF Placing
    <2>3. QED
        BY <2>1, <2>2 DEF TransferStep, Yields, Offers
<1>4. QED
    BY <1>2, <1>3

LEMMA TransferStrand ==
    ASSUME QueueInv, StrandInv, ~StoreBuffers, NEW t \in Threads, TransferStep(t) PROVE StrandInv'
<1>1. RoomServed' /\ ItemServed' /\ EndServed'
    BY YieldsServed, NothingServed, OffersServed DEF TransferStep, Yields, Offers
<1>2. EndedFails'
    BY TransferLists, TransferGrows, DutiesServe DEF QueueInv
<1>3. ReservedOpen'
    <2>1. /\ OnlyThread(t) /\ lifecycle' = lifecycle /\ BaseInv /\ ReservedOpen
          /\ Reserving(thread'[t]) => Reserving(thread[t]) /\ thread'[t].call = thread[t].call
        BY TransferLists DEF QueueInv, StrandInv
    <2>2. Reserving(thread'[t]) => ~Ended(SideOf(Call(t)))'
        BY <2>1 DEF ReservedOpen, Ended, Call
    <2>3. QED
        BY <2>1, <2>2, ReservedKept
<1>4. GivenInOrder' /\ FreeHolds'
    BY TransferInOrder, TransferHolds DEF StrandInv
<1>5. QED
    BY <1>1, <1>2, <1>3, <1>4 DEF StrandInv

LEMMA NextStrand ==
    ASSUME QueueInv, StrandInv, ~StoreBuffers, Final, CancelsSmall, [Next]_vars PROVE StrandInv'
<1>1. CASE UNCHANGED vars
    BY <1>1 DEF vars, queueVars, waiters, storageVars, StrandInv, RoomServed, ItemServed, EndServed,
       RoomOwed, ItemOwed, EndOwed, RoomFor, Pushed, Claimed, HasItem, ServesPush, ServesPop, Sweeps,
       EndedFails, Hopeless, Ended, ReservedOpen, GivenInOrder, FreeHolds, Call, At
<1>2. ASSUME NEW t \in Threads, TransferStep(t) PROVE StrandInv'
    BY <1>2, TransferStrand
<1>3. ASSUME NEW t \in Threads PROVE ~Flush(t)
    BY DEF Final, Flush
<1>4. CASE Next /\ ~\E t \in Threads : TransferStep(t) \/ Flush(t)
    BY <1>4, SteadyStrand
<1>5. QED
    BY <1>1, <1>2, <1>3, <1>4

LEMMA InitStrand == Init => StrandInv
<1> SUFFICES ASSUME Init PROVE StrandInv
    OBVIOUS
<1>1. /\ pending["push"] = << >> /\ pending["pop"] = << >> /\ taken = 0 /\ freed = {}
      /\ \A t \in Threads : thread[t] = NewThread
    BY DEF Init, StorageInit
<1>2. RoomServed /\ ItemServed /\ EndServed
    BY <1>1 DEF RoomServed, ItemServed, EndServed, RoomOwed, ItemOwed, EndOwed
<1>3. EndedFails
    BY <1>1 DEF EndedFails, Hopeless, Sides
<1>4. ReservedOpen /\ FreeHolds
    BY <1>1, IdleThread DEF ReservedOpen, FreeHolds, Reserving, Transferring, At
<1>5. GivenInOrder
    <2>1. 0 .. taken - 1 = {}
        BY <1>1
    <2>2. QED
        BY <1>1, <2>1, IdleThread DEF GivenInOrder, CellSteps
<1>6. QED
    BY <1>2, <1>3, <1>4, <1>5 DEF StrandInv

LEMMA QuietServed == ASSUME QueueInv, Final, StrandInv PROVE NobodyStranded
<1> SUFFICES ASSUME Quiescent
             PROVE  /\ pending["push"] # << >> => lifecycle = "Open" /\ ~RoomFor(Head(pending["push"]))
                    /\ pending["pop"] # << >> =>
                         /\ ~HasItem /\ lifecycle # "Aborted"
                         /\ \A t \in Threads : ~ClosedAndEmpty(t)
    BY DEF NobodyStranded
<1>1. ASSUME NEW t \in Threads
      PROVE  /\ ~ServesPush(thread[t]) /\ ~ServesPop(thread[t]) /\ ~Sweeps(thread[t])
             /\ \A side : ~Fails(thread[t], side)
    BY NoDuty DEF Quiescent, At, Unserving
<1>2. ~RoomOwed /\ ~ItemOwed /\ ~EndOwed /\ \A side \in Sides : ~Hopeless(side)
    BY <1>1 DEF StrandInv, RoomServed, ItemServed, EndServed, EndedFails
<1>3. pending["push"] # << >> => ~Ended("push")
    BY <1>2 DEF Hopeless, Sides
<1>4. pending["pop"] # << >> => ~Ended("pop")
    BY <1>2 DEF Hopeless, Sides
<1>5. \A t \in Threads : ClosedAndEmpty(t) => lifecycle = "Closing" /\ active = 0 /\ Claimed = taken
    BY SeenAtOnce
<1>6. lifecycle \in {"Open", "Closing", "Aborted"}
    BY DEF QueueInv, ValueInv, DataTypes
<1>7. QED
    BY <1>2, <1>3, <1>4, <1>5, <1>6 DEF RoomOwed, ItemOwed, EndOwed, Ended

(* When everybody is idle nobody is parked who could go on: not a push     *)
(* that has room, not a pop for which there is an item or the end of the   *)
(* stream, and no one at all once the queue is aborted, or a push once it  *)
(* is closed.  The stores are seen at once, and no push that may be        *)
(* cancelled is larger than another: a large one that gives up the head of *)
(* the list leaves the smaller ones behind it waiting for room they have.  *)
THEOREM NobodyIsStranded == ~StoreBuffers /\ CancelsSmall => (Spec => []NobodyStranded)
<1> SUFFICES ASSUME ~StoreBuffers, CancelsSmall PROVE Spec => []NobodyStranded
    OBVIOUS
<1>1. Init => Final /\ StrandInv
    BY InitFinal, InitStrand
<1>2. QueueInv /\ Final /\ StrandInv /\ [Next]_vars => Final' /\ StrandInv'
    BY NextFinal, NextStrand
<1>3. QueueInv /\ Final /\ StrandInv => NobodyStranded
    BY QuietServed
<1>4. QED
    BY <1>1, <1>2, <1>3, QueueInvariant, PTL DEF Spec
-----------------------------------------------------------------------------
(***************************************************************************)
(* Whose turn it is: calls of one thread get at the ring in their order.   *)
(***************************************************************************)
Owners == Producers \cup Consumers

(* A call got position m of the ring, by pushing there or by taking it. *)
Got(side, y, m) ==
    IF side = "push" THEN m \in 1 .. Len(log) /\ log[m][1] = y
                     ELSE m \in 1 .. taken /\ ListedIn(TakenBy(y), log[m])

(* The same of the calls of thread t, by their numbers. *)
Has(side, t, i, m) == i \in 1 .. Len(calls[t]) /\ Got(side, calls[t][i], m)
Waiting(side, t, i) == i \in 1 .. Len(calls[t]) /\ ListedIn(pending[side], calls[t][i])

(* What is known of a call that was made. *)
Made(x) ==
    /\ x \in Operations => op[x].phase # "Constructed"
    /\ x \in TryValues => Pushed(x) # 0
    /\ x \in Elements => x \in TakenOut

LastCall ==
    \A t \in Owners : Call(t) \in Operations =>
        calls[t] # << >> /\ calls[t][Len(calls[t])] = Call(t)
CalledOnce ==
    /\ \A t, u \in Owners : \A i \in 1 .. Len(calls[t]), j \in 1 .. Len(calls[u]) :
         calls[t][i] = calls[u][j] /\ calls[t][i] \in Calls => t = u /\ i = j
    /\ \A t \in Owners : \A i \in 1 .. Len(calls[t]) : Made(calls[t][i])

(* The lists of waiters are in the order of the calls, ... *)
InLine ==
    \A side \in Sides : \A k, l \in 1 .. Len(pending[side]) : k < l =>
        \A t \in Owners : \A i, j \in 1 .. Len(calls[t]) :
            calls[t][i] = pending[side][k] /\ calls[t][j] = pending[side][l] => i < j

(* ... while a call waits no later one of its thread has got anything, ... *)
Waits ==
    \A side \in Sides, t \in Owners : \A i, j, m \in Nat :
        i < j /\ Waiting(side, t, i) => ~Has(side, t, j, m)

(* ... and a thread tries the ring for itself only if none of them waits.  *)
Turns ==
    \A t \in Owners : Transferring(thread[t]) /\ thread[t].from # "front" =>
        \A i \in Nat : ~Waiting(SideOf(thread[t].job), t, i)

Ordered ==
    \A side \in Sides, t \in Owners : \A i, j, m, n \in Nat :
        i < j /\ Has(side, t, i, m) /\ Has(side, t, j, n) => m < n

OrderInv == LastCall /\ CalledOnce /\ InLine /\ Waits /\ Turns /\ Ordered
-----------------------------------------------------------------------------
(* A step in which calls get nothing more.                                 *)
LEMMA NothingGot ==
    ASSUME Waits, Ordered,
           \A side \in Sides, t \in Owners : \A i, m \in Nat : Has(side, t, i, m)' => Has(side, t, i, m),
           \A side \in Sides, t \in Owners : \A i \in Nat :
             Waiting(side, t, i)' => Waiting(side, t, i) \/ i = Len(calls'[t]),
           \A t \in Owners : Len(calls'[t]) \in Nat
    PROVE  Waits' /\ Ordered'
<1>1. ASSUME NEW side \in Sides, NEW t \in Owners, NEW i \in Nat, NEW j \in Nat, NEW m \in Nat,
             i < j, Waiting(side, t, i)', Has(side, t, j, m)'
      PROVE  FALSE
    <2>1. Has(side, t, j, m)
        BY <1>1
    <2>2. ~Waiting(side, t, i)
        BY <1>1, <2>1 DEF Waits
    <2>3. i = Len(calls'[t]) /\ Len(calls'[t]) \in Nat /\ j \in 1 .. Len(calls'[t])
        BY <1>1, <2>2 DEF Has
    <2>4. QED
        BY <1>1, <2>3
<1>2. Waits'
    BY <1>1 DEF Waits
<1>3. QED
    BY <1>2 DEF Ordered

(* A step in which one call gets the next position, when it is its turn.   *)
Grants(s, u, k, n) ==
    /\ \A side \in Sides, t \in Owners : \A i, m \in Nat : Has(side, t, i, m)' =>
         Has(side, t, i, m) \/ (side = s /\ t = u /\ i = k /\ m = n)
    /\ \A side \in Sides, t \in Owners : \A i \in Nat : Waiting(side, t, i)' => Waiting(side, t, i)
    /\ \A i, m \in Nat : Has(s, u, i, m) => m < n
    /\ \A j, m \in Nat : k < j => ~Has(s, u, j, m)
    /\ \A i \in Nat : i < k => ~Waiting(s, u, i)

LEMMA OneGot ==
    ASSUME Waits, Ordered, NEW s \in Sides, NEW u \in Owners, NEW k \in Nat, NEW n \in Nat, Grants(s, u, k, n)
    PROVE  Waits' /\ Ordered'
<1>1. ASSUME NEW side \in Sides, NEW t \in Owners, NEW i \in Nat, NEW j \in Nat, NEW m \in Nat,
             i < j, Waiting(side, t, i)', Has(side, t, j, m)'
      PROVE  FALSE
    <2>1. Waiting(side, t, i)
        BY <1>1 DEF Grants
    <2>2. ~Has(side, t, j, m)
        BY <1>1, <2>1 DEF Waits
    <2>3. side = s /\ t = u /\ j = k
        BY <1>1, <2>2 DEF Grants
    <2>4. QED
        BY <1>1, <2>1, <2>3 DEF Grants
<1>2. ASSUME NEW side \in Sides, NEW t \in Owners, NEW i \in Nat, NEW j \in Nat, NEW m \in Nat, NEW l \in Nat,
             i < j, Has(side, t, i, m)', Has(side, t, j, l)'
      PROVE  m < l
    <2>1. CASE Has(side, t, i, m) /\ Has(side, t, j, l)
        BY <1>2, <2>1 DEF Ordered
    <2>2. CASE ~Has(side, t, i, m)
        <3>1. side = s /\ t = u /\ i = k
            BY <1>2, <2>2 DEF Grants
        <3>2. Has(s, u, j, l) \/ j = k
            BY <1>2, <3>1 DEF Grants
        <3>3. QED
            BY <1>2, <3>1, <3>2 DEF Grants
    <2>3. CASE Has(side, t, i, m) /\ ~Has(side, t, j, l)
        <3>1. side = s /\ t = u /\ l = n
            BY <1>2, <2>3 DEF Grants
        <3>2. QED
            BY <2>3, <3>1 DEF Grants
    <2>4. QED
        BY <2>1, <2>2, <2>3
<1>3. Waits'
    BY <1>1 DEF Waits
<1>4. Ordered'
    BY <1>2 DEF Ordered
<1>5. QED
    BY <1>3, <1>4

(* A call that transfers on its turn has no earlier one of its thread      *)
(* waiting, and no later one has got anything.                             *)
LEMMA OnTurn ==
    ASSUME QueueInv, OrderInv, NEW t \in Threads, Transferring(thread[t]), NEW x, x = thread[t].job,
           x \in Operations, NEW u \in Owners, NEW k \in 1 .. Len(calls[u]), calls[u][k] = x
    PROVE  /\ \A j, m \in Nat : k < j => ~Has(SideOf(x), u, j, m)
           /\ \A i \in Nat : i < k => ~Waiting(SideOf(x), u, i)
<1>1. SideOf(x) \in Sides /\ x \in Calls /\ BaseInv
    BY DEF SideOf, Sides, Calls, QueueInv
<1>2. CASE thread[t].from = "front"
    <2> PICK s : s = pending[SideOf(x)]
        OBVIOUS
    <2>1. s # << >> /\ Head(s) = x /\ s \in Seq(Operations)
        BY <1>1, <1>2, PendingTypes DEF Heads, Fronting, BaseInv
    <2>2. Len(s) \in Nat /\ Len(s) >= 1 /\ s[1] = x
        BY <2>1
    <2>3. Waiting(SideOf(x), u, k)
        BY <2>2 DEF Waiting, ListedIn
    <2>4. \A j, m \in Nat : k < j => ~Has(SideOf(x), u, j, m)
        BY <1>1, <2>3 DEF OrderInv, Waits
    <2>5. ASSUME NEW i \in Nat, i < k, Waiting(SideOf(x), u, i) PROVE FALSE
        <3>1. i \in 1 .. Len(calls[u])
            BY <2>5 DEF Waiting
        <3>2. PICK l \in 1 .. Len(s) : s[l] = calls[u][i]
            BY <2>5 DEF Waiting, ListedIn
        <3>3. l # 1
            <4>1. ASSUME l = 1 PROVE FALSE
                <5>1. calls[u][i] = calls[u][k] /\ calls[u][i] \in Calls
                    BY <1>1, <2>2, <3>2, <4>1
                <5>2. i = k
                    BY <3>1, <5>1 DEF OrderInv, CalledOnce
                <5>3. QED
                    BY <2>5, <5>2
            <4>2. QED
                BY <4>1
        <3>4. 1 \in 1 .. Len(s) /\ 1 < l
            BY <2>2, <3>2, <3>3
        <3>5. k < i
            BY <1>1, <2>2, <3>1, <3>2, <3>4 DEF OrderInv, InLine
        <3>6. QED
            BY <2>5, <3>1, <3>5
    <2>6. QED
        BY <2>4, <2>5
<1>3. CASE thread[t].from # "front"
    <2>1. x = Call(t) /\ t \in Owners
        BY <1>1, <1>3, Shaped, NamesAssumption DEF Jobs, OwnStart, OwnTry, OwnPoll, Call, Owners, Users, Calls
    <2>2. calls[t] # << >> /\ calls[t][Len(calls[t])] = x /\ calls[t] \in Seq(Calls \cup Elements)
        BY <2>1 DEF OrderInv, LastCall, QueueInv, ValueInv, DataTypes, Owners
    <2>3. Len(calls[t]) \in 1 .. Len(calls[t])
        BY <2>2
    <2>4. u = t /\ k = Len(calls[t])
        BY <1>1, <2>1, <2>2, <2>3 DEF OrderInv, CalledOnce
    <2>5. \A i \in Nat : ~Waiting(SideOf(x), t, i)
        BY <1>3, <2>1 DEF OrderInv, Turns
    <2>6. QED
        BY <2>3, <2>4, <2>5 DEF Has
<1>4. QED
    BY <1>2, <1>3
-----------------------------------------------------------------------------
(* A list that lost some of another, and nothing else.                     *)
Thinner(r, s) ==
    \A k, l \in 1 .. Len(r) : \E a, b \in 1 .. Len(s) :
        r[k] = s[a] /\ r[l] = s[b] /\ (k < l => a < b)

LEMMA Thinned ==
    ASSUME NEW S, NEW s \in Seq(S)
    PROVE  /\ Thinner(s, s) /\ Thinner(<< >>, s)
           /\ s # << >> => Thinner(Tail(s), s)
           /\ \A x : ListedIn(s, x) => Thinner(Without(s, x), s)
<1>1. Thinner(s, s) /\ Thinner(<< >>, s)
    BY DEF Thinner
<1>2. ASSUME s # << >> PROVE Thinner(Tail(s), s)
    <2>1. Len(Tail(s)) = Len(s) - 1 /\ Len(s) \in Nat /\ \A k \in 1 .. Len(s) - 1 : Tail(s)[k] = s[k + 1]
        BY <1>2, HeadTailProperties
    <2>2. ASSUME NEW k \in 1 .. Len(Tail(s)), NEW l \in 1 .. Len(Tail(s))
          PROVE  \E a, b \in 1 .. Len(s) : Tail(s)[k] = s[a] /\ Tail(s)[l] = s[b] /\ (k < l => a < b)
        <3>1. /\ k + 1 \in 1 .. Len(s) /\ l + 1 \in 1 .. Len(s) /\ (k < l => k + 1 < l + 1)
              /\ Tail(s)[k] = s[k + 1] /\ Tail(s)[l] = s[l + 1]
            BY <2>1, <2>2
        <3>2. QED
            BY <3>1
    <2>3. QED
        BY <2>2 DEF Thinner
<1>3. ASSUME NEW x, ListedIn(s, x) PROVE Thinner(Without(s, x), s)
    <2> DEFINE at == CHOOSE i \in 1 .. Len(s) : s[i] = x
               r == [i \in 1 .. Len(s) - 1 |-> IF i < at THEN s[i] ELSE s[i + 1]]
               old(k) == IF k < at THEN k ELSE k + 1
    <2>1. Without(s, x) = r /\ at \in 1 .. Len(s) /\ Len(s) \in Nat
        BY <1>3 DEF Without, ListedIn
    <2>2. r \in Seq(S) /\ Len(r) = Len(s) - 1
        BY <2>1
    <2> HIDE DEF at
    <2>3. ASSUME NEW k \in 1 .. Len(r) PROVE old(k) \in 1 .. Len(s) /\ r[k] = s[old(k)]
        BY <2>1, <2>2
    <2>4. ASSUME NEW k \in 1 .. Len(r), NEW l \in 1 .. Len(r), k < l PROVE old(k) < old(l)
        BY <2>1, <2>2, <2>4
    <2> HIDE DEF r, old
    <2>5. Thinner(r, s)
        <3>1. ASSUME NEW k \in 1 .. Len(r), NEW l \in 1 .. Len(r)
              PROVE  \E a, b \in 1 .. Len(s) : r[k] = s[a] /\ r[l] = s[b] /\ (k < l => a < b)
            <4>1. old(k) \in 1 .. Len(s) /\ old(l) \in 1 .. Len(s) /\ (k < l => old(k) < old(l))
                BY <2>3, <2>4
            <4>2. r[k] = s[old(k)] /\ r[l] = s[old(l)]
                BY <2>3
            <4>3. QED
                BY <4>1, <4>2
        <3>2. QED
            BY <3>1 DEF Thinner
    <2>6. QED
        BY <2>1, <2>5
<1>4. QED
    BY <1>1, <1>2, <1>3

(* What was made stays made, and what is added to a thread's calls. *)
MadeStays == \A x \in Calls \cup Elements : Made(x) => Made(x)'
Enters(t, y) ==
    /\ t \in Owners /\ y \in Calls \cup Elements
    /\ calls' = [calls EXCEPT ![t] = Append(calls[t], y)]

LEMMA CallsGrow ==
    ASSUME QueueInv, NEW t, NEW y, Enters(t, y)
    PROVE  /\ calls[t] \in Seq(Calls \cup Elements) /\ calls'[t] = Append(calls[t], y)
           /\ Len(calls[t]) \in Nat /\ Len(calls'[t]) = Len(calls[t]) + 1
           /\ calls'[t][Len(calls[t]) + 1] = y
           /\ \A i \in 1 .. Len(calls[t]) : calls'[t][i] = calls[t][i]
           /\ \A u \in Owners \ {t} : calls'[u] = calls[u]
           /\ \A u \in Owners : \A i \in 1 .. Len(calls'[u]) :
                \/ i \in 1 .. Len(calls[u]) /\ calls'[u][i] = calls[u][i]
                \/ u = t /\ i = Len(calls[t]) + 1 /\ calls'[u][i] = y
<1>1. /\ DOMAIN calls = Owners /\ calls[t] \in Seq(Calls \cup Elements) /\ y \in Calls \cup Elements
      /\ t \in Owners /\ calls' = [calls EXCEPT ![t] = Append(calls[t], y)]
    BY DEF Enters, QueueInv, ValueInv, DataTypes, Owners
<1>2. calls'[t] = Append(calls[t], y) /\ \A u \in Owners \ {t} : calls'[u] = calls[u]
    BY <1>1
<1>3. /\ Len(calls[t]) \in Nat /\ Len(calls'[t]) = Len(calls[t]) + 1
      /\ calls'[t][Len(calls[t]) + 1] = y
      /\ \A i \in 1 .. Len(calls[t]) : calls'[t][i] = calls[t][i]
    BY <1>1, <1>2, AppendProperties
<1>4. ASSUME NEW u \in Owners, NEW i \in 1 .. Len(calls'[u])
      PROVE  \/ i \in 1 .. Len(calls[u]) /\ calls'[u][i] = calls[u][i]
             \/ u = t /\ i = Len(calls[t]) + 1 /\ calls'[u][i] = y
    <2>1. CASE u = t
        BY <1>3, <2>1
    <2>2. CASE u # t
        BY <1>2, <2>2
    <2>3. QED
        BY <2>1, <2>2
<1>5. QED
    BY <1>1, <1>2, <1>3, <1>4

LEMMA CallTypes ==
    ASSUME QueueInv, NEW t \in Owners
    PROVE  /\ Len(calls[t]) \in Nat /\ calls[t] \in Seq(Calls \cup Elements)
           /\ \A i \in 1 .. Len(calls[t]) : calls[t][i] \in Calls \cup Elements
<1>1. calls[t] \in Seq(Calls \cup Elements)
    BY DEF QueueInv, ValueInv, DataTypes, Owners
<1>2. QED
    BY <1>1, ElementOfSeq

(* Calls are told apart, and were all made.                                *)
LEMMA CalledStep ==
    ASSUME QueueInv, CalledOnce, MadeStays,
           \/ calls' = calls
           \/ \E t, y : Enters(t, y) /\ Made(y)' /\ (y \in Calls => ~Made(y))
    PROVE  CalledOnce'
<1>1. CASE calls' = calls
    <2>1. ASSUME NEW t \in Owners, NEW i \in 1 .. Len(calls[t]) PROVE Made(calls[t][i])'
        <3>1. Made(calls[t][i]) /\ calls[t][i] \in Calls \cup Elements
            BY CallTypes DEF CalledOnce
        <3>2. PICK x : x = calls[t][i]
            OBVIOUS
        <3>3. Made(x)'
            BY <3>1, <3>2 DEF MadeStays
        <3>4. calls'[t][i] = x
            BY <1>1, <3>2
        <3>5. QED
            BY <3>3, <3>4 DEF Made
    <2>2. QED
        BY <1>1, <2>1 DEF CalledOnce
<1>2. ASSUME NEW t, NEW y, Enters(t, y), Made(y)', y \in Calls => ~Made(y)
      PROVE  CalledOnce'
    <2>1. ASSUME NEW u \in Owners, NEW i \in 1 .. Len(calls'[u]) PROVE Made(calls[u][i])'
        <3> PICK x : x = calls'[u][i]
            OBVIOUS
        <3>1. CASE i \in 1 .. Len(calls[u]) /\ x = calls[u][i]
            <4>1. Made(x) /\ x \in Calls \cup Elements
                BY <3>1, CallTypes DEF CalledOnce
            <4>2. Made(x)'
                BY <4>1 DEF MadeStays
            <4>3. QED
                BY <4>2 DEF Made
        <3>2. CASE x = y
            BY <1>2, <3>2 DEF Made
        <3>3. QED
            BY <1>2, <3>1, <3>2, CallsGrow
    <2>2. ASSUME NEW u \in Owners, NEW i \in 1 .. Len(calls[u]), y \in Calls PROVE calls[u][i] # y
        BY <1>2, <2>2 DEF CalledOnce
    <2>3. ASSUME NEW u \in Owners, NEW v \in Owners, NEW i \in 1 .. Len(calls'[u]), NEW j \in 1 .. Len(calls'[v]),
                 calls'[u][i] = calls'[v][j], calls'[u][i] \in Calls
          PROVE  u = v /\ i = j
        <3>1. \/ i \in 1 .. Len(calls[u]) /\ calls'[u][i] = calls[u][i]
              \/ u = t /\ i = Len(calls[t]) + 1 /\ calls'[u][i] = y
            BY <1>2, CallsGrow
        <3>2. \/ j \in 1 .. Len(calls[v]) /\ calls'[v][j] = calls[v][j]
              \/ v = t /\ j = Len(calls[t]) + 1 /\ calls'[v][j] = y
            BY <1>2, CallsGrow
        <3>3. QED
            BY <2>2, <2>3, <3>1, <3>2 DEF CalledOnce
    <2>4. QED
        BY <2>1, <2>3 DEF CalledOnce
<1>3. QED
    BY <1>1, <1>2
-----------------------------------------------------------------------------
(* A step in which no call gets anything, begins or starts to wait.        *)
Calm(t) ==
    /\ OnlyThread(t) /\ UNCHANGED <<calls, log, taken>>
    /\ \A o \in PopOps : op'[o].moved = op[o].moved
    /\ t \in Owners /\ thread'[t].call \in Operations => thread'[t].call = Call(t)
    /\ \A side \in Sides : Thinner(pending'[side], pending[side])
    /\ Transferring(thread'[t]) /\ thread'[t].from # "front" =>
         \/ /\ Transferring(thread[t]) /\ thread[t].from # "front"
            /\ SideOf(thread'[t].job) = SideOf(thread[t].job)
         \/ pending'[SideOf(thread'[t].job)] = << >>

LEMMA SameGot ==
    ASSUME UNCHANGED <<log, taken>>, \A o \in PopOps : op'[o].moved = op[o].moved
    PROVE  \A side, y, m : Got(side, y, m)' <=> Got(side, y, m)
BY DEF Got, TakenBy

LEMMA CalmOrder ==
    ASSUME QueueInv, OrderInv, MadeStays, NEW t \in Threads, Calm(t) PROVE OrderInv'
<1>1. LastCall'
    <2>1. ASSUME NEW u \in Owners, thread'[u].call \in Operations PROVE thread[u].call = thread'[u].call
        BY <2>1, Names DEF Calm, OnlyThread, Call, Owners
    <2>2. QED
        BY <2>1 DEF Calm, OrderInv, LastCall, Call
<1>2. CalledOnce'
    BY CalledStep DEF Calm, OrderInv
<1>3. ASSUME NEW side \in Sides, NEW u, NEW i, Waiting(side, u, i)' PROVE Waiting(side, u, i)
    <2>1. PICK k \in 1 .. Len(pending'[side]) : pending'[side][k] = calls[u][i]
        BY <1>3 DEF Calm, Waiting, ListedIn
    <2>2. PICK a \in 1 .. Len(pending[side]) : pending'[side][k] = pending[side][a]
        BY <2>1 DEF Calm, Thinner
    <2>3. QED
        BY <1>3, <2>1, <2>2 DEF Calm, Waiting, ListedIn
<1>4. InLine'
    <2>1. ASSUME NEW side \in Sides, NEW k \in 1 .. Len(pending'[side]), NEW l \in 1 .. Len(pending'[side]),
                 k < l, NEW u \in Owners, NEW i \in 1 .. Len(calls[u]), NEW j \in 1 .. Len(calls[u]),
                 calls[u][i] = pending'[side][k], calls[u][j] = pending'[side][l]
          PROVE  i < j
        <3>1. PICK a \in 1 .. Len(pending[side]), b \in 1 .. Len(pending[side]) :
                pending'[side][k] = pending[side][a] /\ pending'[side][l] = pending[side][b] /\ a < b
            BY <2>1 DEF Calm, Thinner
        <3>2. QED
            BY <2>1, <3>1 DEF OrderInv, InLine
    <2>2. calls' = calls
        BY DEF Calm
    <2>3. QED
        BY <2>1, <2>2 DEF InLine
<1>5. Waits' /\ Ordered'
    <2>1. \A side, u, i, m : Has(side, u, i, m)' => Has(side, u, i, m)
        BY SameGot DEF Calm, Has
    <2>2. \A u \in Owners : Len(calls'[u]) \in Nat
        BY CallTypes DEF Calm
    <2>3. QED
        BY <1>3, <2>1, <2>2, NothingGot DEF OrderInv
<1>6. Turns'
    <2>1. ASSUME NEW u \in Owners, Transferring(thread'[u]), thread'[u].from # "front",
                 NEW side, side = SideOf(thread'[u].job), NEW i \in Nat, Waiting(side, u, i)'
          PROVE  FALSE
        <3>1. side \in Sides
            BY <2>1 DEF SideOf, Sides
        <3>2. Waiting(side, u, i)
            BY <1>3, <2>1, <3>1
        <3>3. CASE Transferring(thread[u]) /\ thread[u].from # "front" /\ side = SideOf(thread[u].job)
            BY <2>1, <3>2, <3>3 DEF OrderInv, Turns
        <3>4. CASE pending'[side] = << >>
            BY <2>1, <3>4, ListedFew DEF Waiting
        <3>5. u \in Threads
            BY <2>1, Names DEF Owners
        <3>6. QED
            BY <2>1, <3>3, <3>4, <3>5 DEF Calm, OnlyThread
    <2>2. QED
        BY <2>1 DEF Turns
<1>7. QED
    BY <1>1, <1>2, <1>4, <1>5, <1>6 DEF OrderInv
-----------------------------------------------------------------------------
LEMMA SteadyCalm ==
    ASSUME QueueInv, BaseInv', NEW t \in Threads, SteadyStep(t), calls' = calls,
           t \in Owners => Goes(thread[t], thread'[t]) \/ thread'[t].call \notin Operations,
           \A side \in Sides : Thinner(pending'[side], pending[side]),
           Transferring(thread'[t]) /\ thread'[t].from # "front" =>
             pending'[SideOf(thread'[t].job)] = << >>
    PROVE  Calm(t)
<1>1. t \in Owners /\ thread'[t].call \in Operations => thread'[t].call = Call(t)
    <2>1. thread'[t].pc = "idle" => thread'[t] = NewThread
        BY DEF BaseInv, Shapes, Shape
    <2>2. thread'[t].pc = "idle" => thread'[t].call \notin Operations
        BY <2>1, IdleThread, NamesAssumption DEF Calls
    <2>3. QED
        BY <2>2 DEF Goes, Call
<1>2. /\ OnlyThread(t) /\ UNCHANGED <<log, taken>>
      /\ \A o \in PopOps : op'[o].moved = op[o].moved
    BY DEF SteadyStep, Steady, OpSteady, storageVars, Operations
<1>3. QED
    BY <1>1, <1>2 DEF Calm

LEMMA SameThin == ASSUME BaseInv, pending' = pending PROVE \A side \in Sides : Thinner(pending'[side], pending[side])
<1>1. \A side \in Sides : pending[side] \in Seq(Operations)
    BY PendingTypes
<1>2. QED
    BY <1>1, Thinned

LEMMA CallStepCalm ==
    ASSUME QueueInv, BaseInv', NEW t \in Threads, CallStep(t) PROVE Calm(t)
<1> PICK new : new = thread'[t]
    OBVIOUS
<1>1. SteadyStep(t) /\ Single(t) /\ BaseInv
    BY CallStepSteady, CallStepSingle DEF QueueInv
<1>2. UNCHANGED <<calls, pending, lock>>
    BY CallStepLeaves
<1>3. ~Holding(thread[t]) /\ ~Transferring(thread[t])
    BY DEF CallStep, TryPopWaiting, TryPopAfter, CheckToken, RegisterCallback,
       StartPhase, StartLifecycle, EnterProducer, EnterOpen, FastPath, LeaveProducer,
       LastProducerLeft, Wake, StartRefused, At, Holding, Locked, Served, Transferring
<1>4. ~Holding(new)
    BY <1>1, <1>2, <1>3 DEF BaseInv, LockHeld
<1>5. ASSUME Transferring(new), new.from # "front" PROVE pending'[SideOf(new.job)] = << >>
    <2>1. Jobs(t, new)
        BY DEF BaseInv, Shapes
    <2>2. new.from \in {"fast", "poll"}
        BY <1>4, <1>5, <2>1 DEF Jobs, Holding
    <2> PICK side \in Sides : side = SideOf(new.job)
        BY DEF SideOf, Sides
    <2>3. Fast(new, side) /\ ~Fast(thread[t], side)
        BY <1>3, <1>5, <2>2 DEF Fast
    <2>4. waiting[side] = 0
        BY <1>1, <2>3 DEF Single, Faster
    <2>5. QED
        BY <1>2, <2>4, CountedWaiters
<1>6. Goes(thread[t], new)
    BY <1>1 DEF Single
<1>7. QED
    BY <1>1, <1>2, <1>5, <1>6, SteadyCalm, SameThin

LEMMA OtherCalm ==
    ASSUME QueueInv, BaseInv', NEW t \in Threads, Lock(t) \/ Complete(t) PROVE Calm(t)
<1> DEFINE th == thread[t]
<1> PICK new : new = thread'[t]
    OBVIOUS
<1>1. SteadyStep(t) /\ BaseInv /\ UNCHANGED <<calls, pending>>
    BY LockSteady, CompleteSteady DEF QueueInv, Lock, Complete, queueVars, waiters
<1>2. Goes(th, new) /\ ~Transferring(new)
    <2>1. CASE Lock(t) /\ th.goal = "service"
        <3>1. new = Scan(th, pending) /\ th.pc # "idle" /\ DOMAIN th = ThreadFields
            BY <2>1, Known DEF Lock, At
        <3>2. QED
            BY <3>1, ScanOnward, OnwardGoes
    <2>2. CASE Lock(t) /\ th.goal # "service"
        <3>1. new = [th EXCEPT !.pc = Entrance[th.goal]] /\ th.pc = "lock"
            BY <2>2, Known DEF Lock, At
        <3>2. th.goal \in {"start", "close", "abort", "cancel"}
            BY <2>2, <3>1, Known DEF Shape
        <3>3. new.pc \in {"admit", "close", "abort", "cancel"} /\ new.call = th.call /\ new.goal = th.goal
            BY <3>1, <3>2, Known, Fields DEF Entrance
        <3>4. QED
            BY <3>1, <3>3 DEF Goes, Transferring
    <2>3. CASE Complete(t)
        <3> PICK mid : mid = [th EXCEPT !.done = Tail(th.done)]
            OBVIOUS
        <3>1. new = Return(t, mid) /\ th.pc = "complete"
            BY <2>3, Known DEF Complete, At
        <3>2. DOMAIN mid = ThreadFields /\ mid.call = th.call /\ mid.goal = th.goal
            BY Known, Fields
        <3>3. QED
            BY <3>1, <3>2, ReturnGoes
    <2>4. QED
        BY <2>1, <2>2, <2>3
<1>3. QED
    BY <1>1, <1>2, SteadyCalm, SameThin

LEMMA EndCalm ==
    ASSUME QueueInv, BaseInv', NEW k \in Controllers, Close(k) \/ Abort(k) PROVE Calm(k)
<1>1. k \in Threads /\ SteadyStep(k) /\ UNCHANGED <<calls, pending>> /\ BaseInv
    BY EndQueueSteady, Names DEF Close, Abort, EndQueue, QueueInv, queueVars, waiters
<1>2. thread'[k].pc = "lock" /\ thread'[k].call = None
    BY <1>1, Known DEF Close, Abort, EndQueue, NewThread
<1>3. ~Transferring(thread'[k]) /\ thread'[k].call \notin Operations
    BY <1>2, NamesAssumption DEF Transferring, Calls
<1>4. QED
    BY <1>1, <1>3, SteadyCalm, SameThin

LEMMA StopCalm ==
    ASSUME QueueInv, BaseInv', NEW x \in Stoppable, RequestStop(x) PROVE Calm(x)
<1>1. x \in Threads /\ x \notin Owners /\ SteadyStep(x) /\ UNCHANGED <<calls, pending>> /\ BaseInv
    BY RequestStopSteady, Names DEF RequestStop, QueueInv, queueVars, waiters, Owners
<1>2. thread'[x].pc \in {"lock", "idle"}
    <2>1. CASE op[x].registered
        <3> PICK new : new = [NewThread EXCEPT !.pc = "lock", !.goal = "cancel", !.call = x]
            OBVIOUS
        <3>1. new.pc = "lock" /\ thread'[x] = new
            BY <1>1, <2>1, Known DEF RequestStop, NewThread
        <3>2. QED
            BY <3>1
    <2>2. CASE ~op[x].registered
        BY <2>2 DEF RequestStop, At
    <2>3. QED
        BY <2>1, <2>2
<1>3. ~Transferring(thread'[x])
    BY <1>2 DEF Transferring
<1>4. QED
    BY <1>1, <1>3, SteadyCalm, SameThin

LEMMA TryCalm ==
    ASSUME QueueInv, BaseInv', NEW t \in Threads,
           \/ t \in Producers /\ \E v \in TryValues : TryPush(t, v)
           \/ t \in Consumers /\ TryPop(t)
    PROVE  Calm(t)
<1>1. SteadyStep(t) /\ UNCHANGED <<calls, pending>> /\ BaseInv
    BY Names, TryPushSteady, TryPopSteady DEF TryPush, TryPop, QueueInv, queueVars, waiters
<1>2. thread'[t].pc \in {"enter", "poll"} /\ thread'[t].call \in TryValues \cup {None}
    <2>1. ASSUME NEW v \in TryValues, TryPush(t, v) PROVE thread'[t].pc = "enter" /\ thread'[t].call = v
        BY <2>1, Known DEF TryPush, NewThread
    <2>2. ASSUME TryPop(t) PROVE thread'[t].pc = "poll" /\ thread'[t].call = None
        BY <2>2, Known DEF TryPop, NewThread
    <2>3. QED
        BY <2>1, <2>2
<1>3. ~Transferring(thread'[t]) /\ thread'[t].call \notin Operations
    BY <1>2, NamesAssumption DEF Transferring, Calls
<1>4. QED
    BY <1>1, <1>3, SteadyCalm, SameThin
-----------------------------------------------------------------------------
(* A thread that goes on under the lock. *)
LEMMA ScanStays ==
    ASSUME NEW mid, DOMAIN mid = ThreadFields, NEW lists, NEW side
    PROVE  ~Transferring(Scan(mid, lists)) /\ ~Transferring(AfterFront(mid, side, lists))
BY ScanOnward, AfterFrontOnward DEF Onward, Transferring

LEMMA DrainCalm ==
    ASSUME QueueInv, NEW t \in Threads, NEW sides \in SUBSET Sides, NEW result, DrainAll(t, sides, result)
    PROVE  ~Transferring(thread'[t]) /\ \A side \in Sides : Thinner(pending'[side], pending[side])
<1>1. /\ \A side \in Sides : pending'[side] = IF side \in sides THEN << >> ELSE pending[side]
      /\ "pop" \in sides => thread'[t].pc = "unlock"
      /\ "pop" \notin sides => \E mid : DOMAIN mid = ThreadFields /\ thread'[t] = Scan(mid, pending')
    BY DrainedLists
<1>2. \A side \in Sides : pending[side] \in Seq(Operations)
    BY PendingTypes DEF QueueInv
<1>3. ~Transferring(thread'[t])
    <2>1. CASE "pop" \in sides
        BY <1>1, <2>1 DEF Transferring
    <2>2. CASE "pop" \notin sides
        BY <1>1, <2>2, ScanStays
    <2>3. QED
        BY <2>1, <2>2
<1>4. QED
    BY <1>1, <1>2, <1>3, Thinned

LEMMA LockedTurn ==
    ASSUME QueueInv, BaseInv', NEW t \in Threads, LockedStep(t), ~Park(t)
    PROVE  /\ \A side \in Sides : Thinner(pending'[side], pending[side])
           /\ Transferring(thread'[t]) /\ thread'[t].from # "front" =>
                pending'[SideOf(thread'[t].job)] = << >>
<1> DEFINE th == thread[t]
           thin == \A side \in Sides : Thinner(pending'[side], pending[side])
<1> PICK new : new = thread'[t]
    OBVIOUS
<1>0. BaseInv /\ \A side \in Sides : pending[side] \in Seq(Operations)
    BY PendingTypes DEF QueueInv
<1>1. pending' = pending => thin
    BY <1>0, SameThin
<1> HIDE DEF thin
<1>2. CASE AdmitStopped(t)
    <2> PICK mid : mid = [th EXCEPT !.ok = FALSE]
        OBVIOUS
    <2>1. DOMAIN mid = ThreadFields /\ new = Scan(mid, pending) /\ pending' = pending
        BY <1>2, Known, Fields DEF AdmitStopped, queueVars, waiters
    <2>2. QED
        BY <1>1, <2>1, ScanStays DEF thin
<1>3. CASE AdmitRefused(t) \/ Settle(t)
    <2> PICK mid : mid = [th EXCEPT !.done = Append(th.done, Call(t))]
        OBVIOUS
    <2>1. DOMAIN mid = ThreadFields /\ new = Scan(mid, pending) /\ pending' = pending
        BY <1>3, Known, Fields DEF AdmitRefused, Settle, Settled, queueVars, waiters
    <2>2. QED
        BY <1>1, <2>1, ScanStays DEF thin
<1>4. CASE AdmitReserved(t)
    <2>1. pending' = pending /\ (HasOlder(Call(t)) => new.pc = "park")
        BY <1>4, Known, Fields DEF AdmitReserved, Goto
    <2>2. ~HasOlder(Call(t)) => new.job = Call(t)
        BY <1>4, Known, Fields DEF AdmitReserved, Transfer
    <2>3. QED
        BY <1>1, <2>1, <2>2 DEF HasOlder, thin, Transferring
<1>5. ASSUME NEW side \in Sides, Front(t, side)
      PROVE  thin /\ (Transferring(new) => new.from = "front")
    <2>1. pending' = pending /\ (new.from = "front" \/ new.pc = "drop")
        BY <1>5, Known, Fields DEF Front, Transfer, queueVars, waiters
    <2>2. QED
        BY <1>1, <2>1 DEF Transferring
<1>6. CASE Drop(t)
    <2> PICK x : x = th.job
        OBVIOUS
    <2> PICK side : side = SideOf(x)
        OBVIOUS
    <2> PICK mid : mid = [th EXCEPT !.progress = TRUE, !.done = Append(th.done, x)]
        OBVIOUS
    <2>1. /\ pending' = [pending EXCEPT ![side] = Tail(pending[side])] /\ side \in Sides
          /\ DOMAIN mid = ThreadFields /\ new = AfterFront(mid, side, pending')
        BY <1>6, Known, Fields DEF Drop, SideOf, Sides
    <2>2. pending[side] # << >>
        BY <1>0, <1>6 DEF Drop, At, BaseInv, Heads, Fronting
    <2>3. pending'[side] = Tail(pending[side]) /\ \A other \in Sides : other # side => pending'[other] = pending[other]
        BY <1>0, <2>1 DEF BaseInv, Types
    <2>4. thin
        BY <1>0, <2>1, <2>2, <2>3, Thinned DEF thin
    <2>5. QED
        BY <2>1, <2>4, ScanStays DEF thin
<1>7. CASE Sweep(t) \/ SetLifecycle(t) \/ MarkStopRequested(t)
    <2>1. pending' = pending /\ new.pc \in {"sweep.all", "unlock", "fail"}
        BY <1>7, Known, Fields DEF Sweep, SetLifecycle, MarkStopRequested, Goto, queueVars, waiters
    <2>2. QED
        BY <1>1, <2>1 DEF thin, Transferring
<1>8. CASE StopConsumers(t) \/ FailPending(t)
    <2>1. {"pop"} \in SUBSET Sides /\ {"push"} \in SUBSET Sides /\ {"push", "pop"} \in SUBSET Sides
        BY DEF Sides
    <2>2. QED
        BY <1>8, <2>1, DrainCalm DEF StopConsumers, FailPending
<1>9. CASE CancelOperation(t)
    <2> PICK x : x = Call(t)
        OBVIOUS
    <2> PICK side : side = SideOf(x)
        OBVIOUS
    <2>1. new.pc \in {"unlock", "mark"}
        BY <1>9, Known, Fields DEF CancelOperation, Goto
    <2>2. thin
        <3>1. CASE ~Cancellable(x)
            BY <1>1, <1>9, <3>1 DEF CancelOperation, waiters
        <3>2. CASE Cancellable(x)
            <4>1. x \in Operations /\ side \in Sides
                BY <1>9, Known, Names DEF CancelOperation, At, Shape, Call, SideOf, Sides
            <4>2. pending' = [pending EXCEPT ![side] = Without(pending[side], x)]
                BY <1>9, <3>2 DEF CancelOperation
            <4>3. /\ pending'[side] = Without(pending[side], x)
                  /\ \A other \in Sides : other # side => pending'[other] = pending[other]
                BY <1>0, <4>1, <4>2 DEF BaseInv, Types
            <4>4. ListedIn(pending[side], x)
                BY <1>0, <3>2, <4>1 DEF Cancellable, BaseInv, PendingPhase
            <4>5. QED
                BY <1>0, <4>3, <4>4, Thinned DEF thin
        <3>3. QED
            BY <3>1, <3>2
    <2>3. QED
        BY <2>1, <2>2 DEF thin, Transferring
<1>10. CASE Unlock(t)
    <2>1. new = Return(t, th) /\ pending' = pending
        BY <1>10, Known DEF Unlock, waiters
    <2>2. QED
        BY <1>1, <2>1, ReturnApart, Known DEF thin, Apart
<1>11. QED
    BY <1>2, <1>3, <1>4, <1>5, <1>6, <1>7, <1>8, <1>9, <1>10 DEF LockedStep, thin, Sides

LEMMA LockedCalm ==
    ASSUME QueueInv, BaseInv', NEW t \in Threads, LockedStep(t), ~Park(t) PROVE Calm(t)
<1>1. SteadyStep(t) /\ BaseInv /\ calls' = calls
    BY LockedStepSteady, LockedStepLeaves DEF QueueInv
<1>2. CASE ~AdmitReserved(t)
    <2>1. Goes(thread[t], thread'[t])
        BY <1>1, <1>2, LockedStepSingle DEF Single
    <2>2. QED
        BY <1>1, <2>1, LockedTurn, SteadyCalm
<1>3. CASE AdmitReserved(t)
    <2>1. thread[t].pc = "admit" /\ thread'[t].call = thread[t].call /\ thread'[t].goal = thread[t].goal
        BY <1>3, Known, Fields DEF AdmitReserved, Goto, Transfer, At
    <2>2. Goes(thread[t], thread'[t])
        BY <2>1 DEF Goes
    <2>3. QED
        BY <1>1, <2>2, LockedTurn, SteadyCalm
<1>4. QED
    BY <1>2, <1>3
-----------------------------------------------------------------------------
LEMMA PushedSome ==
    ASSUME QueueInv, NEW x \in Pushes
    PROVE  Pushed(x) # 0 <=> \E m \in 1 .. Len(log) : log[m][1] = x
<1>1. Pushed(x) \in Nat /\ log \in Seq(Values) /\ Len(log) \in Nat
    BY PushedCounts, LenProperties DEF QueueInv, ValueInv, IInv, StorageTypeOK
<1>2. PICK b \in Nat : Block(log, x, b, Pushed(x))
    BY PushedCounts
<1>3. ASSUME Pushed(x) # 0 PROVE b + 1 \in 1 .. Len(log) /\ log[b + 1][1] = x
    BY <1>1, <1>2, <1>3 DEF Block
<1>4. ASSUME NEW m \in 1 .. Len(log), log[m][1] = x PROVE Pushed(x) # 0
    BY <1>1, <1>2, <1>4 DEF Block
<1>5. QED
    BY <1>3, <1>4

(* What the ring was given and what was taken from it stays so.            *)
LEMMA RingGrows ==
    ASSUME QueueInv, [Next]_vars
    PROVE  /\ Len(log) \in Nat /\ Len(log') \in Nat /\ Len(log) <= Len(log')
           /\ \A m \in 1 .. Len(log) : log'[m] = log[m]
           /\ TakenOut \subseteq TakenOut'
<1>1. log \in Seq(Values) /\ Len(log) \in Nat /\ taken \in Nat /\ taken <= Len(log)
    BY TakenTypes, LenProperties DEF QueueInv, ValueInv, IInv, StorageTypeOK
<1>2. /\ Len(log') \in Nat /\ Len(log) <= Len(log')
      /\ \A m \in 1 .. Len(log) : log'[m] = log[m]
    <2>1. CASE log' = log
        BY <1>1, <2>1
    <2>2. ASSUME NEW e \in Values, log' = Append(log, e)
          PROVE  /\ Len(log') \in Nat /\ Len(log) <= Len(log')
                 /\ \A m \in 1 .. Len(log) : log'[m] = log[m]
        BY <1>1, <2>2, AppendProperties
    <2>3. QED
        BY <2>1, <2>2, NextLog
<1>3. taken' = taken \/ taken' = taken + 1
    BY NextTakes DEF Takes, TakesNothing
<1>4. QED
    BY <1>1, <1>2, <1>3 DEF TakenOut

LEMMA PhasesLeft ==
    ASSUME QueueInv, [Next]_vars, NEW o \in Operations, op[o].phase # "Constructed"
    PROVE  op'[o].phase # "Constructed"
<1>1. CASE UNCHANGED vars
    BY <1>1 DEF vars
<1>2. ASSUME NEW t \in Threads, TransferStep(t) PROVE op'[o].phase # "Constructed"
    <2>1. JobMoved(thread[t].job)
        BY <1>2, TransferMoved DEF Moved
    <2>2. QED
        BY <2>1 DEF JobMoved
<1>3. ASSUME NEW t \in Threads, Flush(t) PROVE op'[o].phase # "Constructed"
    BY <1>3 DEF Flush
<1>4. CASE Next /\ ~\E t \in Threads : TransferStep(t) \/ Flush(t)
    BY <1>4, NextSteady DEF SteadyStep, Steady, OpSteady
<1>5. QED
    BY <1>1, <1>2, <1>3, <1>4

LEMMA NextMade == ASSUME QueueInv, QueueInv', [Next]_vars PROVE MadeStays
<1> SUFFICES ASSUME NEW x \in Calls \cup Elements, Made(x) PROVE Made(x)'
    BY DEF MadeStays
<1>1. x \in Operations => op'[x].phase # "Constructed"
    BY PhasesLeft DEF Made
<1>2. x \in Elements => x \in TakenOut'
    BY RingGrows DEF Made
<1>3. x \in TryValues => Pushed(x)' # 0
    <2> SUFFICES ASSUME x \in TryValues PROVE Pushed(x)' # 0
        OBVIOUS
    <2>1. x \in Pushes
        BY DEF Pushes
    <2>2. PICK m \in 1 .. Len(log) : log[m][1] = x
        BY <2>1, PushedSome DEF Made
    <2>3. m \in 1 .. Len(log') /\ log'[m][1] = x
        BY <2>2, RingGrows
    <2> PICK n \in Nat : n = Len(log')
        BY RingGrows
    <2> DEFINE mine == {i \in 1 .. n : log'[i][1] = x}
    <2>4. IsFiniteSet(mine) /\ mine # {}
        <3>1. IsFiniteSet(1 .. n) /\ mine \subseteq 1 .. n
            BY FS_Interval
        <3>2. QED
            BY <2>3, <3>1, FS_Subset
    <2>5. Cardinality(mine) # 0
        BY <2>4, FS_EmptySet
    <2>6. QED
        BY <2>5 DEF Pushed
<1>4. QED
    BY <1>1, <1>2, <1>3 DEF Made
-----------------------------------------------------------------------------
(* A step of a transfer keeps the thread where its turn is, ...            *)
TurnKept(t) ==
    /\ OnlyThread(t) /\ pending' = pending
    /\ t \in Owners /\ thread'[t].call \in Operations => thread'[t].call = Call(t)
    /\ Transferring(thread'[t]) /\ thread'[t].from # "front" =>
         /\ Transferring(thread[t]) /\ thread[t].from # "front"
         /\ SideOf(thread'[t].job) = SideOf(thread[t].job)

(* ... and a value that was tried or polled may be added to its calls.     *)
AddsValue(t) ==
    \/ calls' = calls
    \/ \E y : /\ Enters(t, y) /\ y \notin Operations /\ Call(t) \notin Operations
              /\ Made(y)' /\ (y \in Calls => ~Made(y))

LEMMA TransferTurns ==
    ASSUME QueueInv, BaseInv', NEW t \in Threads, TransferStep(t) PROVE TurnKept(t)
<1> DEFINE th == thread[t]
<1> PICK new : new = thread'[t]
    OBVIOUS
<1>1. BaseInv /\ OnlyThread(t) /\ pending' = pending
    BY TransferLists DEF QueueInv
<1>2. t \in Owners /\ new.call \in Operations => new.call = th.call
    <2>1. Goes(th, new)
        BY <1>1, TransferStepSingle DEF Single
    <2>2. new.pc = "idle" => new = NewThread
        BY DEF BaseInv, Shapes, Shape
    <2>3. new.pc = "idle" => new.call \notin Operations
        BY <2>2, IdleThread, NamesAssumption DEF Calls
    <2>4. QED
        BY <2>1, <2>3 DEF Goes
<1>3. Transferring(new) => Transferring(th) /\ new.from = th.from /\ new.job = th.job
    <2>1. CASE thread' = thread
        BY <2>1
    <2>2. ASSUME NEW r, thread' = [thread EXCEPT ![t] = r], GoesOn(r, th) \/ \E result : r = Back(th, result)
          PROVE  Transferring(r) => r.from = th.from /\ r.job = th.job
        <3>1. CASE GoesOn(r, th)
            BY <3>1 DEF GoesOn
        <3>2. ASSUME NEW result, r = Back(th, result) PROVE ~Transferring(r)
            <4>1. th.pc # "idle" /\ th.from \in {"fast", "poll", "reserved", "front"} /\ DOMAIN th = ThreadFields
                BY <1>1, TransferMoves, Shaped DEF Jobs, Transferring
            <4>2. QED
                BY <3>2, <4>1, BackGoes
        <3>3. QED
            BY <2>2, <3>1, <3>2
    <2>3. ASSUME NEW r, thread' = [thread EXCEPT ![t] = r] PROVE new = r
        BY <1>1, <2>3, Shaped
    <2>4. QED
        BY <1>1, <2>1, <2>2, <2>3, TransferMoves
<1>4. QED
    BY <1>1, <1>2, <1>3 DEF TurnKept, Call

LEMMA WaitingKept ==
    ASSUME QueueInv, NEW t, TurnKept(t), AddsValue(t),
           NEW side \in Sides, NEW u \in Owners, NEW i \in Nat, Waiting(side, u, i)'
    PROVE  Waiting(side, u, i)
<1>1. pending' = pending /\ pending[side] \in Seq(Operations)
    BY PendingTypes DEF TurnKept, QueueInv
<1>2. i \in 1 .. Len(calls'[u]) /\ ListedIn(pending[side], calls'[u][i])
    BY <1>1 DEF Waiting
<1>3. calls'[u][i] \in Operations
    <2>1. PICK k \in 1 .. Len(pending[side]) : pending[side][k] = calls'[u][i]
        BY <1>2 DEF ListedIn
    <2>2. QED
        BY <1>1, <2>1, ElementOfSeq
<1>4. CASE calls' = calls
    BY <1>1, <1>2, <1>4 DEF Waiting
<1>5. ASSUME NEW y, Enters(t, y), y \notin Operations PROVE Waiting(side, u, i)
    BY <1>2, <1>3, <1>5, CallsGrow DEF Waiting
<1>6. QED
    BY <1>4, <1>5 DEF AddsValue

LEMMA GivenOrder ==
    ASSUME QueueInv, OrderInv, MadeStays, NEW t \in Threads, TurnKept(t), AddsValue(t),
           Waits', Ordered'
    PROVE  OrderInv'
<1>1. LastCall'
    <2>1. ASSUME NEW u \in Owners, thread'[u].call \in Operations PROVE thread[u].call = thread'[u].call
        BY <2>1, Names DEF TurnKept, OnlyThread, Call, Owners
    <2>2. ASSUME NEW u \in Owners, thread'[u].call \in Operations PROVE calls'[u] = calls[u]
        <3>1. u = t => calls' = calls
            BY <2>1, <2>2 DEF AddsValue, Call
        <3>2. QED
            BY <2>2, <3>1, CallsGrow DEF AddsValue
    <2>3. QED
        BY <2>1, <2>2 DEF OrderInv, LastCall, Call
<1>2. CalledOnce'
    BY CalledStep DEF AddsValue, OrderInv
<1>3. InLine'
    <2>1. ASSUME NEW side \in Sides, NEW k \in 1 .. Len(pending[side]), NEW l \in 1 .. Len(pending[side]),
                 k < l, NEW u \in Owners, NEW i \in 1 .. Len(calls'[u]), NEW j \in 1 .. Len(calls'[u]),
                 calls'[u][i] = pending[side][k], calls'[u][j] = pending[side][l]
          PROVE  i < j
        <3>1. pending[side] \in Seq(Operations)
            BY PendingTypes DEF QueueInv
        <3>2. calls'[u][i] \in Operations /\ calls'[u][j] \in Operations
            BY <2>1, <3>1, ElementOfSeq
        <3>3. /\ i \in 1 .. Len(calls[u]) /\ calls'[u][i] = calls[u][i]
              /\ j \in 1 .. Len(calls[u]) /\ calls'[u][j] = calls[u][j]
            BY <3>2, CallsGrow DEF AddsValue
        <3>4. QED
            BY <2>1, <3>3 DEF OrderInv, InLine
    <2>2. pending' = pending
        BY DEF TurnKept
    <2>3. QED
        BY <2>1, <2>2 DEF InLine
<1>4. Turns'
    <2>1. ASSUME NEW u \in Owners, Transferring(thread'[u]), thread'[u].from # "front",
                 NEW side, side = SideOf(thread'[u].job), NEW i \in Nat, Waiting(side, u, i)'
          PROVE  FALSE
        <3>1. side \in Sides
            BY <2>1 DEF SideOf, Sides
        <3>2. Waiting(side, u, i)
            BY <2>1, <3>1, WaitingKept
        <3>3. u \in Threads
            BY Names DEF Owners
        <3>4. Transferring(thread[u]) /\ thread[u].from # "front" /\ side = SideOf(thread[u].job)
            BY <2>1, <3>3 DEF TurnKept, OnlyThread
        <3>5. QED
            BY <2>1, <3>2, <3>4 DEF OrderInv, Turns
    <2>2. QED
        BY <2>1 DEF Turns
<1>5. QED
    BY <1>1, <1>2, <1>3, <1>4 DEF OrderInv
-----------------------------------------------------------------------------
(* The only change in what calls got: x has position n, the next one.      *)
OnlyGets(s, x, n) ==
    /\ \A y : \A m \in Nat : Got(s, y, m) => m < n
    /\ \A side \in Sides, m \in Nat : \A y \in Calls \cup Elements : Made(y) /\ Got(side, y, m)' =>
         Got(side, y, m) \/ (side = s /\ y = x /\ m = n)

GetsFirst(s, x, n) ==
    \A side \in Sides, m \in Nat : Got(side, x, m)' => side = s /\ m = n

LEMMA ListedCall ==
    ASSUME QueueInv, CalledOnce, NEW u \in Owners, NEW i \in 1 .. Len(calls[u])
    PROVE  calls[u][i] \in Calls \cup Elements /\ Made(calls[u][i])
BY CallTypes DEF CalledOnce

(* A transfer for an operation, in its turn. *)
LEMMA TurnGets ==
    ASSUME QueueInv, OrderInv, NEW t \in Threads, TurnKept(t), calls' = calls,
           Transferring(thread[t]), NEW x \in Operations, x = thread[t].job,
           NEW n \in Nat, OnlyGets(SideOf(x), x, n)
    PROVE  Waits' /\ Ordered'
<1> PICK s \in Sides : s = SideOf(x)
    BY DEF SideOf, Sides
<1>1. \A side \in Sides, u \in Owners : \A i \in Nat : Waiting(side, u, i)' => Waiting(side, u, i)
    BY WaitingKept DEF AddsValue
<1>2. ASSUME NEW side \in Sides, NEW u \in Owners, NEW i \in Nat, NEW m \in Nat, Has(side, u, i, m)'
      PROVE  \/ Has(side, u, i, m)
             \/ side = s /\ m = n /\ i \in 1 .. Len(calls[u]) /\ calls[u][i] = x
    <2> PICK y : y = calls[u][i]
        OBVIOUS
    <2>1. i \in 1 .. Len(calls[u]) /\ Got(side, y, m)'
        BY <1>2 DEF Has, Got, TakenBy
    <2>2. y \in Calls \cup Elements /\ Made(y)
        BY <2>1, ListedCall DEF OrderInv
    <2>3. QED
        BY <2>1, <2>2 DEF Has, OnlyGets
<1>3. ASSUME NEW u \in Owners, NEW k \in 1 .. Len(calls[u]), calls[u][k] = x PROVE Waits' /\ Ordered'
    <2>1. k \in Nat /\ \A v \in Owners : \A i \in 1 .. Len(calls[v]) : calls[v][i] = x => v = u /\ i = k
        BY <1>3 DEF OrderInv, CalledOnce, Calls
    <2>2. \A side \in Sides, v \in Owners : \A i, m \in Nat : Has(side, v, i, m)' =>
            Has(side, v, i, m) \/ (side = s /\ v = u /\ i = k /\ m = n)
        BY <1>2, <2>1
    <2>3. \A i, m \in Nat : Has(s, u, i, m) => m < n
        BY DEF Has, OnlyGets
    <2>4. /\ \A j, m \in Nat : k < j => ~Has(s, u, j, m)
          /\ \A i \in Nat : i < k => ~Waiting(s, u, i)
        BY <1>3, OnTurn
    <2>5. Grants(s, u, k, n)
        BY <1>1, <2>2, <2>3, <2>4 DEF Grants
    <2>6. QED
        BY <2>1, <2>5, OneGot DEF OrderInv
<1>4. CASE ~\E u \in Owners : \E k \in 1 .. Len(calls[u]) : calls[u][k] = x
    <2>1. \A side \in Sides, v \in Owners : \A i, m \in Nat : Has(side, v, i, m)' => Has(side, v, i, m)
        BY <1>2, <1>4
    <2>2. \A u \in Owners : Len(calls'[u]) \in Nat
        BY CallTypes
    <2>3. QED
        BY <1>1, <2>1, <2>2, NothingGot DEF OrderInv
<1>5. QED
    BY <1>3, <1>4

(* A value that was tried, or came out of a poll. *)
LEMMA NewGets ==
    ASSUME QueueInv, OrderInv, NEW t \in Threads, TurnKept(t), AddsValue(t),
           Transferring(thread[t]), thread[t].from # "front",
           NEW s \in Sides, s = SideOf(thread[t].job), NEW y, Enters(t, y), ~Made(y),
           NEW n \in Nat, OnlyGets(s, y, n), GetsFirst(s, y, n)
    PROVE  Waits' /\ Ordered'
<1>1. \A side \in Sides, u \in Owners : \A i \in Nat : Waiting(side, u, i)' => Waiting(side, u, i)
    BY WaitingKept
<1> PICK u \in Owners : u = t
    BY DEF Enters
<1> PICK k : k = Len(calls[u]) + 1
    OBVIOUS
<1>2. Len(calls[u]) \in Nat /\ k \in Nat
    BY CallTypes
<1>3. ASSUME NEW side \in Sides, NEW v \in Owners, NEW i \in Nat, NEW m \in Nat, Has(side, v, i, m)'
      PROVE  Has(side, v, i, m) \/ (side = s /\ v = u /\ i = k /\ m = n)
    <2> PICK z : z = calls'[v][i]
        OBVIOUS
    <2>1. i \in 1 .. Len(calls'[v]) /\ Got(side, z, m)'
        BY <1>3 DEF Has, Got, TakenBy
    <2>2. CASE i \in 1 .. Len(calls[v]) /\ z = calls[v][i]
        <3>1. z \in Calls \cup Elements /\ Made(z)
            BY <2>2, ListedCall DEF OrderInv
        <3>2. z # y
            BY <3>1
        <3>3. QED
            BY <2>1, <2>2, <3>1, <3>2 DEF Has, OnlyGets
    <2>3. CASE v = u /\ i = k /\ z = y
        BY <2>1, <2>3 DEF GetsFirst
    <2>4. QED
        BY <2>1, <2>2, <2>3, CallsGrow
<1>4. \A i, m \in Nat : Has(s, u, i, m) => m < n
    BY DEF Has, OnlyGets
<1>5. \A j, m \in Nat : k < j => ~Has(s, u, j, m)
    BY <1>2 DEF Has
<1>6. \A i \in Nat : i < k => ~Waiting(s, u, i)
    BY <1>2 DEF OrderInv, Turns
<1>7. \A side \in Sides, v \in Owners : \A i, m \in Nat : Has(side, v, i, m)' =>
        Has(side, v, i, m) \/ (side = s /\ v = u /\ i = k /\ m = n)
    BY <1>3
<1>8. Grants(s, u, k, n)
    BY <1>1, <1>4, <1>5, <1>6, <1>7 DEF Grants
<1>9. QED
    BY <1>2, <1>8, OneGot DEF OrderInv
-----------------------------------------------------------------------------
LEMMA SideNames ==
    ASSUME NEW x
    PROVE  /\ x \in PushOps \cup TryValues => SideOf(x) = "push"
           /\ x \in PopOps \cup {None} => SideOf(x) = "pop"
           /\ "push" \in Sides /\ "pop" \in Sides
BY NamesAssumption DEF SideOf, IsPush, Sides, Calls, Operations

(* A value is no call. *)
LEMMA ElementNames ==
    ASSUME NEW e \in Elements PROVE e \notin Calls /\ e \notin Operations /\ e \notin PopOps /\ e \notin TryValues
BY FiniteAssumption DEF Calls, Operations

LEMMA PushGets ==
    ASSUME QueueInv, NEW t \in Threads, NEW x, x = thread[t].job, Gives(t, x), NEW n, n = Len(log) + 1
    PROVE  /\ n \in Nat /\ x \in Pushes /\ OnlyGets("push", x, n)
           /\ x \in TryValues => ~Made(x) /\ Made(x)' /\ GetsFirst("push", x, n)
<1>1. Placing(thread[t]) /\ x \in Pushes /\ x \in Calls /\ x \notin PopOps /\ SideOf(x) = "push"
    BY Pusher, SideNames DEF Gives, Placing, Pushes
<1>2. /\ log \in Seq(Values) /\ Len(log) \in Nat /\ n \in Nat
      /\ taken \in Nat /\ taken <= Len(log) /\ taken' = taken
    BY TakenTypes, LenProperties DEF QueueInv, ValueInv, IInv, StorageTypeOK, Gives
<1> PICK e : e = <<x, Pushed(x) + 1>>
    OBVIOUS
<1>3. /\ Len(log') = n /\ log'[n] = e /\ e[1] = x
      /\ \A i \in 1 .. Len(log) : log'[i] = log[i]
    BY <1>2, AppendProperties DEF Gives, Appends
<1>4. \A m : m \in 1 .. n => m \in 1 .. Len(log) \/ m = n
    BY <1>2
<1>5. ASSUME NEW side \in Sides, NEW y, NEW m \in Nat, Got(side, y, m)'
      PROVE  Got(side, y, m) \/ (side = "push" /\ y = x /\ m = n)
    <2>1. CASE side = "push"
        BY <1>3, <1>4, <1>5, <2>1 DEF Got
    <2>2. CASE side # "push"
        <3>1. m \in 1 .. taken /\ ListedIn(TakenBy(y)', log'[m])
            BY <1>2, <1>5, <2>2 DEF Got
        <3>2. log'[m] = log[m]
            BY <1>2, <1>3, <3>1
        <3>3. TakenBy(y)' = TakenBy(y)
            BY DEF TakenBy, Gives, KeepsMoved
        <3>4. QED
            BY <2>2, <3>1, <3>2, <3>3 DEF Got
    <2>3. QED
        BY <2>1, <2>2
<1>6. OnlyGets("push", x, n)
    <2>1. \A y : \A m \in Nat : Got("push", y, m) => m < n
        BY <1>2 DEF Got
    <2>2. QED
        BY <1>5, <2>1 DEF OnlyGets
<1>7. ASSUME x \in TryValues PROVE ~Made(x) /\ Made(x)' /\ GetsFirst("push", x, n)
    <2>1. Pushed(x) \in Nat /\ SizeOf(x) = 1 /\ (Pushed(x) = 0 \/ Midway(x))
        BY <1>1, <1>7, Pusher DEF Gives, SizeOf
    <2>2. Pushed(x) = 0
        BY <2>1 DEF Midway
    <2>3. Pushed(x)' # 0
        BY <1>1, <2>1, AppendTogether DEF Gives, Appends
    <2>4. x \notin Operations /\ x \notin Elements
        BY <1>1, <1>7, ElementNames, NamesAssumption
    <2>5. ~Made(x) /\ Made(x)'
        BY <1>7, <2>2, <2>3, <2>4 DEF Made
    <2>6. ASSUME NEW side \in Sides, NEW m \in Nat, Got(side, x, m) PROVE FALSE
        <3>1. CASE side = "push"
            BY <1>1, <2>2, <2>6, <3>1, PushedSome DEF Got
        <3>2. CASE side # "push"
            <4>1. TakenBy(x) = << >>
                BY <1>1, <2>4 DEF TakenBy
            <4>2. QED
                BY <2>6, <3>2, <4>1, ListedFew DEF Got
        <3>3. QED
            BY <3>1, <3>2
    <2>7. QED
        BY <1>5, <2>5, <2>6 DEF GetsFirst
<1>8. QED
    BY <1>1, <1>2, <1>6, <1>7

LEMMA GivesOrder ==
    ASSUME QueueInv, OrderInv, MadeStays, NEW t \in Threads, TurnKept(t),
           NEW x, x = thread[t].job, Gives(t, x)
    PROVE  OrderInv'
<1> PICK n : n = Len(log) + 1
    OBVIOUS
<1>1. /\ n \in Nat /\ x \in Pushes /\ OnlyGets("push", x, n)
      /\ x \in TryValues => ~Made(x) /\ Made(x)' /\ GetsFirst("push", x, n)
    BY PushGets
<1>2. Transferring(thread[t]) /\ SideOf(x) = "push" /\ "push" \in Sides
    BY <1>1, SideNames DEF Transferring, Gives, Pushes
<1>3. CASE x \in TryValues
    <2>1. thread[t].from = "fast" /\ Call(t) = x /\ t \in Owners
        BY <1>2, <1>3, TriedFast DEF QueueInv, Owners, Call
    <2>2. x \in Calls /\ x \notin Operations
        BY <1>3, NamesAssumption DEF Calls
    <2>3. Enters(t, x)
        BY <1>3, <2>1, <2>2 DEF Enters, Gives
    <2>4. AddsValue(t)
        BY <1>1, <1>3, <2>1, <2>2, <2>3 DEF AddsValue
    <2>5. Waits' /\ Ordered'
        BY <1>1, <1>2, <1>3, <2>1, <2>3, <2>4, NewGets
    <2>6. QED
        BY <2>4, <2>5, GivenOrder
<1>4. CASE x \notin TryValues
    <2>1. x \in Operations /\ calls' = calls
        BY <1>1, <1>4 DEF Pushes, Operations, Gives
    <2>2. Waits' /\ Ordered'
        BY <1>1, <1>2, <2>1, TurnGets
    <2>3. QED
        BY <2>1, <2>2, GivenOrder DEF AddsValue
<1>5. QED
    BY <1>3, <1>4
-----------------------------------------------------------------------------
(* The value at the head has not been taken, and is no call's yet.         *)
LEMMA HeadIsNew ==
    ASSUME QueueInv, Origin, Owned, HasItem, NEW e, e = log[taken + 1]
    PROVE  /\ e \in Elements /\ e \notin TakenOut
           /\ \A m \in 1 .. taken : log[m] # e
           /\ \A o \in PopOps : ~ListedIn(op[o].moved, e)
<1>1. e \in Elements /\ taken \in Nat /\ taken + 1 \in 1 .. Len(log) /\ taken <= Len(log) /\ Len(log) \in Nat
    BY HeadElement, TakenTypes, LenProperties DEF Claimed, QueueInv, ValueInv, IInv, StorageTypeOK
<1>2. ASSUME NEW m \in 1 .. taken, log[m] = e PROVE FALSE
    <2>1. m \in 1 .. Len(log) /\ m # taken + 1
        BY <1>1
    <2>2. QED
        BY <1>1, <1>2, <2>1, DistinctLog
<1>3. e \notin TakenOut
    BY <1>2 DEF TakenOut
<1>4. QED
    BY <1>1, <1>2, <1>3 DEF Owned, HasIt

LEMMA TakeGets ==
    ASSUME QueueInv, Origin, Owned, NEW t \in Threads, NEW x, TakesOut(t, x), NEW n, n = taken + 1,
           NEW e, e = log[n], NEW y, y = IF x = None THEN e ELSE x
    PROVE  /\ n \in Nat /\ OnlyGets("pop", y, n)
           /\ x = None => ~Made(e) /\ Made(e)' /\ GetsFirst("pop", e, n)
<1>0. x = None => x \notin PopOps
    BY NamesAssumption DEF Calls, Operations
<1>1. HasItem /\ taken \in Nat /\ n \in Nat /\ taken' = n /\ log' = log
    BY TakenTypes DEF TakesOut
<1>2. /\ e \in Elements /\ e \notin TakenOut
      /\ \A m \in 1 .. taken : log[m] # e
      /\ \A o \in PopOps : ~ListedIn(op[o].moved, e)
    BY <1>1, HeadIsNew
<1>3. ASSUME NEW z \in Calls \cup Elements, NEW m \in 1 .. n, ListedIn(TakenBy(z)', log[m])
      PROVE  \/ m \in 1 .. taken /\ ListedIn(TakenBy(z), log[m])
             \/ m = n /\ (z = e \/ (z = x /\ x \in PopOps))
    <2>1. m \in 1 .. taken \/ m = n
        BY <1>1
    <2>2. CASE z \in PopOps /\ op'[z].moved = op[z].moved
        <3>1. TakenBy(z)' = op[z].moved /\ TakenBy(z) = op[z].moved
            BY <2>2 DEF TakenBy
        <3>2. QED
            BY <1>2, <1>3, <2>1, <2>2, <3>1
    <2>3. CASE z \in PopOps /\ z = x /\ TakesInto(x)
        <3>1. /\ op[z].moved \in Seq(Elements) /\ TakenBy(z)' = Append(op[z].moved, e)
              /\ TakenBy(z) = op[z].moved
            BY <1>1, <2>3 DEF TakesInto, TakenBy, QueueInv, ValueInv, DataTypes, Operations
        <3>2. ListedIn(op[z].moved, log[m]) \/ log[m] = e
            BY <1>2, <1>3, <3>1, ListedAppend
        <3>3. QED
            BY <1>2, <2>1, <2>3, <3>1, <3>2
    <2>4. CASE z \in Elements
        <3>1. z \notin PopOps /\ TakenBy(z)' = <<z>> /\ TakenBy(z) = <<z>>
            BY <2>4, ElementNames DEF TakenBy
        <3>2. z = log[m]
            BY <1>3, <3>1, ListedFew
        <3>3. ListedIn(TakenBy(z), log[m])
            BY <3>1, <3>2, ListedFew
        <3>4. QED
            BY <2>1, <3>2, <3>3
    <2>5. CASE z \notin PopOps /\ z \notin Elements
        BY <1>3, <2>5, ListedFew DEF TakenBy
    <2>6. QED
        BY <1>0, <2>2, <2>3, <2>4, <2>5 DEF TakesOut, TakesInto, KeepsMoved
<1>4. \A z : \A m \in Nat : Got("pop", z, m) => m < n
    BY <1>1 DEF Got
<1>5. ASSUME NEW side \in Sides, NEW m \in Nat, NEW z \in Calls \cup Elements, Got(side, z, m)'
      PROVE  Got(side, z, m) \/ (side = "pop" /\ m = n /\ (z = e \/ (z = x /\ x \in PopOps)))
    <2>1. CASE side = "push"
        BY <1>1, <1>5, <2>1 DEF Got
    <2>2. CASE side = "pop"
        BY <1>1, <1>3, <1>5, <2>2 DEF Got
    <2>3. QED
        BY <2>1, <2>2 DEF Sides
<1>6. ~Made(e) /\ Made(e)'
    <2>1. e \in TakenOut'
        BY <1>1 DEF TakenOut
    <2>2. QED
        BY <1>2, <2>1, ElementNames DEF Made
<1>7. OnlyGets("pop", y, n)
    <2>1. ASSUME NEW side \in Sides, NEW m \in Nat, NEW z \in Calls \cup Elements, Made(z), Got(side, z, m)'
          PROVE  Got(side, z, m) \/ (side = "pop" /\ z = y /\ m = n)
        BY <1>0, <1>5, <1>6, <2>1 DEF TakesOut, TakesInto
    <2>2. QED
        BY <1>4, <2>1 DEF OnlyGets
<1>8. ASSUME NEW side \in Sides, NEW m \in Nat, Got(side, e, m) PROVE FALSE
    <2>1. CASE side = "push"
        <3>1. e \in Pushes
            BY <1>8, <2>1 DEF Got, Origin
        <3>2. QED
            BY <1>2, <3>1, ElementNames DEF Pushes, Calls, Operations
    <2>2. CASE side = "pop"
        <3>1. TakenBy(e) = <<e>>
            BY <1>2, ElementNames DEF TakenBy
        <3>2. m \in 1 .. taken /\ log[m] = e
            BY <1>8, <2>2, <3>1, ListedFew DEF Got
        <3>3. QED
            BY <1>2, <3>2
    <2>3. QED
        BY <2>1, <2>2 DEF Sides
<1>9. x = None => GetsFirst("pop", e, n)
    <2>1. ASSUME x = None, NEW side \in Sides, NEW m \in Nat, Got(side, e, m)'
          PROVE  side = "pop" /\ m = n
        BY <1>2, <1>5, <1>8, <2>1
    <2>2. QED
        BY <2>1 DEF GetsFirst
<1>10. QED
    BY <1>1, <1>6, <1>7, <1>9

LEMMA TakesOrder ==
    ASSUME QueueInv, Origin, Owned, OrderInv, MadeStays, NEW t \in Threads, TurnKept(t),
           Transferring(thread[t]), NEW x, x = thread[t].job, TakesOut(t, x)
    PROVE  OrderInv'
<1> PICK n : n = taken + 1
    OBVIOUS
<1> PICK e : e = log[n]
    OBVIOUS
<1>1. "pop" \in Sides /\ (x \in PopOps \cup {None} => SideOf(x) = "pop")
    BY SideNames
<1>2. CASE x = None
    <2>1. n \in Nat /\ OnlyGets("pop", e, n) /\ ~Made(e) /\ Made(e)' /\ GetsFirst("pop", e, n)
        BY <1>2, TakeGets
    <2>2. thread[t].from = "poll" /\ Call(t) = None /\ t \in Owners
        <3>1. thread[t].from \in {"fast", "poll", "reserved", "front"}
            BY Known DEF Jobs
        <3>2. thread[t].from = "poll"
            BY <1>2, <3>1, Known, NamesAssumption DEF Jobs, OwnStart, OwnTry, Calls
        <3>3. QED
            BY <3>2, Known DEF Jobs, OwnPoll, Owners, Call
    <2>3. e \in Elements /\ e \notin Operations /\ e \notin Calls /\ Call(t) \notin Operations
        BY <2>2, HeadElement, ElementNames, NamesAssumption DEF TakesOut, Calls
    <2>4. Enters(t, e)
        <3>1. None \notin PopOps
            BY NamesAssumption DEF Calls, Operations
        <3>2. QED
            BY <1>2, <2>2, <2>3, <3>1 DEF Enters, TakesOut, TakesInto
    <2>5. AddsValue(t)
        BY <2>1, <2>3, <2>4 DEF AddsValue
    <2>6. Waits' /\ Ordered'
        BY <1>1, <1>2, <2>1, <2>2, <2>4, <2>5, NewGets
    <2>7. QED
        BY <2>5, <2>6, GivenOrder
<1>3. CASE x # None
    <2>1. x \in Operations /\ x \in PopOps /\ calls' = calls
        BY <1>3 DEF TakesOut, TakesInto, Operations
    <2>2. n \in Nat /\ OnlyGets("pop", x, n)
        BY <1>3, TakeGets
    <2>3. Waits' /\ Ordered'
        BY <1>1, <2>1, <2>2, TurnGets
    <2>4. QED
        BY <2>1, <2>3, GivenOrder DEF AddsValue
<1>4. QED
    BY <1>2, <1>3

LEMMA TransferOrder ==
    ASSUME QueueInv, BaseInv', Origin, Owned, OrderInv, MadeStays, NEW t \in Threads, TransferStep(t)
    PROVE  OrderInv'
<1> PICK x : x = thread[t].job
    OBVIOUS
<1>1. TurnKept(t) /\ Transferring(thread[t])
    BY TransferTurns, TransferLists
<1>2. CASE UNCHANGED <<log, taken, calls>> /\ KeepsMoved
    <2>1. \A side \in Sides : Thinner(pending'[side], pending[side])
        BY <1>1, SameThin DEF TurnKept, QueueInv
    <2>2. Calm(t)
        BY <1>1, <1>2, <2>1 DEF Calm, TurnKept, KeepsMoved
    <2>3. QED
        BY <2>2, CalmOrder
<1>3. CASE Gives(t, x)
    BY <1>1, <1>3, GivesOrder
<1>4. CASE TakesOut(t, x)
    BY <1>1, <1>4, TakesOrder
<1>5. QED
    BY <1>2, <1>3, <1>4, TransferEffect
-----------------------------------------------------------------------------
(* A call that begins to wait is the last of its thread.                   *)
LEMMA ParkOrder ==
    ASSUME QueueInv, OrderInv, MadeStays, NEW t \in Threads, Park(t) PROVE OrderInv'
<1> DEFINE th == thread[t]
<1> PICK x : x = Call(t)
    OBVIOUS
<1> PICK s : s = SideOf(x)
    OBVIOUS
<1> PICK new : new = thread'[t]
    OBVIOUS
<1>1. /\ th.pc = "park" /\ OnlyThread(t) /\ OwnStart(t, th) /\ th.ok
      /\ th.call = x /\ x \in Operations /\ new = Scan(th, pending') /\ calls' = calls
      /\ pending' = [pending EXCEPT ![s] = Append(pending[s], x)]
    BY Known DEF Park, At, OnlyThread, Shape, OwnStart, Call
<1>2. UNCHANGED <<log, taken>> /\ \A o \in PopOps : op'[o].moved = op[o].moved
    BY ParkSteady DEF SteadyStep, Steady, OpSteady, storageVars, Operations
<1>3. t \in Owners /\ s \in Sides /\ x \in Calls
    BY <1>1 DEF OwnStart, Users, Owners, SideOf, Sides, Calls
<1>4. ~Transferring(new) /\ new.call = x
    <2>1. Onward(new, th, pending')
        BY <1>1, Known, ScanOnward
    <2>2. QED
        BY <1>1, <2>1, Known, ScanStays DEF Onward
<1>5. ~ListedIn(pending[s], x) /\ pending[s] \in Seq(Operations)
    <2>1. Carrying(t, th)
        BY <1>1 DEF OwnStart, Carrying, Starting, Inside, Locked, Transferring
    <2>2. op[x].phase \in {"Starting", "StopRequested"}
        BY <2>1 DEF QueueInv, BaseInv, CarriedPhase
    <2>3. QED
        BY <1>1, <1>3, <2>2, PendingTypes DEF QueueInv, BaseInv, PendingPhase
<1> PICK r : r = pending'[s]
    OBVIOUS
<1>6. /\ r = Append(pending[s], x) /\ \A side \in Sides : side # s => pending'[side] = pending[side]
      /\ Len(pending[s]) \in Nat /\ Len(r) = Len(pending[s]) + 1 /\ r[Len(r)] = x
      /\ \A k \in 1 .. Len(pending[s]) : r[k] = pending[s][k]
      /\ \A y : ListedIn(r, y) <=> ListedIn(pending[s], y) \/ y = x
    <2>1. r = Append(pending[s], x) /\ \A side \in Sides : side # s => pending'[side] = pending[side]
        BY <1>1, <1>3 DEF QueueInv, BaseInv, Types
    <2>2. QED
        BY <1>1, <1>5, <2>1, AppendProperties, ListedAppend
<1>7. Len(calls[t]) \in 1 .. Len(calls[t]) /\ calls[t][Len(calls[t])] = x
    <2>1. calls[t] # << >> /\ calls[t][Len(calls[t])] = x
        BY <1>1, <1>3 DEF OrderInv, LastCall
    <2>2. QED
        BY <1>3, <2>1, CallTypes
<1>8. ASSUME NEW u \in Owners, NEW i \in 1 .. Len(calls[u]), calls[u][i] = x
      PROVE  u = t /\ i = Len(calls[t])
    BY <1>3, <1>7, <1>8 DEF OrderInv, CalledOnce
<1>9. ASSUME NEW side \in Sides, NEW u \in Owners, NEW i, Waiting(side, u, i)'
      PROVE  Waiting(side, u, i) \/ (u = t /\ i = Len(calls[t]))
    <2>1. i \in 1 .. Len(calls[u]) /\ ListedIn(pending'[side], calls[u][i])
        BY <1>1, <1>9 DEF Waiting
    <2>2. ListedIn(pending[side], calls[u][i]) \/ calls[u][i] = x
        BY <1>6, <2>1
    <2>3. QED
        BY <1>8, <2>1, <2>2 DEF Waiting
<1>10. LastCall'
    <2>1. \A u \in Owners : thread'[u].call = thread[u].call
        BY <1>1, <1>4, Names DEF OnlyThread, Owners
    <2>2. QED
        BY <1>1, <2>1 DEF OrderInv, LastCall, Call
<1>11. CalledOnce'
    BY <1>1, CalledStep DEF OrderInv
<1>12. InLine'
    <2>1. ASSUME NEW side \in Sides, NEW q, q = pending'[side],
                 NEW k \in 1 .. Len(q), NEW l \in 1 .. Len(q), k < l,
                 NEW u \in Owners, NEW i \in 1 .. Len(calls[u]), NEW j \in 1 .. Len(calls[u]),
                 calls[u][i] = q[k], calls[u][j] = q[l]
          PROVE  i < j
        <3>1. CASE side # s
            <4>1. q = pending[side]
                BY <1>6, <2>1, <3>1
            <4>2. QED
                BY <2>1, <4>1 DEF OrderInv, InLine
        <3>2. CASE side = s
            <4>1. q = r /\ k \in 1 .. Len(pending[s]) /\ q[k] = pending[s][k]
                <5>1. q = r
                    BY <2>1, <3>2
                <5>2. k \in 1 .. Len(r) /\ l \in 1 .. Len(r) /\ k < l
                    BY <2>1, <5>1
                <5>3. k \in 1 .. Len(pending[s])
                    BY <1>6, <5>2
                <5>4. QED
                    BY <1>6, <5>1, <5>3
            <4>2. CASE l # Len(r)
                <5>1. l \in 1 .. Len(pending[s]) /\ q[l] = pending[s][l]
                    BY <1>6, <2>1, <4>1, <4>2
                <5>2. QED
                    BY <1>3, <2>1, <4>1, <5>1, SMTT(30) DEF OrderInv, InLine
            <4>3. CASE l = Len(r)
                <5>1. u = t /\ j = Len(calls[t])
                    BY <1>6, <1>8, <2>1, <4>1, <4>3
                <5>2. calls[u][i] # x
                    BY <1>5, <2>1, <4>1 DEF ListedIn
                <5>3. i # j
                    BY <1>7, <5>1, <5>2
                <5>4. QED
                    BY <1>7, <5>1, <5>3
            <4>4. QED
                BY <4>2, <4>3
        <3>3. QED
            BY <3>1, <3>2
    <2>2. calls' = calls
        BY <1>1
    <2>3. QED
        BY <2>1, <2>2 DEF InLine
<1>13. Waits' /\ Ordered'
    <2>1. \A side \in Sides, u \in Owners : \A i, m \in Nat : Has(side, u, i, m)' => Has(side, u, i, m)
        BY <1>1, <1>2, SameGot DEF Has
    <2>2. \A side \in Sides, u \in Owners : \A i \in Nat :
             Waiting(side, u, i)' => Waiting(side, u, i) \/ i = Len(calls'[u])
        BY <1>1, <1>9
    <2>3. \A u \in Owners : Len(calls'[u]) \in Nat
        BY <1>1, CallTypes
    <2>4. QED
        BY <2>1, <2>2, <2>3, NothingGot DEF OrderInv
<1>14. Turns'
    <2>1. ASSUME NEW u \in Owners, Transferring(thread'[u]), thread'[u].from # "front",
                 NEW side, side = SideOf(thread'[u].job), NEW i \in Nat, Waiting(side, u, i)'
          PROVE  FALSE
        <3>1. side \in Sides /\ u # t
            BY <1>4, <2>1 DEF SideOf, Sides
        <3>2. thread'[u] = thread[u]
            BY <1>1, <3>1, Names DEF OnlyThread, Owners
        <3>3. Waiting(side, u, i)
            BY <1>9, <2>1, <3>1
        <3>4. QED
            BY <2>1, <3>2, <3>3 DEF OrderInv, Turns
    <2>2. QED
        BY <2>1 DEF Turns
<1>15. QED
    BY <1>10, <1>11, <1>12, <1>13, <1>14 DEF OrderInv
-----------------------------------------------------------------------------
(* An operation that has not been started got nothing and does not wait.   *)
LEMMA NotStarted ==
    ASSUME QueueInv, Origin, NEW o \in Operations, op[o].phase = "Constructed"
    PROVE  /\ \A side \in Sides : ~ListedIn(pending[side], o)
           /\ \A side \in Sides, m \in Nat : ~Got(side, o, m)
<1>1. op[o].result \notin Done
    BY DEF QueueInv, ValueInv, NotBefore
<1>2. ASSUME NEW side \in Sides, ListedIn(pending[side], o) PROVE FALSE
    <2>1. side = SideOf(o)
        BY <1>2, PendingTypes DEF QueueInv
    <2>2. op[o].phase = "Pending"
        BY <1>2, <2>1 DEF QueueInv, BaseInv, PendingPhase
    <2>3. QED
        BY <2>2
<1>3. ASSUME o \in PushOps, Pushed(o) # 0 PROVE FALSE
    <2>1. PICK t \in Threads : Placing(thread[t]) /\ thread[t].job = o
        BY <1>1, <1>3 DEF QueueInv, ValueInv, Placed, Done
    <2>2. Transferring(thread[t]) /\ BaseInv
        BY <2>1 DEF QueueInv, Placing, Transferring
    <2>3. op[o].phase \in {"Starting", "StopRequested", "Pending"}
        BY <2>1, <2>2, JobPlace
    <2>4. QED
        BY <2>3
<1>4. ASSUME NEW side \in Sides, NEW m \in Nat, Got(side, o, m) PROVE FALSE
    <2>1. CASE side = "push"
        <3>1. m \in 1 .. Len(log) /\ log[m][1] = o
            BY <1>4, <2>1 DEF Got
        <3>2. o \in PushOps
            BY <3>1, NamesAssumption DEF Origin, Pushes, Operations
        <3>3. QED
            BY <1>3, <3>1, <3>2, PushedSome DEF Pushes
    <2>2. CASE side = "pop"
        <3>1. ListedIn(TakenBy(o), log[m])
            BY <1>4, <2>2 DEF Got
        <3>2. o \in PopOps => op[o].moved = << >>
            BY <1>1 DEF QueueInv, ValueInv, Placed, Done
        <3>3. o \notin Elements
            BY ElementNames
        <3>4. TakenBy(o) = << >>
            BY <3>2, <3>3 DEF TakenBy
        <3>5. QED
            BY <3>1, <3>4, ListedFew
    <2>3. QED
        BY <2>1, <2>2 DEF Sides
<1>5. QED
    BY <1>2, <1>4

LEMMA StartOrder ==
    ASSUME QueueInv, Origin, OrderInv, MadeStays, NEW t \in Owners, NEW o \in Operations, Start(t, o)
    PROVE  OrderInv'
<1> PICK new : new = thread'[t]
    OBVIOUS
<1>1. /\ t \in Threads /\ OnlyThread(t) /\ op[o].phase = "Constructed" /\ pending' = pending
      /\ calls' = [calls EXCEPT ![t] = Append(calls[t], o)]
      /\ op' = [op EXCEPT ![o].phase = "Starting"]
      /\ new = [NewThread EXCEPT !.call = o, !.goal = "start", !.ok = TRUE,
                  !.pc = IF o \in Stoppable THEN "token" ELSE "admit.fast"]
    BY Known, Names DEF Start, OnlyThread, queueVars, waiters, Owners
<1>2. new.pc \in {"token", "admit.fast"} /\ new.call = o
    BY <1>1, IdleThread, Fields DEF ThreadFields
<1>3. op'[o].phase = "Starting"
    BY <1>1, Known, Fields
<1>4. UNCHANGED <<log, taken>> /\ \A x \in PopOps : op'[x].moved = op[x].moved
    BY <1>1, StartSteady DEF Owners, SteadyStep, Steady, OpSteady, storageVars, Operations
<1>5. o \in Calls /\ o \notin TryValues /\ o \notin Elements
    BY ElementNames, NamesAssumption DEF Calls
<1>6. Enters(t, o) /\ ~Made(o) /\ Made(o)'
    BY <1>1, <1>3, <1>5 DEF Enters, Made
<1>7. /\ \A side \in Sides : ~ListedIn(pending[side], o)
      /\ \A side \in Sides, m \in Nat : ~Got(side, o, m)
    BY <1>1, NotStarted
<1>8. ASSUME NEW u \in Owners, NEW i \in 1 .. Len(calls'[u]), calls'[u][i] # o
      PROVE  i \in 1 .. Len(calls[u]) /\ calls'[u][i] = calls[u][i]
    BY <1>6, <1>8, CallsGrow
<1>9. ASSUME NEW side \in Sides, NEW u \in Owners, NEW i, Waiting(side, u, i)' PROVE Waiting(side, u, i)
    <2>1. i \in 1 .. Len(calls'[u]) /\ ListedIn(pending[side], calls'[u][i])
        BY <1>1, <1>9 DEF Waiting
    <2>2. QED
        BY <1>7, <1>8, <2>1 DEF Waiting
<1>10. LastCall'
    <2>1. ASSUME NEW u \in Owners, thread'[u].call \in Operations
          PROVE  calls'[u] # << >> /\ calls'[u][Len(calls'[u])] = thread'[u].call
        <3>1. CASE u = t
            <4>1. Len(calls[t]) \in Nat /\ Len(calls'[t]) = Len(calls[t]) + 1 /\ calls'[t][Len(calls[t]) + 1] = o
                BY <1>6, CallsGrow
            <4>2. Len(calls'[t]) # 0
                BY <4>1
            <4>3. calls'[t] # << >>
                BY <4>2
            <4>4. QED
                BY <1>2, <3>1, <4>1, <4>3
        <3>2. CASE u # t
            <4>1. calls'[u] = calls[u] /\ thread'[u] = thread[u]
                BY <1>1, <1>6, <3>2, CallsGrow, Names DEF OnlyThread, Owners
            <4>2. QED
                BY <2>1, <4>1 DEF OrderInv, LastCall, Call
        <3>3. QED
            BY <3>1, <3>2
    <2>2. QED
        BY <2>1 DEF LastCall, Call
<1>11. CalledOnce'
    BY <1>6, CalledStep DEF OrderInv
<1>12. InLine'
    <2>1. ASSUME NEW side \in Sides, NEW k \in 1 .. Len(pending[side]), NEW l \in 1 .. Len(pending[side]),
                 k < l, NEW u \in Owners, NEW i \in 1 .. Len(calls'[u]), NEW j \in 1 .. Len(calls'[u]),
                 calls'[u][i] = pending[side][k], calls'[u][j] = pending[side][l]
          PROVE  i < j
        <3>1. calls'[u][i] # o /\ calls'[u][j] # o
            BY <1>7, <2>1 DEF ListedIn
        <3>2. /\ i \in 1 .. Len(calls[u]) /\ calls'[u][i] = calls[u][i]
              /\ j \in 1 .. Len(calls[u]) /\ calls'[u][j] = calls[u][j]
            BY <1>8, <3>1
        <3>3. QED
            BY <2>1, <3>2 DEF OrderInv, InLine
    <2>2. pending' = pending
        BY <1>1
    <2>3. QED
        BY <2>1, <2>2 DEF InLine
<1>13. Waits' /\ Ordered'
    <2>1. ASSUME NEW side \in Sides, NEW u \in Owners, NEW i \in Nat, NEW m \in Nat, Has(side, u, i, m)'
          PROVE  Has(side, u, i, m)
        <3> PICK z : z = calls'[u][i]
            OBVIOUS
        <3>1. i \in 1 .. Len(calls'[u]) /\ Got(side, z, m)
            BY <1>4, <2>1, SameGot DEF Has
        <3>2. QED
            BY <1>7, <1>8, <3>1 DEF Has
    <2>2. \A u \in Owners : Len(calls'[u]) \in Nat
        BY <1>6, CallsGrow, CallTypes
    <2>3. QED
        BY <1>9, <2>1, <2>2, NothingGot DEF OrderInv
<1>14. Turns'
    <2>1. ASSUME NEW u \in Owners, Transferring(thread'[u]), thread'[u].from # "front",
                 NEW side, side = SideOf(thread'[u].job), NEW i \in Nat, Waiting(side, u, i)'
          PROVE  FALSE
        <3>1. side \in Sides /\ u # t
            BY <1>2, <2>1 DEF SideOf, Sides, Transferring
        <3>2. thread'[u] = thread[u]
            BY <1>1, <3>1, Names DEF OnlyThread, Owners
        <3>3. Waiting(side, u, i)
            BY <1>9, <2>1, <3>1
        <3>4. QED
            BY <2>1, <3>2, <3>3 DEF OrderInv, Turns
    <2>2. QED
        BY <2>1 DEF Turns
<1>15. QED
    BY <1>10, <1>11, <1>12, <1>13, <1>14 DEF OrderInv
-----------------------------------------------------------------------------
LEMMA SameOrder == ASSUME OrderInv, UNCHANGED vars PROVE OrderInv'
<1>1. UNCHANGED <<log, taken, calls, pending, op, thread>>
    BY DEF vars, storageVars, queueVars, waiters
<1>2. \A x : Made(x)' <=> Made(x)
    BY <1>1 DEF Made, Pushed, TakenOut
<1>3. \A side, t, i : Waiting(side, t, i)' <=> Waiting(side, t, i)
    BY <1>1 DEF Waiting
<1>4. \A side, t, i, m : Has(side, t, i, m)' <=> Has(side, t, i, m)
    BY <1>1 DEF Has, Got, TakenBy
<1>5. LastCall' /\ InLine'
    BY <1>1 DEF OrderInv, LastCall, InLine, Call
<1>6. CalledOnce'
    <2>1. \A t \in Owners : \A i \in 1 .. Len(calls[t]) : Made(calls[t][i])'
        <3>1. ASSUME NEW t \in Owners, NEW i \in 1 .. Len(calls[t]) PROVE Made(calls[t][i])'
            <4> PICK x : x = calls[t][i]
                OBVIOUS
            <4>1. Made(x)'
                BY <1>2 DEF OrderInv, CalledOnce
            <4>2. calls'[t][i] = x
                BY <1>1
            <4>3. QED
                BY <4>1, <4>2 DEF Made
        <3>2. QED
            BY <3>1
    <2>2. QED
        BY <1>1, <2>1 DEF OrderInv, CalledOnce
<1>7. Waits' /\ Ordered' /\ Turns'
    BY <1>1, <1>3, <1>4 DEF OrderInv, Waits, Ordered, Turns
<1>8. QED
    BY <1>5, <1>6, <1>7 DEF OrderInv

LEMMA FlushCalm == ASSUME QueueInv, NEW t \in Threads, Flush(t) PROVE Calm(t)
<1>1. UNCHANGED <<log, taken, calls, pending, op, thread>>
    BY DEF Flush, storageVars, queueVars, waiters, Free
<1>2. \A side \in Sides : Thinner(pending'[side], pending[side])
    BY <1>1, SameThin DEF QueueInv
<1>3. QED
    BY <1>1, <1>2, Known DEF Calm, OnlyThread, Call

LEMMA NextOrder ==
    ASSUME QueueInv, QueueInv', Origin, Owned, OrderInv, [Next]_vars PROVE OrderInv'
<1>0. MadeStays /\ BaseInv'
    BY NextMade DEF QueueInv
<1>1. ASSUME NEW t \in Threads, Calm(t) PROVE OrderInv'
    BY <1>0, <1>1, CalmOrder
<1>2. ASSUME NEW t \in Owners, Begin(t) PROVE OrderInv'
    <2>1. t \in Threads
        BY Names DEF Owners
    <2>2. ASSUME NEW o \in Operations, Start(t, o) PROVE OrderInv'
        BY <1>0, <2>2, StartOrder
    <2>3. CASE \/ t \in Producers /\ \E v \in TryValues : TryPush(t, v)
               \/ t \in Consumers /\ TryPop(t)
        BY <1>0, <1>1, <2>1, <2>3, TryCalm
    <2>4. QED
        BY <1>2, <2>2, <2>3 DEF Begin
<1>3. ASSUME NEW k \in Controllers, Close(k) \/ Abort(k) PROVE OrderInv'
    <2>1. k \in Threads
        BY Names
    <2>2. QED
        BY <1>0, <1>1, <1>3, <2>1, EndCalm
<1>4. ASSUME NEW x \in Stoppable, RequestStop(x) PROVE OrderInv'
    <2>1. x \in Threads
        BY Names
    <2>2. QED
        BY <1>0, <1>1, <1>4, <2>1, StopCalm
<1>5. ASSUME NEW t \in Threads, CallStep(t) PROVE OrderInv'
    BY <1>0, <1>1, <1>5, CallStepCalm
<1>6. ASSUME NEW t \in Threads, TransferStep(t) PROVE OrderInv'
    BY <1>0, <1>6, TransferOrder
<1>7. ASSUME NEW t \in Threads, Lock(t) \/ Complete(t) PROVE OrderInv'
    BY <1>0, <1>1, <1>7, OtherCalm
<1>8. ASSUME NEW t \in Threads, LockedStep(t) PROVE OrderInv'
    BY <1>0, <1>1, <1>8, LockedCalm, ParkOrder
<1>9. ASSUME NEW t \in Threads, Flush(t) PROVE OrderInv'
    BY <1>1, <1>9, FlushCalm
<1>10. CASE UNCHANGED vars
    BY <1>10, SameOrder
<1>11. QED
    BY <1>2, <1>3, <1>4, <1>5, <1>6, <1>7, <1>8, <1>9, <1>10 DEF Next, Owners

LEMMA InitOrder == Init => OrderInv
<1> SUFFICES ASSUME Init PROVE OrderInv
    OBVIOUS
<1>1. /\ log = << >> /\ taken = 0 /\ thread = [t \in Threads |-> NewThread]
      /\ \A t \in Owners : calls[t] = << >>
      /\ pending["push"] = << >> /\ pending["pop"] = << >>
    BY DEF Init, StorageInit, Owners
<1>2. \A t \in Owners : ~Transferring(thread[t]) /\ thread[t].call = None
    <2>1. \A t \in Owners : thread[t] = NewThread
        BY <1>1, Names DEF Owners
    <2>2. QED
        BY <2>1, IdleThread DEF Transferring
<1>3. LastCall /\ Turns
    BY <1>2, NamesAssumption DEF LastCall, Turns, Call, Calls
<1>4. InLine /\ CalledOnce
    <2>1. InLine
        BY <1>1 DEF InLine, Sides
    <2>2. CalledOnce
        BY <1>1 DEF CalledOnce
    <2>3. QED
        BY <2>1, <2>2
<1>5. Waits /\ Ordered
    BY <1>1 DEF Waits, Ordered, Has, Waiting
<1>6. QED
    BY <1>3, <1>4, <1>5 DEF OrderInv

(* What a call took stands in the ring at the position it got. *)
LEMMA TakenPlace ==
    ASSUME QueueInv, Origin, Owned, NEW c \in Consumers, NEW i \in 1 .. Len(calls[c]),
           NEW x, x = calls[c][i], NEW m \in 1 .. Len(TakenBy(x)), NEW e, e = TakenBy(x)[m]
    PROVE  Position(e) \in Nat /\ Has("pop", c, i, Position(e))
<1>1. e \in TakenOut /\ ListedIn(TakenBy(x), e)
    <2>1. CASE x \in PopOps
        <3>1. op[x].moved \in Seq(Elements) /\ TakenBy(x) = op[x].moved
            BY <2>1 DEF TakenBy, QueueInv, ValueInv, DataTypes, Operations
        <3>2. e \in Elements /\ ListedIn(op[x].moved, e)
            BY <3>1, ElementOfSeq DEF ListedIn
        <3>3. QED
            BY <2>1, <3>1, <3>2 DEF Owned, HasIt
    <2>2. CASE x \notin PopOps /\ x \in Elements
        <3>1. TakenBy(x) = <<x>>
            BY <2>2 DEF TakenBy
        <3>2. e = x
            BY <3>1
        <3>3. GotIt(c, x)
            BY DEF GotIt, ListedIn
        <3>4. QED
            BY <2>2, <3>1, <3>2, <3>3, ListedFew DEF Owned
    <2>3. CASE x \notin PopOps /\ x \notin Elements
        <3>1. TakenBy(x) = << >>
            BY <2>3 DEF TakenBy
        <3>2. QED
            BY <3>1
    <2>4. QED
        BY <2>1, <2>2, <2>3
<1>2. PICK a \in 1 .. taken : log[a] = e
    BY <1>1 DEF TakenOut
<1>3. a \in 1 .. Len(log) /\ taken \in Nat /\ Len(log) \in Nat
    BY <1>2, TakenTypes, LenProperties DEF QueueInv, ValueInv, IInv, StorageTypeOK
<1>4. Position(e) = a
    <2>1. \A k \in 1 .. Len(log) : log[k] = e => k = a
        BY <1>2, <1>3, DistinctLog
    <2>2. QED
        BY <1>2, <1>3, <2>1 DEF Position
<1>5. QED
    BY <1>1, <1>2, <1>3, <1>4 DEF Has, Got

LEMMA OrderedCalls == ASSUME QueueInv, Origin, Owned, OrderInv PROVE CallsInOrder
<1>1. ASSUME NEW p \in Producers, NEW i \in 1 .. Len(calls[p]), NEW j \in 1 .. Len(calls[p]), i < j,
             NEW m \in 1 .. Len(log), NEW n \in 1 .. Len(log),
             log[m][1] = calls[p][i], log[n][1] = calls[p][j]
      PROVE  m < n
    <2>1. Has("push", p, i, m) /\ Has("push", p, j, n)
        BY <1>1 DEF Has, Got
    <2>2. p \in Owners /\ "push" \in Sides /\ i \in Nat /\ j \in Nat /\ m \in Nat /\ n \in Nat
        BY DEF Owners, Sides
    <2>3. QED
        BY <1>1, <2>1, <2>2 DEF OrderInv, Ordered
<1>2. ASSUME NEW c \in Consumers, NEW i \in 1 .. Len(calls[c]), NEW j \in 1 .. Len(calls[c]), i < j,
             NEW m \in 1 .. Len(TakenBy(calls[c][i])), NEW n \in 1 .. Len(TakenBy(calls[c][j]))
      PROVE  Position(TakenBy(calls[c][i])[m]) < Position(TakenBy(calls[c][j])[n])
    <2> PICK a, b : a = TakenBy(calls[c][i])[m] /\ b = TakenBy(calls[c][j])[n]
        OBVIOUS
    <2>1. Position(a) \in Nat /\ Has("pop", c, i, Position(a))
        BY TakenPlace
    <2>2. Position(b) \in Nat /\ Has("pop", c, j, Position(b))
        BY TakenPlace
    <2>3. c \in Owners /\ "pop" \in Sides /\ i \in Nat /\ j \in Nat
        BY DEF Owners, Sides
    <2>4. QED
        BY <1>2, <2>1, <2>2, <2>3 DEF OrderInv, Ordered
<1>3. QED
    BY <1>1, <1>2 DEF CallsInOrder

(* Each producer's values enter the ring in the order of its calls, and    *)
(* each consumer's calls get theirs in the order they were made: a call    *)
(* tries the ring past the lock only while nobody of its side is counted   *)
(* as waiting, and the waiters are served from the head of their list,     *)
(* whoever serves them, gives up or is cancelled meanwhile.                *)
THEOREM CallsKeepOrder == Spec => []CallsInOrder
<1>1. Init => OrderInv
    BY InitOrder
<1>2. QueueInv /\ QueueInv' /\ Origin /\ Owned /\ OrderInv /\ [Next]_vars => OrderInv'
    BY NextOrder
<1>3. QueueInv /\ Origin /\ Owned /\ OrderInv => CallsInOrder
    BY OrderedCalls
<1>4. QED
    BY <1>1, <1>2, <1>3, QueueInvariant, OwnedInvariant, PTL DEF Spec
=============================================================================
