------------------------- MODULE AsyncQueue_proofs -------------------------
(***************************************************************************)
(* Proofs about the asynchronous queue and the storage it extends, for any *)
(* sets of operations, threads and values, every capacity and every        *)
(* setting of the backpressure.  First the storage alone: no two positions *)
(* in use share a cell, and it implements BoundedFifo although positions   *)
(* are claimed before they are published and taken before, or after, their *)
(* cells are given back.  Then the threads of the queue: the waiter        *)
(* counters tell the truth, an operation completes once and is not touched *)
(* afterwards, and the single side of a storage has one user.  Last the    *)
(* inductive invariant QueueInv, what operations say of their transfers    *)
(* and what the ring holds of them.  The module AsyncQueueValues_proofs    *)
(* draws the conclusions.                                                  *)
(***************************************************************************)
EXTENDS AsyncQueue, SequenceTheorems, FiniteSetTheorems, TLAPS

(* A position is claimed only after the cell it shares with a position a   *)
(* lap earlier was given back.                                             *)
LapFreed == \A p \in Nat : p + Capacity < Claimed => p \in freed

(* The inductive invariant. *)
IInv == StorageTypeOK /\ TakenWereReady /\ LapFreed

-----------------------------------------------------------------------------
(* The initial state satisfies the inductive invariant. *)
LEMMA InitIInv == StorageInit => IInv
BY CapacityAssumption
   DEF StorageInit, IInv, StorageTypeOK, TakenWereReady, LapFreed, Claimed

(* A claim is the only step that may break LapFreed, and HasRoom is what   *)
(* it needs for that.                                                      *)
LEMMA ClaimKeepsLap ==
    ASSUME NEW v \in Values, IInv, HasRoom, log' = Append(log, v),
           freed \subseteq freed'
    PROVE  /\ log' \in Seq(Values) /\ Claimed' = Claimed + 1 /\ Claimed \in Nat
           /\ LapFreed'
<1> USE CapacityAssumption DEF IInv, StorageTypeOK
<1>1. log' \in Seq(Values) /\ Claimed' = Claimed + 1 /\ Claimed \in Nat
    BY DEF Claimed
<1>2. ASSUME NEW p \in Nat, p + Capacity < Claimed' PROVE p \in freed'
    <2>1. CASE p + Capacity < Claimed
        BY <2>1 DEF LapFreed
    <2>2. CASE p = Claimed - Capacity
        BY <2>2, <1>1 DEF HasRoom
    <2>3. QED
        BY <1>1, <1>2, <2>1, <2>2
<1>3. QED
    BY <1>1, <1>2 DEF LapFreed

(* Every step of a producer or a consumer keeps the invariant. *)
LEMMA NextIInv == IInv /\ [StorageNext]_storageVars => IInv'
<1> SUFFICES ASSUME IInv, [StorageNext]_storageVars PROVE IInv'
    OBVIOUS
<1> USE CapacityAssumption DEF IInv, StorageTypeOK, TakenWereReady
<1>0. Claimed \in Nat
    BY DEF Claimed
<1>1. ASSUME NEW v \in Values, Claim(v) PROVE IInv'
    <2>1. Claimed' = Claimed + 1 /\ log' \in Seq(Values) /\ LapFreed'
        BY <1>1, ClaimKeepsLap DEF Claim
    <2>2. QED
        BY <1>0, <1>1, <2>1 DEF Claim
<1>2. ASSUME NEW v \in Values, PushAtOnce(v) PROVE IInv'
    <2>1. Claimed' = Claimed + 1 /\ log' \in Seq(Values) /\ LapFreed'
        BY <1>2, ClaimKeepsLap DEF PushAtOnce
    <2>2. QED
        BY <1>0, <1>2, <2>1 DEF PushAtOnce
<1>3. ASSUME NEW p \in 0 .. Claimed - 1, Publish(p) PROVE IInv'
    BY <1>0, <1>3 DEF Publish, LapFreed, Claimed
<1>4. ASSUME NEW p \in 0 .. Claimed - 1, Free(p) PROVE IInv'
    BY <1>0, <1>4 DEF Free, LapFreed, Claimed
<1>5. CASE Take
    <2>1. taken \in 0 .. Claimed - 1 /\ taken' = taken + 1
        BY <1>0, <1>5 DEF Take, HasItem
    <2>2. UNCHANGED <<log, ready, freed, Claimed>>
        BY <1>5 DEF Take, Claimed
    <2>3. 0 .. taken' - 1 \subseteq ready
        BY <1>0, <1>5, <2>1 DEF Take, HasItem
    <2>4. freed \subseteq 0 .. taken'
        BY <1>0, <2>1
    <2>5. QED
        BY <1>0, <2>1, <2>2, <2>3, <2>4 DEF LapFreed
<1>6. CASE PopAtOnce
    BY <1>0, <1>6, SMTT(30) DEF PopAtOnce, HasItem, LapFreed, Claimed
<1>7. CASE UNCHANGED storageVars
    BY <1>7 DEF storageVars, LapFreed, Claimed
<1>8. QED
    BY <1>1, <1>2, <1>3, <1>4, <1>5, <1>6, <1>7 DEF StorageNext

(* The inductive invariant holds throughout. *)
THEOREM StorageInductive == StorageSpec => []IInv
BY InitIInv, NextIInv, PTL DEF StorageSpec

(* The history and the two sets of positions keep their types: only        *)
(* claimed positions are published and only published ones given back.     *)
THEOREM StorageTypeCorrect == StorageSpec => []StorageTypeOK
<1>1. IInv => StorageTypeOK
    BY DEF IInv
<1>2. QED
    BY <1>1, StorageInductive, PTL

-----------------------------------------------------------------------------
(* Positions with the same cell are at least a lap apart. *)
LEMMA SameCellLap ==
    ASSUME NEW p \in Nat, NEW q \in Nat, p < q, p % Capacity = q % Capacity
    PROVE  p + Capacity <= q
<1> DEFINE a == p \div Capacity
           b == q \div Capacity
           r == p % Capacity
<1>1. /\ a \in Int /\ b \in Int /\ r \in 0 .. Capacity - 1
      /\ p = Capacity * a + r /\ q = Capacity * b + r
    BY CapacityAssumption
<1> HIDE DEF a, b, r
<1>2. Capacity * (b - a) = q - p
    BY <1>1, CapacityAssumption
<1>3. b - a >= 1
    BY <1>1, <1>2, CapacityAssumption
<1>4. Capacity * (b - a) >= Capacity
    BY <1>1, <1>3, CapacityAssumption
<1>5. QED
    BY <1>2, <1>4, CapacityAssumption

(* The ring never writes over a value nobody has taken, nor over one that  *)
(* a consumer still reads, for every capacity.                             *)
THEOREM CellsExclusive == StorageSpec => []CellsDisjoint
<1>1. IInv => CellsDisjoint
    <2> SUFFICES ASSUME IInv,
                        NEW p \in (0 .. Claimed - 1) \ freed,
                        NEW q \in (0 .. Claimed - 1) \ freed,
                        p % Capacity = q % Capacity, p < q
                 PROVE  FALSE
        BY DEF CellsDisjoint
    <2>1. p + Capacity <= q
        BY SameCellLap
    <2>2. p + Capacity < Claimed
        BY <2>1, CapacityAssumption DEF IInv, StorageTypeOK, Claimed
    <2>3. QED
        BY <2>2 DEF IInv, LapFreed
<1>2. QED
    BY <1>1, StorageInductive, PTL
-----------------------------------------------------------------------------
(* Refinement of BoundedFifo: the queue is log from FirstHeld on.          *)

Queue == SubSeq(log, FirstHeld + 1, Claimed)
Handed == IF FirstHeld = 0 THEN << >> ELSE <<log[FirstHeld]>>

(* The queue holds the positions from FirstHeld to the last claimed one.   *)
LEMMA QueueType ==
    ASSUME IInv
    PROVE  /\ Claimed \in Nat /\ log \in Seq(Values)
           /\ FirstHeld \in 0 .. Claimed
           /\ Queue \in Seq(Values)
           /\ Len(Queue) = Claimed - FirstHeld
           /\ \A k \in 1 .. Claimed - FirstHeld : Queue[k] = log[FirstHeld + k]
<1> USE DEF IInv, StorageTypeOK, TakenWereReady
<1>1. Claimed \in Nat /\ log \in Seq(Values) /\ Claimed = Len(log)
    BY DEF Claimed
<1>2. FirstHeld \in 0 .. Claimed
    BY <1>1 DEF FirstHeld
<1>3. QED
    BY <1>1, <1>2, SubSeqProperties DEF Queue

(* Appending to a sequence appends to its suffixes. *)
LEMMA SuffixAppend ==
    ASSUME NEW S, NEW s \in Seq(S), NEW v \in S, NEW f \in 0 .. Len(s)
    PROVE  SubSeq(Append(s, v), f + 1, Len(s) + 1)
             = Append(SubSeq(s, f + 1, Len(s)), v)
<1> DEFINE t == Append(s, v)
           longer == SubSeq(t, f + 1, Len(s) + 1)
           shorter == SubSeq(s, f + 1, Len(s))
           n == Len(s) - f
<1>1. /\ t \in Seq(S) /\ Len(t) = Len(s) + 1
      /\ \A i \in 1 .. Len(s) : t[i] = s[i]
      /\ t[Len(s) + 1] = v
    BY AppendProperties
<1>2. n \in Nat
    OBVIOUS
<1> HIDE DEF t
<1>3. /\ longer \in Seq(S) /\ Len(longer) = n + 1
      /\ \A k \in 1 .. n + 1 : longer[k] = t[f + k]
    BY <1>1, SubSeqProperties
<1>4. /\ shorter \in Seq(S) /\ Len(shorter) = n
      /\ \A k \in 1 .. n : shorter[k] = s[f + k]
    BY SubSeqProperties
<1> HIDE DEF longer, shorter
<1>5. /\ Append(shorter, v) \in Seq(S) /\ Len(Append(shorter, v)) = n + 1
      /\ \A k \in 1 .. n : Append(shorter, v)[k] = shorter[k]
      /\ Append(shorter, v)[n + 1] = v
    BY <1>4, AppendProperties
<1>6. ASSUME NEW k \in 1 .. n + 1
      PROVE  longer[k] = Append(shorter, v)[k]
    <2>1. longer[k] = t[f + k]
        BY <1>3
    <2>2. CASE k \in 1 .. n
        <3>1. f + k \in 1 .. Len(s)
            BY <2>2
        <3>2. t[f + k] = s[f + k]
            BY <1>1, <3>1
        <3>3. QED
            BY <1>4, <1>5, <2>1, <2>2, <3>2
    <2>3. CASE k = n + 1
        <3>1. f + k = Len(s) + 1
            BY <2>3
        <3>2. QED
            BY <1>1, <1>5, <2>1, <2>3, <3>1
    <2>4. k \in 1 .. n \/ k = n + 1
        BY <1>2
    <2>5. QED
        BY <2>2, <2>3, <2>4
<1>7. longer = Append(shorter, v)
    BY <1>3, <1>5, <1>6, SeqEqual
<1>8. QED
    BY <1>7 DEF longer, shorter, t

(* Claiming a position, published at once or not, appends its value: the   *)
(* cell given back a lap earlier leaves room in the queue.                 *)
LEMMA ClaimEnqueues ==
    ASSUME IInv, NEW v \in Values, HasRoom, log' = Append(log, v),
           UNCHANGED <<taken, freed>>
    PROVE  Fifo!Enqueue(v)
<1> USE CapacityAssumption
<1>1. Claimed' = Claimed + 1 /\ FirstHeld' = FirstHeld
    BY QueueType DEF Claimed, FirstHeld
<1>2. Len(Queue) < Capacity
    BY QueueType DEF HasRoom, FirstHeld, IInv, TakenWereReady, StorageTypeOK
<1>3. Handed' = Handed
    BY <1>1, QueueType DEF Handed, Claimed
<1>4. Queue' = Append(Queue, v)
    BY <1>1, QueueType, SuffixAppend DEF Queue, Claimed
<1>5. QED
    BY <1>2, <1>3, <1>4 DEF Fifo!Enqueue, Queue, Handed

(* When FirstHeld moves on, the head leaves the queue. *)
LEMMA AdvanceDequeues ==
    ASSUME IInv, FirstHeld < Claimed, FirstHeld' = FirstHeld + 1,
           log' = log
    PROVE  Fifo!Dequeue
<1>1. Claimed' = Claimed /\ log \in Seq(Values)
    BY QueueType DEF Claimed
<1>2. Queue # << >> /\ Head(Queue) = log[FirstHeld + 1]
    BY QueueType
<1>3. Handed' = <<Head(Queue)>>
    BY <1>2, QueueType DEF Handed
<1>4. /\ Queue' \in Seq(Values) /\ Len(Queue') = Claimed - FirstHeld - 1
      /\ \A k \in 1 .. Claimed - FirstHeld - 1 :
           Queue'[k] = log[FirstHeld + 1 + k]
    BY <1>1, QueueType, SubSeqProperties DEF Queue, Claimed
<1>5. /\ Tail(Queue) \in Seq(Values)
      /\ Len(Tail(Queue)) = Claimed - FirstHeld - 1
      /\ \A k \in 1 .. Claimed - FirstHeld - 1 : Tail(Queue)[k] = Queue[k + 1]
    BY <1>2, QueueType, HeadTailProperties
<1>6. ASSUME NEW k \in 1 .. Claimed - FirstHeld - 1
      PROVE  Queue'[k] = Tail(Queue)[k]
    <2>1. Queue'[k] = log[FirstHeld + 1 + k]
        BY <1>4
    <2>2. /\ k + 1 \in 1 .. Claimed - FirstHeld
          /\ FirstHeld + (k + 1) = FirstHeld + 1 + k
        BY QueueType, SMTT(30)
    <2>3. Tail(Queue)[k] = log[FirstHeld + 1 + k]
        BY <1>5, <2>2, QueueType
    <2>4. QED
        BY <2>1, <2>3
<1>7. Queue' = Tail(Queue)
    BY <1>4, <1>5, <1>6, SeqEqual
<1>8. QED
    BY <1>2, <1>3, <1>7 DEF Fifo!Dequeue, Queue, Handed

(* Nothing else moves the queue. *)
LEMMA QueueStutters ==
    ASSUME FirstHeld' = FirstHeld, log' = log
    PROVE  UNCHANGED Fifo!vars
BY DEF Fifo!vars, Claimed

(* The storage implements the bounded FIFO: values leave once each and in  *)
(* the order of their claims, and a claim never exceeds Capacity, although *)
(* cells are given back out of order.                                      *)
THEOREM StorageImplementsFifo == StorageSpec => FifoSpec
<1>1. StorageInit => Fifo!Init
    BY DEF StorageInit, Fifo!Init, FirstHeld, Claimed
<1>2. IInv /\ [StorageNext]_storageVars => [Fifo!Next]_(Fifo!vars)
    <2> SUFFICES ASSUME IInv, [StorageNext]_storageVars
                 PROVE  [Fifo!Next]_(Fifo!vars)
        OBVIOUS
    <2> USE DEF IInv, StorageTypeOK, TakenWereReady
    <2>0. Claimed \in Nat
        BY QueueType
    <2>1. ASSUME NEW v \in Values, Claim(v) PROVE Fifo!Next
        BY <2>1, ClaimEnqueues DEF Claim, Fifo!Next
    <2>2. ASSUME NEW v \in Values, PushAtOnce(v) PROVE Fifo!Next
        BY <2>2, ClaimEnqueues DEF PushAtOnce, Fifo!Next
    <2>3. ASSUME NEW p \in 0 .. Claimed - 1, Publish(p)
          PROVE  UNCHANGED Fifo!vars
        BY <2>3, QueueStutters DEF Publish, FirstHeld
    <2>4. ASSUME NEW p \in 0 .. Claimed - 1, Free(p)
          PROVE  [Fifo!Next]_(Fifo!vars)
        <3>1. CASE p = taken
            <4>1. FirstHeld = taken /\ FirstHeld' = FirstHeld + 1
                BY <2>4, <3>1 DEF Free, FirstHeld
            <4>2. QED
                BY <2>4, <3>1, <4>1, <2>0, AdvanceDequeues
                   DEF Free, Fifo!Next
        <3>2. CASE p # taken
            <4>1. FirstHeld' = FirstHeld
                BY <2>4, <3>2 DEF Free, FirstHeld
            <4>2. QED
                BY <2>4, <4>1, QueueStutters DEF Free
        <3>3. QED
            BY <3>1, <3>2
    <2>5. CASE Take
        <3>1. taken + 1 \notin freed
            BY <2>0
        <3>2. FirstHeld' = taken + 1
            BY <2>5, <3>1 DEF Take, FirstHeld
        <3>3. CASE taken \in freed
            BY <2>5, <3>2, <3>3, QueueStutters DEF Take, FirstHeld
        <3>4. CASE taken \notin freed
            <4>1. FirstHeld = taken /\ taken < Claimed
                BY <2>0, <2>5, <3>4 DEF Take, HasItem, FirstHeld
            <4>2. QED
                BY <2>5, <3>2, <4>1, AdvanceDequeues DEF Take, Fifo!Next
        <3>5. QED
            BY <3>3, <3>4
    <2>6. CASE PopAtOnce
        <3>1. taken + 1 \notin freed'
            BY <2>0, <2>6 DEF PopAtOnce
        <3>2. FirstHeld = taken /\ FirstHeld' = taken + 1 /\ taken < Claimed
            BY <2>0, <2>6, <3>1 DEF PopAtOnce, HasItem, FirstHeld
        <3>3. QED
            BY <2>6, <3>2, AdvanceDequeues DEF PopAtOnce, Fifo!Next
    <2>7. CASE UNCHANGED storageVars
        BY <2>7, QueueStutters DEF storageVars, FirstHeld
    <2>8. QED
        BY <2>1, <2>2, <2>3, <2>4, <2>5, <2>6, <2>7 DEF StorageNext
<1>3. QED
    BY <1>1, <1>2, StorageInductive, PTL DEF StorageSpec, FifoSpec, Fifo!Spec
-----------------------------------------------------------------------------
(***************************************************************************)
(* The parts of the inductive invariant.                                   *)
(***************************************************************************)
ThreadFields == DOMAIN NewThread
OpFields == DOMAIN NewOperation
Sides == {"push", "pop"}
Users(side) == IF side = "push" THEN Producers ELSE Consumers

(* Where a thread is, by what it may touch there. *)
Transferring(th) == th.pc \in {"push", "publish", "pop", "pop.free", "pop.advance"}
Starting == {"token", "register", "begin", "admit.fast", "enter.fast"}
Inside == {"enter", "waiting", "leave", "left", "wake"}
Served == {"front.push", "front.pop", "drop", "sweep", "sweep.all"}
Locked == Served \cup {"admit", "park", "settle", "close", "abort", "fail",
                       "cancel", "mark", "unlock"}
Unlocked == Starting \cup Inside
              \cup {"idle", "poll", "polled", "lock", "complete", "refused"}

Holding(th) ==
    \/ th.pc \in Locked
    \/ Transferring(th) /\ th.from \in {"reserved", "front"}
Reserving(th) ==
    \/ th.pc \in {"park", "settle"}
    \/ Transferring(th) /\ th.from = "reserved"
Fronting(th) ==
    \/ th.pc = "drop"
    \/ Transferring(th) /\ th.from = "front"

(* The thread that started an operation has not handed it on yet. *)
Carrying(t, th) ==
    /\ th.call \in Operations
    /\ \/ /\ th.goal = "start"
          /\ \/ ~th.ok
             \/ th.pc \in Starting \cup Inside
                            \cup {"lock", "admit", "park", "settle", "refused"}
             \/ Transferring(th) /\ th.from \in {"fast", "reserved"}
       \/ th.goal = "cancel" /\ t \notin Stoppable

OwnStart(t, th) ==
    th.goal = "start" /\ th.call \in Operations /\ t \in Users(SideOf(th.call))
OwnTry(t, th) ==
    th.goal = "service" /\ th.call \in TryValues /\ t \in Producers
OwnPoll(t, th) == th.goal = "service" /\ th.call = None /\ t \in Consumers

Shape(t, th) ==
    /\ DOMAIN th = ThreadFields
    /\ th.pc \in Locked \cup Unlocked \/ Transferring(th)
    /\ th.ok \in BOOLEAN /\ th.done \in Seq(Operations)
    /\ th.goal \in {"start", "service", "close", "abort", "cancel", None}
    /\ th.call \in Calls \cup {None}
    /\ th.goal = None <=> th.pc = "idle"
    /\ th.pc = "idle" => th = NewThread
    /\ th.goal = "start" => OwnStart(t, th)
    /\ th.goal = "cancel" => /\ th.call \in Stoppable
                             /\ th.pc \in {"lock", "cancel", "mark", "unlock",
                                           "complete"}
    /\ t \in Stoppable /\ th.pc # "idle" => th.goal = "cancel" /\ th.call = t
    /\ t \notin Stoppable /\ th.goal = "cancel" =>
         th.done = << >> /\ th.ok /\ t \in Users(SideOf(th.call))
    /\ th.pc \in Starting \cup {"admit", "park", "settle", "refused"} =>
         OwnStart(t, th)
    /\ th.pc \in {"token", "register"} => th.call \in Stoppable
    /\ th.pc \in Inside => OwnStart(t, th) \/ OwnTry(t, th)
    /\ th.pc \in {"poll", "polled"} => OwnPoll(t, th)
    /\ th.pc \in {"cancel", "mark"} => th.goal = "cancel"
    /\ th.pc \in {"close", "abort", "fail"} => th.goal \in {"close", "abort"}
    /\ th.pc \in Served => th.goal \notin {"cancel", "abort"}
    /\ th.pc = "complete" => th.done # << >>
    /\ th.pc \in Starting \cup Inside \cup {"poll", "polled", "admit", "park",
            "settle", "close", "abort", "fail", "cancel", "mark", "refused"} =>
         th.done = << >>
    /\ th.pc = "lock" /\ th.goal # "service" => th.done = << >>
    /\ /\ th.goal = "start"
       /\ th.pc \in Starting \cup {"enter", "waiting", "lock", "admit", "park", "settle"}
       => th.ok

(* What a thread is transferring, and on whose behalf. *)
Jobs(t, th) ==
    /\ Transferring(th) =>
         /\ th.from \in {"fast", "poll", "reserved", "front"}
         /\ th.goal \notin {"cancel", "abort"}
         /\ th.pc \in {"push", "publish"} => IsPush(th.job)
         /\ th.pc \in {"pop", "pop.free", "pop.advance"} =>
              th.job \in PopOps \cup {None}
         /\ th.from = "fast" => /\ th.job = th.call /\ th.done = << >>
                                /\ th.goal = "start" => th.ok
                                /\ OwnStart(t, th) \/ OwnTry(t, th)
         /\ th.from = "poll" => /\ th.job = None /\ th.done = << >>
                                /\ OwnPoll(t, th)
         /\ th.from = "reserved" => /\ th.job = th.call /\ th.ok /\ th.done = << >>
                                    /\ OwnStart(t, th)
         /\ th.from = "front" => th.job \in Operations
    /\ th.pc = "drop" => th.job \in Operations
    /\ th.pc = "poll" => th.job = None

Types ==
    /\ DOMAIN thread = Threads /\ DOMAIN op = Operations
    /\ DOMAIN waiting = Sides /\ DOMAIN pending = Sides
    /\ \A o \in Operations : DOMAIN op[o] = OpFields
    /\ pending["push"] \in Seq(PushOps) /\ pending["pop"] \in Seq(PopOps)
    /\ lock \in Threads \cup {None}

Shapes == \A t \in Threads : Shape(t, thread[t]) /\ Jobs(t, thread[t])

LockHeld == \A t \in Threads : lock = t <=> Holding(thread[t])

Heads ==
    \A t \in Threads :
        /\ Fronting(thread[t]) =>
             LET side == SideOf(thread[t].job) IN
             pending[side] # << >> /\ Head(pending[side]) = thread[t].job
        /\ At(t, "front.push") => pending["push"] # << >>
        /\ At(t, "front.pop") => pending["pop"] # << >>

Reserved(side) ==
    \E t \in Threads : Reserving(thread[t]) /\ SideOf(Call(t)) = side

Counted ==
    \A side \in Sides :
        waiting[side] = Len(pending[side]) + IF Reserved(side) THEN 1 ELSE 0

(* An operation is in one place at a time: with the thread that started    *)
(* it, in the list of waiters, or in the list of one thread that will      *)
(* complete it.                                                            *)
Injective(s) == \A i, j \in 1 .. Len(s) : s[i] = s[j] => i = j

Finishing(o) == \E t \in Threads : ListedIn(thread[t].done, o)

CarriedOnce ==
    \A t, u \in Threads :
        Carrying(t, thread[t]) /\ Carrying(u, thread[u]) /\ Call(t) = Call(u)
          => t = u

CarriedPhase ==
    \A t \in Threads : Carrying(t, thread[t]) =>
        /\ op[Call(t)].phase \in {"Starting", "StopRequested"}
        /\ ~Finishing(Call(t))

HandedPhase ==
    \A o \in Operations : Finishing(o) => op[o].phase \in {"Completing", "StopRequested"}

HandedOnce ==
    /\ \A t \in Threads : Injective(thread[t].done)
    /\ \A t, u \in Threads : \A o \in Operations :
         ListedIn(thread[t].done, o) /\ ListedIn(thread[u].done, o) => t = u

PendingPhase ==
    /\ \A side \in Sides : Injective(pending[side])
    /\ \A o \in Operations :
         op[o].phase = "Pending" <=> ListedIn(pending[SideOf(o)], o)

Signals ==
    \A o \in Operations :
        op[o].signals = IF op[o].phase = "Completed" THEN 1 ELSE 0

StopThreads ==
    /\ \A x \in Stoppable :
         /\ op[x].registered \/ thread[x].pc \in {"lock", "cancel", "mark"} =>
              op[x].phase \notin {"Constructed", "Completed"}
         /\ thread[x].pc # "idle" => op[x].phase # "Constructed"
    /\ \A t \in Threads :
         /\ At(t, "mark") => op[Call(t)].phase # "Pending"
         /\ thread[t].pc \in {"token", "register"} =>
              ~op[Call(t)].registered /\ At(Call(t), "idle")

BaseInv ==
    /\ Types /\ Shapes /\ LockHeld /\ Heads /\ Counted
    /\ CarriedOnce /\ CarriedPhase /\ HandedPhase /\ HandedOnce
    /\ PendingPhase /\ Signals /\ StopThreads

Using(t, side) ==
    /\ ~At(t, "idle") /\ thread[t].goal \notin {"close", "abort"}
    /\ t \in Users(side) /\ SideOf(Call(t)) = side
Multiple(side) == IF side = "push" THEN MultipleProducers ELSE MultipleConsumers
Fast(th, side) ==
    Transferring(th) /\ th.from \in {"fast", "poll"} /\ SideOf(th.job) = side

SingleUser ==
    \A side \in Sides : ~Multiple(side) =>
        /\ \A t, u \in Threads : Using(t, side) /\ Using(u, side) => t = u
        /\ \A t \in Threads : Fast(thread[t], side) => waiting[side] = 0
-----------------------------------------------------------------------------
OnlyThread(t) ==
    DOMAIN thread' = Threads /\ \A u \in Threads \ {t} : thread'[u] = thread[u]

(* A step that moves no operation to another place, and no list. *)
SameOperations ==
    /\ DOMAIN op' = Operations
    /\ \A o \in Operations :
         /\ DOMAIN op'[o] = OpFields
         /\ op'[o].phase = op[o].phase /\ op'[o].signals = op[o].signals
         /\ op'[o].registered = op[o].registered

SameLists == UNCHANGED <<waiting, pending>>

Quiet(t) ==
    /\ OnlyThread(t) /\ SameOperations /\ SameLists /\ lock' = lock
    /\ t \notin Stoppable
    /\ thread'[t].done = thread[t].done
    /\ Holding(thread'[t]) <=> Holding(thread[t])
    /\ Reserving(thread'[t]) <=> Reserving(thread[t])
    /\ Reserving(thread[t]) => thread'[t].call = thread[t].call
    /\ Fronting(thread'[t]) =>
         \/ Fronting(thread[t]) /\ thread'[t].job = thread[t].job
         \/ \E side \in Sides : /\ pending[side] # << >> /\ thread'[t].job = Head(pending[side])
                                /\ SideOf(thread'[t].job) = side
    /\ thread'[t].pc = "front.push" => pending["push"] # << >>
    /\ thread'[t].pc = "front.pop" => pending["pop"] # << >>
    /\ Carrying(t, thread'[t]) =>
         Carrying(t, thread[t]) /\ thread'[t].call = thread[t].call
    /\ thread'[t].pc \notin {"mark", "token", "register"}

LEMMA QuietStep ==
    ASSUME BaseInv, NEW t \in Threads, Quiet(t),
           Shape(t, thread'[t]), Jobs(t, thread'[t])
    PROVE  BaseInv'
<1> USE DEF Quiet, OnlyThread, SameOperations, SameLists
<1>1. Types'
    BY DEF BaseInv, Types
<1>2. Shapes'
    BY DEF BaseInv, Shapes
<1>3. LockHeld'
    BY DEF BaseInv, LockHeld
<1>4. Heads'
    BY DEF BaseInv, Heads, At
<1>5. Counted'
    <2>1. ASSUME NEW side \in Sides PROVE Reserved(side)' <=> Reserved(side)
        BY DEF Reserved, Call
    <2>2. QED
        BY <2>1 DEF BaseInv, Counted
<1>6. CarriedOnce'
    BY DEF BaseInv, CarriedOnce, Call
<1>7. ASSUME NEW o PROVE Finishing(o)' <=> Finishing(o)
    BY DEF Finishing
<1>8. CarriedPhase'
    BY <1>7 DEF BaseInv, CarriedPhase, Call, Carrying
<1>9. HandedPhase'
    BY <1>7 DEF BaseInv, HandedPhase
<1>10. HandedOnce'
    BY DEF BaseInv, HandedOnce
<1>11. PendingPhase'
    BY DEF BaseInv, PendingPhase
<1>12. Signals'
    BY DEF BaseInv, Signals
<1>13. StopThreads'
    <2>1. Stoppable \subseteq Operations /\ Stoppable \subseteq Threads
        BY QueueAssumption DEF Threads
    <2>2. ASSUME NEW u \in Threads, thread[u].pc \in {"token", "register", "mark"}
          PROVE  thread[u].call \in Stoppable
        BY <2>2 DEF BaseInv, Shapes, Shape
    <2>3. ASSUME NEW x \in Stoppable PROVE thread'[x] = thread[x]
        BY <2>1
    <2>4. QED
        BY <2>1, <2>2, <2>3 DEF BaseInv, StopThreads, At, Call
<1>14. QED
    BY <1>1, <1>2, <1>3, <1>4, <1>5, <1>6, <1>8, <1>9, <1>10, <1>11, <1>12, <1>13
       DEF BaseInv
(* The part of Quiet that is about the record of the thread. *)
Near(t, old, new) ==
    /\ Shape(t, new) /\ Jobs(t, new)
    /\ t \notin Stoppable /\ new.done = old.done
    /\ Holding(new) <=> Holding(old)
    /\ Reserving(new) <=> Reserving(old)
    /\ Reserving(old) => new.call = old.call
    /\ Fronting(new) => Fronting(old) /\ new.job = old.job
    /\ new.pc = "front.push" => pending["push"] # << >>
    /\ new.pc = "front.pop" => pending["pop"] # << >>
    /\ Carrying(t, new) => Carrying(t, old) /\ new.call = old.call
    /\ new.pc \notin {"mark", "token", "register"}

LEMMA NearStep ==
    ASSUME BaseInv, NEW t \in Threads, NEW new,
           thread' = [thread EXCEPT ![t] = new], Near(t, thread[t], new),
           SameOperations, SameLists, lock' = lock
    PROVE  BaseInv'
<1>1. OnlyThread(t) /\ thread'[t] = new
    BY DEF BaseInv, Types, OnlyThread
<1>2. Quiet(t) /\ Shape(t, thread'[t]) /\ Jobs(t, thread'[t])
    BY <1>1 DEF Near, Quiet
<1>3. QED
    BY <1>2, QuietStep

(* Nothing but the ring, the buffers and what operations say of transfers. *)
LEMMA BaseStutter ==
    ASSUME BaseInv, SameOperations, UNCHANGED <<thread, lock, waiting, pending>>
    PROVE  BaseInv'
<1> USE DEF SameOperations
<1>1. Types' /\ Shapes' /\ LockHeld' /\ Heads'
    BY DEF BaseInv, Types, Shapes, LockHeld, Heads, At
<1>2. Counted'
    BY DEF BaseInv, Counted, Reserved, Call
<1>3. CarriedOnce' /\ CarriedPhase' /\ HandedPhase' /\ HandedOnce'
    BY DEF BaseInv, CarriedOnce, CarriedPhase, HandedPhase, HandedOnce, Finishing,
           Call, Carrying
<1>4. PendingPhase' /\ Signals'
    BY DEF BaseInv, PendingPhase, Signals
<1>5. StopThreads'
    <2>1. ASSUME NEW t \in Threads, thread[t].pc \in {"token", "register", "mark"}
          PROVE  thread[t].call \in Operations
        BY <2>1, QueueAssumption DEF BaseInv, Shapes, Shape
    <2>2. Stoppable \subseteq Operations
        BY QueueAssumption
    <2>3. QED
        BY <2>1, <2>2 DEF BaseInv, StopThreads, At, Call
<1>6. QED
    BY <1>1, <1>2, <1>3, <1>4, <1>5 DEF BaseInv
-----------------------------------------------------------------------------
(* Steps of a call that move no operation. *)

LEMMA Fields ==
    /\ ThreadFields = {"pc", "goal", "call", "job", "from", "position", "ok",
                    "progress", "done"}
    /\ OpFields = {"phase", "moved", "budget", "result", "stop", "registered",
                   "signals"}
BY DEF ThreadFields, OpFields, NewThread, NewOperation

LEMMA Names ==
    /\ Stoppable \subseteq Operations /\ Stoppable \subseteq Threads
    /\ \A x \in Stoppable : x \notin Producers \cup Consumers \cup Controllers
    /\ Producers \subseteq Threads /\ Consumers \subseteq Threads
    /\ Controllers \subseteq Threads
BY QueueAssumption, NamesAssumption DEF Threads

LEMMA SameOp ==
    ASSUME BaseInv, op' = op PROVE SameOperations
BY DEF BaseInv, Types, SameOperations

LEMMA Shaped ==
    ASSUME BaseInv, NEW t \in Threads
    PROVE  /\ Shape(t, thread[t]) /\ Jobs(t, thread[t])
           /\ DOMAIN thread[t] = ThreadFields /\ DOMAIN thread = Threads
BY DEF BaseInv, Types, Shapes, Shape

(* A thread that starts a call of its own, which does not carry anything.  *)
LEMMA NewCall ==
    ASSUME BaseInv, NEW t \in Threads, t \notin Stoppable, At(t, "idle"),
           NEW th, thread' = [thread EXCEPT ![t] = th], DOMAIN th = ThreadFields,
           th.ok = FALSE, th.done = << >>, th.job = None,
           \/ /\ th.pc = "enter" /\ th.goal = "service"
              /\ th.call \in TryValues /\ t \in Producers
           \/ /\ th.pc = "poll" /\ th.goal = "service"
              /\ th.call = None /\ t \in Consumers
           \/ /\ th.pc = "lock" /\ th.goal \in {"close", "abort"}
              /\ th.call = None,
           UNCHANGED <<op, lock, waiting, pending>>
    PROVE  BaseInv'
<1>1. thread[t] = NewThread
    BY Shaped DEF Shape, At
<1>2. Shape(t, th) /\ Jobs(t, th)
    BY EmptySeq, Fields, NamesAssumption DEF Shape, Jobs, Locked, Unlocked, Starting,
        Inside, Served, Transferring, Calls, OwnStart, OwnTry, OwnPoll
<1>3. Near(t, thread[t], th)
    BY <1>1, <1>2, NamesAssumption
       DEF Near, NewThread, Holding, Reserving, Fronting, Carrying, Transferring, Locked, Served
<1>4. QED
    BY <1>3, SameOp, NearStep DEF SameLists

LEMMA BeginNewCall ==
    ASSUME BaseInv,
           \/ \E p \in Producers : \E v \in TryValues : TryPush(p, v)
           \/ \E c \in Consumers : TryPop(c)
           \/ \E k \in Controllers : Close(k) \/ Abort(k)
    PROVE  BaseInv'
<1>1. ASSUME NEW p \in Producers, NEW v \in TryValues, TryPush(p, v) PROVE BaseInv'
    <2> DEFINE th == [NewThread EXCEPT !.pc = "enter", !.goal = "service", !.call = v]
    <2>1. /\ DOMAIN th = ThreadFields /\ th.pc = "enter" /\ th.goal = "service"
          /\ th.call = v /\ th.ok = FALSE /\ th.done = << >>
          /\ th.job = None
        BY DEF NewThread, ThreadFields
    <2>2. thread' = [thread EXCEPT ![p] = th]
        BY <1>1 DEF TryPush
    <2> HIDE DEF th
    <2>3. QED
        BY <1>1, <2>1, <2>2, NewCall, Names DEF TryPush, waiters
<1>2. ASSUME NEW c \in Consumers, TryPop(c) PROVE BaseInv'
    <2> DEFINE th == [NewThread EXCEPT !.pc = "poll", !.goal = "service"]
    <2>1. /\ DOMAIN th = ThreadFields /\ th.pc = "poll" /\ th.goal = "service"
          /\ th.call = None /\ th.ok = FALSE /\ th.done = << >>
          /\ th.job = None
        BY DEF NewThread, ThreadFields
    <2>2. thread' = [thread EXCEPT ![c] = th]
        BY <1>2 DEF TryPop
    <2> HIDE DEF th
    <2>3. QED
        BY <1>2, <2>1, <2>2, NewCall, Names DEF TryPop, waiters, queueVars
<1>3. ASSUME NEW k \in Controllers, NEW goal \in {"close", "abort"}, EndQueue(k, goal)
      PROVE  BaseInv'
    <2> DEFINE th == [NewThread EXCEPT !.pc = "lock", !.goal = goal]
    <2>1. /\ DOMAIN th = ThreadFields /\ th.pc = "lock" /\ th.goal = goal
          /\ th.call = None /\ th.ok = FALSE /\ th.done = << >>
          /\ th.job = None
        BY DEF NewThread, ThreadFields
    <2>2. thread' = [thread EXCEPT ![k] = th]
        BY <1>3 DEF EndQueue
    <2> HIDE DEF th
    <2>3. QED
        BY <1>3, <2>1, <2>2, NewCall, Names DEF EndQueue, waiters, queueVars
<1>4. QED
    BY <1>1, <1>2, <1>3 DEF Close, Abort
-----------------------------------------------------------------------------
(* The steps of a call before and after its transfer. *)
LEMMA NearIdle ==
    ASSUME NEW t, t \notin Stoppable, NEW old, ~Holding(old), ~Reserving(old),
           old.done = << >>
    PROVE  Near(t, old, NewThread)
<1>1. /\ DOMAIN NewThread = ThreadFields /\ NewThread.pc = "idle"
      /\ NewThread.goal = None /\ NewThread.call = None /\ NewThread.ok = FALSE
      /\ NewThread.done = << >>
    BY DEF ThreadFields, NewThread
<1>2. Shape(t, NewThread) /\ Jobs(t, NewThread)
    BY <1>1, EmptySeq, NamesAssumption DEF Shape, Jobs, Locked, Unlocked, Starting,
       Inside, Served, Transferring
<1>3. QED
    BY <1>1, <1>2, NamesAssumption DEF Near, Holding, Reserving, Fronting, Carrying,
       Transferring, Locked, Served, Starting, Inside

LEMMA TryPopWaitingKept == ASSUME BaseInv, NEW t \in Threads, TryPopWaiting(t) PROVE BaseInv'
<1> DEFINE th == IF waiting.pop # 0 THEN NewThread
                 ELSE [thread[t] EXCEPT !.pc = "pop", !.from = "poll"]
<1>1. /\ thread' = [thread EXCEPT ![t] = th] /\ UNCHANGED <<lock, waiting, pending>>
      /\ SameOperations
    BY SameOp, Shaped DEF TryPopWaiting, queueVars, waiters, Goto, Call, At
<1>2. Near(t, thread[t], th)
    <2>1. CASE waiting.pop # 0
        <3>1. /\ t \notin Stoppable /\ thread[t].done = << >>
              /\ ~Holding(thread[t]) /\ ~Reserving(thread[t])
            BY Shaped DEF TryPopWaiting, Shape, Holding, Reserving, Transferring, Locked, Served, At
        <3>2. QED
            BY <2>1, <3>1, NearIdle
    <2>2. CASE waiting.pop = 0
        <3> DEFINE new == [thread[t] EXCEPT !.pc = "pop", !.from = "poll"]
        <3>1. Near(t, thread[t], new)
            BY <2>2, Shaped, Fields, EmptySeq, NamesAssumption DEF TryPopWaiting, Near, Shape, Jobs,
               Locked, Unlocked, Starting, Inside, Served, Transferring, Holding, Reserving,
               Fronting, Carrying, OwnStart, OwnTry, OwnPoll, At, Call
        <3>2. QED
            BY <2>2, <3>1
    <2>9. QED
        BY <2>1, <2>2
<1>3. QED
    BY <1>1, <1>2, NearStep DEF SameLists

LEMMA TryPopAfterKept == ASSUME BaseInv, NEW t \in Threads, TryPopAfter(t) PROVE BaseInv'
<1> DEFINE th == IF \/ thread[t].ok /\ waiting.push # 0
                    \/ ~thread[t].ok /\ Lifecycle(t) = "Closing"
                 THEN [thread[t] EXCEPT !.pc = "lock"] ELSE NewThread
<1>1. /\ thread' = [thread EXCEPT ![t] = th] /\ UNCHANGED <<lock, waiting, pending>>
      /\ SameOperations
    BY SameOp, Shaped DEF TryPopAfter, queueVars, waiters, Goto, Call, At
<1>2. Near(t, thread[t], th)
    <2>1. CASE th = NewThread
        <3>1. /\ t \notin Stoppable /\ thread[t].done = << >>
              /\ ~Holding(thread[t]) /\ ~Reserving(thread[t])
            BY Shaped DEF TryPopAfter, Shape, Holding, Reserving, Transferring, Locked, Served, At
        <3>2. QED
            BY <2>1, <3>1, NearIdle
    <2>2. CASE th = [thread[t] EXCEPT !.pc = "lock"]
        <3> DEFINE new == [thread[t] EXCEPT !.pc = "lock"]
        <3>1. Near(t, thread[t], new)
            BY <2>2, Shaped, Fields, EmptySeq, NamesAssumption DEF TryPopAfter, Near, Shape, Jobs,
               Locked, Unlocked, Starting, Inside, Served, Transferring, Holding, Reserving,
               Fronting, Carrying, OwnStart, OwnTry, OwnPoll, At, Call
        <3>2. QED
            BY <2>2, <3>1
    <2>9. QED
        BY <2>1, <2>2
<1>3. QED
    BY <1>1, <1>2, NearStep DEF SameLists

LEMMA StartPhaseKept == ASSUME BaseInv, NEW t \in Threads, StartPhase(t) PROVE BaseInv'
<1> DEFINE th == [thread[t] EXCEPT !.pc =
                    IF op[Call(t)].phase = "Starting" THEN "admit.fast" ELSE "refused"]
<1>1. /\ thread' = [thread EXCEPT ![t] = th] /\ UNCHANGED <<lock, waiting, pending>>
      /\ SameOperations
    BY SameOp, Shaped DEF StartPhase, queueVars, waiters, Goto, Call, At
<1>2. Near(t, thread[t], th)
    BY Shaped, Fields, EmptySeq, NamesAssumption DEF StartPhase, Near, Shape, Jobs,
       Locked, Unlocked, Starting, Inside, Served, Transferring, Holding, Reserving,
       Fronting, Carrying, OwnStart, OwnTry, OwnPoll, At, Call
<1>3. QED
    BY <1>1, <1>2, NearStep DEF SameLists

LEMMA StartLifecycleKept == ASSUME BaseInv, NEW t \in Threads, StartLifecycle(t) PROVE BaseInv'
<1> DEFINE th == [thread[t] EXCEPT !.pc =
            IF IsPush(Call(t))
            THEN IF Lifecycle(t) = "Open" THEN "enter.fast" ELSE "lock"
            ELSE IF Lifecycle(t) # "Aborted" THEN "waiting" ELSE "lock"]
<1>1. /\ thread' = [thread EXCEPT ![t] = th] /\ UNCHANGED <<lock, waiting, pending>>
      /\ SameOperations
    BY SameOp, Shaped DEF StartLifecycle, queueVars, waiters, Goto, Call, At
<1>2. Near(t, thread[t], th)
    BY Shaped, Fields, EmptySeq, NamesAssumption DEF StartLifecycle, Near, Shape, Jobs,
       Locked, Unlocked, Starting, Inside, Served, Transferring, Holding, Reserving,
       Fronting, Carrying, OwnStart, OwnTry, OwnPoll, At, Call
<1>3. QED
    BY <1>1, <1>2, NearStep DEF SameLists

LEMMA EnterProducerKept == ASSUME BaseInv, NEW t \in Threads, EnterProducer(t) PROVE BaseInv'
<1> DEFINE th == [thread[t] EXCEPT !.pc = "enter"]
<1>1. /\ thread' = [thread EXCEPT ![t] = th] /\ UNCHANGED <<lock, waiting, pending>>
      /\ SameOperations
    BY SameOp, Shaped DEF EnterProducer, queueVars, waiters, Goto, Call, At
<1>2. Near(t, thread[t], th)
    BY Shaped, Fields, EmptySeq, NamesAssumption DEF EnterProducer, Near, Shape, Jobs,
       Locked, Unlocked, Starting, Inside, Served, Transferring, Holding, Reserving,
       Fronting, Carrying, OwnStart, OwnTry, OwnPoll, At, Call
<1>3. QED
    BY <1>1, <1>2, NearStep DEF SameLists

LEMMA EnterOpenKept == ASSUME BaseInv, NEW t \in Threads, EnterOpen(t) PROVE BaseInv'
<1> DEFINE th == IF Lifecycle(t) = "Open" THEN [thread[t] EXCEPT !.pc = "waiting"]
                 ELSE [thread[t] EXCEPT !.pc = "leave", !.ok = FALSE]
<1>1. /\ thread' = [thread EXCEPT ![t] = th] /\ UNCHANGED <<lock, waiting, pending>>
      /\ SameOperations
    BY SameOp, Shaped DEF EnterOpen, queueVars, waiters, Goto, Call, At
<1>2. Near(t, thread[t], th)
    <2>1. CASE Lifecycle(t) = "Open"
        <3> DEFINE new == [thread[t] EXCEPT !.pc = "waiting"]
        <3>1. Near(t, thread[t], new)
            BY <2>1, Shaped, Fields, EmptySeq, NamesAssumption DEF EnterOpen, Near, Shape, Jobs,
               Locked, Unlocked, Starting, Inside, Served, Transferring, Holding, Reserving,
               Fronting, Carrying, OwnStart, OwnTry, OwnPoll, At, Call
        <3>2. QED
            BY <2>1, <3>1
    <2>2. CASE Lifecycle(t) # "Open"
        <3> DEFINE new == [thread[t] EXCEPT !.pc = "leave", !.ok = FALSE]
        <3>1. Near(t, thread[t], new)
            BY <2>2, Shaped, Fields, EmptySeq, NamesAssumption DEF EnterOpen, Near, Shape, Jobs,
               Locked, Unlocked, Starting, Inside, Served, Transferring, Holding, Reserving,
               Fronting, Carrying, OwnStart, OwnTry, OwnPoll, At, Call
        <3>2. QED
            BY <2>2, <3>1
    <2>9. QED
        BY <2>1, <2>2
<1>3. QED
    BY <1>1, <1>2, NearStep DEF SameLists

LEMMA AdmitStoppedKept == ASSUME BaseInv, NEW t \in Threads, AdmitStopped(t) PROVE BaseInv'
<1> DEFINE th == Scan([thread[t] EXCEPT !.ok = FALSE], pending)
<1>1. /\ thread' = [thread EXCEPT ![t] = th] /\ UNCHANGED <<lock, waiting, pending>>
      /\ SameOperations
    BY SameOp, Shaped DEF AdmitStopped, queueVars, waiters, Goto, Call, At
<1>2. Near(t, thread[t], th)
    BY Shaped, Fields, EmptySeq, NamesAssumption DEF AdmitStopped, Scan, Clear, Near, Shape, Jobs,
       Locked, Unlocked, Starting, Inside, Served, Transferring, Holding, Reserving,
       Fronting, Carrying, OwnStart, OwnTry, OwnPoll, At, Call
<1>3. QED
    BY <1>1, <1>2, NearStep DEF SameLists

LEMMA SweepKept == ASSUME BaseInv, NEW t \in Threads, Sweep(t) PROVE BaseInv'
<1> DEFINE th == [thread[t] EXCEPT !.pc =
                    IF ClosedAndEmpty(t) THEN "sweep.all" ELSE "unlock"]
<1>1. /\ thread' = [thread EXCEPT ![t] = th] /\ UNCHANGED <<lock, waiting, pending>>
      /\ SameOperations
    BY SameOp, Shaped DEF Sweep, queueVars, waiters, Goto, Call, At
<1>2. Near(t, thread[t], th)
    BY Shaped, Fields, EmptySeq, NamesAssumption DEF Sweep, Near, Shape, Jobs,
       Locked, Unlocked, Starting, Inside, Served, Transferring, Holding, Reserving,
       Fronting, Carrying, OwnStart, OwnTry, OwnPoll, At, Call
<1>3. QED
    BY <1>1, <1>2, NearStep DEF SameLists

LEMMA SetLifecycleKept == ASSUME BaseInv, NEW t \in Threads, SetLifecycle(t) PROVE BaseInv'
<1> DEFINE th == [thread[t] EXCEPT !.pc =
            IF IF thread[t].goal = "close" THEN lifecycle # "Open" ELSE lifecycle = "Aborted"
            THEN "unlock" ELSE "fail"]
<1>1. /\ thread' = [thread EXCEPT ![t] = th] /\ UNCHANGED <<lock, waiting, pending>>
      /\ SameOperations
    BY SameOp, Shaped DEF SetLifecycle, queueVars, waiters, Goto, Call, At
<1>2. Near(t, thread[t], th)
    BY Shaped, Fields, EmptySeq, NamesAssumption DEF SetLifecycle, Near, Shape, Jobs,
       Locked, Unlocked, Starting, Inside, Served, Transferring, Holding, Reserving,
       Fronting, Carrying, OwnStart, OwnTry, OwnPoll, At, Call
<1>3. QED
    BY <1>1, <1>2, NearStep DEF SameLists
-----------------------------------------------------------------------------
(* A call that tries the ring, or leaves it to the waiters.                *)
LEMMA FastPathKept == ASSUME BaseInv, NEW t \in Threads, FastPath(t) PROVE BaseInv'
<1> DEFINE x == Call(t)
           resolves == x \in PushOps /\ ~MaySuspend(x)
           behind == [thread[t] EXCEPT !.pc = IF IsPush(x) THEN "leave" ELSE "lock",
                                       !.ok = resolves \/ ~IsPush(x)]
           tries == [thread[t] EXCEPT !.pc = SideOf(x), !.job = x, !.from = "fast"]
<1>1. /\ thread' = [thread EXCEPT ![t] = IF Behind(x) THEN behind ELSE tries]
      /\ UNCHANGED <<lock, waiting, pending>>
    BY DEF FastPath, queueVars, waiters
<1>2. SameOperations
    <2>1. CASE Behind(x) /\ resolves
        BY <2>1, Fields DEF BaseInv, Types, SameOperations, FastPath, Operations
    <2>2. CASE ~(Behind(x) /\ resolves)
        BY <2>2, SameOp DEF FastPath
    <2>3. QED
        BY <2>1, <2>2
<1>3. Near(t, thread[t], behind)
    BY Shaped, Fields, NamesAssumption DEF FastPath, Near, Shape, Jobs,
       Locked, Unlocked, Starting, Inside, Served, Transferring, Holding, Reserving,
       Fronting, Carrying, OwnStart, OwnTry, OwnPoll, At, Call, Operations, IsPush
<1>4. Near(t, thread[t], tries)
    <2>1. tries.pc = IF IsPush(x) THEN "push" ELSE "pop"
        BY Shaped, Fields DEF SideOf
    <2>2. IsPush(x) \/ x \in PopOps
        BY Shaped DEF FastPath, At, Shape, Inside, OwnStart, OwnTry, IsPush, Operations, Call
    <2>3. QED
        BY <2>1, <2>2, Shaped, Fields, NamesAssumption DEF FastPath, Near, Shape, Jobs,
           Locked, Unlocked, Starting, Inside, Served, Transferring, Holding, Reserving,
           Fronting, Carrying, OwnStart, OwnTry, OwnPoll, At, Call, Operations, IsPush
<1> HIDE DEF behind, tries
<1>5. QED
    BY <1>1, <1>2, <1>3, <1>4, NearStep DEF SameLists

(* Leaving, if the call is not finished with that. *)
LEMMA DepartNear ==
    ASSUME BaseInv, NEW t \in Threads, At(t, "leave") \/ At(t, "left"), Depart(t, FALSE),
           UNCHANGED <<lock, waiting, pending>>
    PROVE  BaseInv'
<1> DEFINE th == thread[t]
           again == [th EXCEPT !.pc = "lock", !.ok = TRUE]
           wake == [th EXCEPT !.pc = "wake"]
<1>1. Near(t, th, again) \/ ~(th.goal = "start" /\ ~th.ok)
    BY Shaped, Fields, NamesAssumption DEF Near, Shape, Jobs,
       Locked, Unlocked, Starting, Inside, Served, Transferring, Holding, Reserving,
       Fronting, Carrying, OwnStart, OwnTry, OwnPoll, At
<1>2. Near(t, th, wake)
    BY Shaped, Fields, NamesAssumption DEF Near, Shape, Jobs,
       Locked, Unlocked, Starting, Inside, Served, Transferring, Holding, Reserving,
       Fronting, Carrying, OwnStart, OwnTry, OwnPoll, At
<1>3. Near(t, th, NewThread)
    <2>1. /\ t \notin Stoppable /\ th.done = << >> /\ ~Holding(th) /\ ~Reserving(th)
        BY Shaped DEF Shape, Inside, Holding, Reserving, Transferring, Locked, Served, At
    <2>2. QED
        BY <2>1, NearIdle
<1>4. \E new : thread' = [thread EXCEPT ![t] = new] /\ Near(t, th, new)
    <2>1. CASE th.goal = "start" /\ ~th.ok
        BY <1>1, <2>1, Shaped DEF Depart
    <2>2. CASE ~(th.goal = "start" /\ ~th.ok)
        BY <1>2, <1>3, <2>2, Shaped DEF Depart
    <2>3. QED
        BY <2>1, <2>2
<1>5. SameOperations
    BY SameOp DEF Depart
<1>6. QED
    BY <1>4, <1>5, NearStep DEF SameLists

LEMMA LeaveProducerKept ==
    ASSUME BaseInv, NEW t \in Threads, LeaveProducer(t) PROVE BaseInv'
<1>1. CASE active = 1
    <2> DEFINE new == [thread[t] EXCEPT !.pc = "left"]
    <2>1. /\ thread' = [thread EXCEPT ![t] = new] /\ UNCHANGED <<lock, waiting, pending>>
          /\ SameOperations
        BY <1>1, SameOp DEF LeaveProducer, Goto, waiters
    <2>2. Near(t, thread[t], new)
        BY Shaped, Fields, NamesAssumption DEF LeaveProducer, Near, Shape, Jobs,
           Locked, Unlocked, Starting, Inside, Served, Transferring, Holding, Reserving,
           Fronting, Carrying, OwnStart, OwnTry, OwnPoll, At
    <2>3. QED
        BY <2>1, <2>2, NearStep DEF SameLists
<1>2. CASE active # 1
    BY <1>2, DepartNear DEF LeaveProducer, waiters
<1>3. QED
    BY <1>1, <1>2
-----------------------------------------------------------------------------
(* The steps of a transfer.                                                *)

(* The thread that serves the waiters looks further. *)
Onward(new, th, lists) ==
    /\ DOMAIN new = ThreadFields
    /\ new.pc \in {"front.push", "front.pop", "sweep", "unlock"}
    /\ new.pc = "front.push" => lists["push"] # << >>
    /\ new.pc = "front.pop" => lists["pop"] # << >>
    /\ new.goal = th.goal /\ new.call = th.call /\ new.ok = th.ok /\ new.done = th.done

LEMMA ScanOnward ==
    ASSUME NEW th, DOMAIN th = ThreadFields, NEW lists
    PROVE  Onward(Scan(th, lists), th, lists)
BY Fields DEF Onward, Scan, Clear

LEMMA AfterFrontOnward ==
    ASSUME NEW th, DOMAIN th = ThreadFields, NEW side, NEW lists
    PROVE  Onward(AfterFront(th, side, lists), th, lists)
<1>1. CASE side = "push" /\ lists.pop # << >>
    BY <1>1, Fields DEF Onward, AfterFront, Clear
<1>2. CASE ~(side = "push" /\ lists.pop # << >>) /\ th.progress
    BY <1>2, ScanOnward DEF AfterFront
<1>3. CASE ~(side = "push" /\ lists.pop # << >>) /\ ~th.progress
    BY <1>3, Fields DEF Onward, AfterFront, Clear
<1>4. QED
    BY <1>1, <1>2, <1>3

LEMMA BackNear ==
    ASSUME BaseInv, NEW t \in Threads, Transferring(thread[t]), NEW result
    PROVE  Near(t, thread[t], Back(thread[t], result))
<1> DEFINE th == thread[t]
           new == Back(th, result)
<1>0. th.from \in {"fast", "poll", "reserved", "front"}
    BY Shaped DEF Jobs
<1>1. CASE th.from = "fast" /\ IsPush(th.job)
    <2>1. \E b \in BOOLEAN : new = [Clear(th) EXCEPT !.pc = "leave", !.ok = b]
        BY <1>1 DEF Back
    <2>2. PICK b \in BOOLEAN : new = [Clear(th) EXCEPT !.pc = "leave", !.ok = b]
        BY <2>1
    <2>3. /\ DOMAIN new = ThreadFields /\ new.pc = "leave" /\ new.ok = b /\ new.goal = th.goal
          /\ new.call = th.call /\ new.done = th.done
        BY <2>2, Shaped, Fields DEF Clear
    <2> HIDE DEF new
    <2>4. Shape(t, new)
        BY <1>1, <2>3, Shaped, NamesAssumption DEF Shape, Jobs, IsPush,
           Locked, Unlocked, Starting, Inside, Served, Transferring, OwnStart, OwnTry, OwnPoll
    <2>5. Jobs(t, new)
        BY <1>1, <2>3, Shaped DEF Jobs, Transferring
    <2>6. t \notin Stoppable
        BY Shaped DEF Shape, Jobs, Transferring
    <2>7. /\ Holding(new) <=> Holding(th)
          /\ Reserving(new) <=> Reserving(th)
          /\ Fronting(new) => Fronting(th) /\ new.job = th.job
        BY <1>1, <2>3 DEF Transferring, Holding, Reserving, Fronting, Locked, Served
    <2>8. Carrying(t, new) => Carrying(t, th)
        BY <1>1, <2>3, Shaped DEF Jobs, Transferring, Carrying, Starting, Inside
    <2>9. Near(t, th, new)
        BY <1>1, <2>3, <2>4, <2>5, <2>6, <2>7, <2>8 DEF Near
    <2>10. QED
        BY <2>9 DEF new
<1>2. CASE th.from = "fast" /\ ~IsPush(th.job)
    <2>1. \E pc \in {"wake", "lock"} : new = [Clear(th) EXCEPT !.pc = pc]
        BY <1>2 DEF Back
    <2>2. PICK pc \in {"wake", "lock"} : new = [Clear(th) EXCEPT !.pc = pc]
        BY <2>1
    <2>3. /\ DOMAIN new = ThreadFields /\ new.pc = pc /\ new.ok = th.ok /\ new.goal = th.goal
          /\ new.call = th.call /\ new.done = th.done
        BY <2>2, Shaped, Fields DEF Clear
    <2> HIDE DEF new
    <2>4. Shape(t, new)
        BY <1>2, <2>3, Shaped, NamesAssumption DEF Shape, Jobs, IsPush,
           Locked, Unlocked, Starting, Inside, Served, Transferring, OwnStart, OwnTry, OwnPoll
    <2>5. Jobs(t, new)
        BY <1>2, <2>3, Shaped DEF Jobs, Transferring
    <2>6. t \notin Stoppable
        BY Shaped DEF Shape, Jobs, Transferring
    <2>7. /\ Holding(new) <=> Holding(th)
          /\ Reserving(new) <=> Reserving(th)
          /\ Fronting(new) => Fronting(th) /\ new.job = th.job
        BY <1>2, <2>3 DEF Transferring, Holding, Reserving, Fronting, Locked, Served
    <2>8. Carrying(t, new) => Carrying(t, th)
        BY <1>2, <2>3, Shaped DEF Jobs, Transferring, Carrying, Starting, Inside
    <2>9. Near(t, th, new)
        BY <1>2, <2>3, <2>4, <2>5, <2>6, <2>7, <2>8 DEF Near
    <2>10. QED
        BY <2>9 DEF new
<1>3. CASE th.from = "poll"
    <2>1. \E b \in BOOLEAN : new = [Clear(th) EXCEPT !.pc = "polled", !.ok = b]
        BY <1>3 DEF Back
    <2>2. PICK b \in BOOLEAN : new = [Clear(th) EXCEPT !.pc = "polled", !.ok = b]
        BY <2>1
    <2>3. /\ DOMAIN new = ThreadFields /\ new.pc = "polled" /\ new.ok = b /\ new.goal = th.goal
          /\ new.call = th.call /\ new.done = th.done
        BY <2>2, Shaped, Fields DEF Clear
    <2> HIDE DEF new
    <2>4. Shape(t, new)
        BY <1>3, <2>3, Shaped, NamesAssumption DEF Shape, Jobs, IsPush,
           Locked, Unlocked, Starting, Inside, Served, Transferring, OwnStart, OwnTry, OwnPoll
    <2>5. Jobs(t, new)
        BY <1>3, <2>3, Shaped DEF Jobs, Transferring
    <2>6. t \notin Stoppable
        BY Shaped DEF Shape, Jobs, Transferring
    <2>7. /\ Holding(new) <=> Holding(th)
          /\ Reserving(new) <=> Reserving(th)
          /\ Fronting(new) => Fronting(th) /\ new.job = th.job
        BY <1>3, <2>3 DEF Transferring, Holding, Reserving, Fronting, Locked, Served
    <2>8. Carrying(t, new) => Carrying(t, th)
        BY <1>3, <2>3, Shaped, NamesAssumption
           DEF Jobs, Transferring, Carrying, Starting, Inside, OwnPoll, Calls
    <2>9. Near(t, th, new)
        BY <1>3, <2>3, <2>4, <2>5, <2>6, <2>7, <2>8 DEF Near
    <2>10. QED
        BY <2>9 DEF new
<1>4. CASE th.from = "reserved"
    <2>1. \E pc \in {"settle", "park"} : new = [th EXCEPT !.pc = pc]
        BY <1>4 DEF Back
    <2>2. PICK pc \in {"settle", "park"} : new = [th EXCEPT !.pc = pc]
        BY <2>1
    <2>3. /\ DOMAIN new = ThreadFields /\ new.pc = pc /\ new.ok = th.ok /\ new.goal = th.goal
          /\ new.call = th.call /\ new.done = th.done
        BY <2>2, Shaped, Fields DEF Clear
    <2> HIDE DEF new
    <2>4. Shape(t, new)
        BY <1>4, <2>3, Shaped, NamesAssumption DEF Shape, Jobs, IsPush,
           Locked, Unlocked, Starting, Inside, Served, Transferring, OwnStart, OwnTry, OwnPoll
    <2>5. Jobs(t, new)
        BY <1>4, <2>3, Shaped DEF Jobs, Transferring
    <2>6. t \notin Stoppable
        BY Shaped DEF Shape, Jobs, Transferring
    <2>7. /\ Holding(new) <=> Holding(th)
          /\ Reserving(new) <=> Reserving(th)
          /\ Fronting(new) => Fronting(th) /\ new.job = th.job
        BY <1>4, <2>3 DEF Transferring, Holding, Reserving, Fronting, Locked, Served
    <2>8. Carrying(t, new) => Carrying(t, th)
        BY <1>4, <2>3, Shaped DEF Jobs, Transferring, Carrying, Starting, Inside
    <2>9. Near(t, th, new)
        BY <1>4, <2>3, <2>4, <2>5, <2>6, <2>7, <2>8 DEF Near
    <2>10. QED
        BY <2>9 DEF new
<1>5. CASE th.from = "front" /\ result # None
    <2>2. new = [th EXCEPT !.pc = "drop"]
        BY <1>5 DEF Back
    <2>3. /\ DOMAIN new = ThreadFields /\ new.pc = "drop" /\ new.ok = th.ok /\ new.goal = th.goal
          /\ new.call = th.call /\ new.done = th.done /\ new.job = th.job
        BY <2>2, Shaped, Fields DEF Clear
    <2> HIDE DEF new
    <2>4. Shape(t, new)
        BY <1>5, <2>3, Shaped, NamesAssumption DEF Shape, Jobs, IsPush,
           Locked, Unlocked, Starting, Inside, Served, Transferring, OwnStart, OwnTry, OwnPoll
    <2>5. Jobs(t, new)
        BY <1>5, <2>3, Shaped DEF Jobs, Transferring
    <2>6. t \notin Stoppable
        BY Shaped DEF Shape, Jobs, Transferring
    <2>7. /\ Holding(new) <=> Holding(th)
          /\ Reserving(new) <=> Reserving(th)
          /\ Fronting(new) => Fronting(th) /\ new.job = th.job
        BY <1>5, <2>3 DEF Transferring, Holding, Reserving, Fronting, Locked, Served
    <2>8. Carrying(t, new) => Carrying(t, th)
        BY <1>5, <2>3, Shaped DEF Jobs, Transferring, Carrying, Starting, Inside
    <2>9. Near(t, th, new)
        BY <1>5, <2>3, <2>4, <2>5, <2>6, <2>7, <2>8 DEF Near
    <2>10. QED
        BY <2>9 DEF new
<1>6. CASE th.from = "front" /\ result = None
    <2>1. new = AfterFront(th, SideOf(th.job), pending)
        BY <1>6 DEF Back
    <2>2. Onward(new, th, pending)
        BY <2>1, Shaped, AfterFrontOnward
    <2> HIDE DEF new
    <2>4. Shape(t, new)
        BY <1>6, <2>2, Shaped, NamesAssumption DEF Onward, Shape, Jobs, IsPush,
           Locked, Unlocked, Starting, Inside, Served, Transferring, OwnStart, OwnTry, OwnPoll
    <2>5. Jobs(t, new)
        BY <1>6, <2>2, Shaped DEF Onward, Jobs, Transferring
    <2>6. t \notin Stoppable
        BY Shaped DEF Shape, Jobs, Transferring
    <2>7. /\ Holding(new) <=> Holding(th)
          /\ Reserving(new) <=> Reserving(th)
          /\ Fronting(new) => Fronting(th) /\ new.job = th.job
        BY <1>6, <2>2 DEF Onward, Transferring, Holding, Reserving, Fronting, Locked, Served
    <2>8. Carrying(t, new) => Carrying(t, th)
        BY <1>6, <2>2, Shaped DEF Onward, Jobs, Transferring, Carrying, Starting, Inside
    <2>9. Near(t, th, new)
        BY <1>6, <2>2, <2>4, <2>5, <2>6, <2>7, <2>8 DEF Onward, Near
    <2>10. QED
        BY <2>9 DEF new
<1>7. QED
    BY <1>0, <1>1, <1>2, <1>3, <1>4, <1>5, <1>6

LEMMA ConcludeKept ==
    ASSUME BaseInv, NEW t \in Threads, Transferring(thread[t]), NEW result, Conclude(t, result),
           UNCHANGED <<lock, waiting, pending>>
    PROVE  BaseInv'
<1>1. thread' = [thread EXCEPT ![t] = Back(thread[t], result)]
    BY Shaped DEF Conclude
<1>2. SameOperations
    BY Fields DEF Conclude, BaseInv, Types, SameOperations
<1>3. QED
    BY <1>1, <1>2, BackNear, NearStep DEF SameLists

(* A transfer that goes on. *)
GoesOn(new, old) ==
    /\ DOMAIN new = ThreadFields /\ Transferring(new)
    /\ new.pc \in {"push", "publish"} <=> old.pc \in {"push", "publish"}
    /\ new.goal = old.goal /\ new.call = old.call /\ new.job = old.job
    /\ new.from = old.from /\ new.ok = old.ok /\ new.done = old.done

LEMMA TransferGoesOn ==
    ASSUME BaseInv, NEW t \in Threads, Transferring(thread[t]),
           NEW new, GoesOn(new, thread[t]), thread' = [thread EXCEPT ![t] = new],
           SameOperations, UNCHANGED <<lock, waiting, pending>>
    PROVE  BaseInv'
<1> USE DEF GoesOn
<1> DEFINE th == thread[t]
<1>1. Shape(t, new)
    BY Shaped, NamesAssumption DEF Shape, Jobs, IsPush,
       Locked, Unlocked, Starting, Inside, Served, Transferring, OwnStart, OwnTry, OwnPoll
<1>2. Jobs(t, new)
    BY Shaped DEF Jobs, Transferring, OwnStart, OwnTry, OwnPoll
<1>3. t \notin Stoppable
    BY Shaped DEF Shape, Jobs, Transferring
<1>4. /\ Holding(new) <=> Holding(th)
      /\ Reserving(new) <=> Reserving(th)
      /\ Fronting(new) => Fronting(th) /\ new.job = th.job
    BY DEF Transferring, Holding, Reserving, Fronting, Locked, Served
<1>5. Carrying(t, new) => Carrying(t, th)
    BY Shaped DEF Jobs, Transferring, Carrying, Starting, Inside
<1>6. Near(t, th, new)
    BY <1>1, <1>2, <1>3, <1>4, <1>5 DEF Near, Transferring
<1>7. QED
    BY <1>6, NearStep DEF SameLists

(* What a consumer takes with it does not matter here, nor where it goes   *)
(* on, if it goes on.                                                      *)
LEMMA MoveHeadKept ==
    ASSUME BaseInv, NEW t \in Threads, thread[t].pc \in {"pop", "pop.advance"}, MoveHead(t),
           UNCHANGED <<lock, waiting, pending>>
    PROVE  BaseInv'
<1> DEFINE th == thread[t]
           frees == [th EXCEPT !.pc = "pop.free", !.position = taken]
           again == [th EXCEPT !.pc = "pop"]
<1>1. SameOperations
    BY Fields, SameOp DEF MoveHead, BaseInv, Types, SameOperations
<1>2. \/ thread' = [thread EXCEPT ![t] = Back(th, "Popped")]
      \/ thread' = [thread EXCEPT ![t] = frees]
      \/ thread' = [thread EXCEPT ![t] = again]
    BY DEF MoveHead
<1>3. Transferring(th)
    BY DEF Transferring
<1>4. GoesOn(frees, th) /\ GoesOn(again, th)
    BY Shaped, Fields DEF GoesOn, Transferring
<1> HIDE DEF frees, again
<1>5. QED
    BY <1>1, <1>2, <1>3, <1>4, TransferGoesOn, BackNear, NearStep DEF SameLists

LEMMA TransferStepKept ==
    ASSUME BaseInv, NEW t \in Threads, TransferStep(t) PROVE BaseInv'
<1> USE DEF queueVars, waiters, At
<1>1. CASE PushElement(t)
    BY <1>1, ConcludeKept, SameOp, BaseStutter DEF PushElement, Transferring
<1>2. CASE PushClaim(t)
    <2> DEFINE new == [thread[t] EXCEPT !.pc = "publish", !.position = Claimed]
    <2>1. GoesOn(new, thread[t]) /\ Transferring(thread[t])
        BY <1>2, Shaped, Fields DEF GoesOn, Transferring, PushClaim, PopRelease
    <2>2. thread' = [thread EXCEPT ![t] = new]
        BY <1>2, Shaped DEF PushClaim
    <2> HIDE DEF new
    <2>3. QED
        BY <1>2, <2>1, <2>2, TransferGoesOn, SameOp DEF PushClaim
<1>3. CASE PushPublish(t)
    BY <1>3, ConcludeKept DEF PushPublish, Transferring
<1>4. CASE PushUnplaced(t)
    <2>1. CASE UNCHANGED thread /\ op' = [op EXCEPT ![thread[t].job].budget = @ - 1]
        <3>1. SameOperations
            BY <2>1, Fields DEF BaseInv, Types, SameOperations
        <3>2. QED
            BY <1>4, <2>1, <3>1, BaseStutter DEF PushUnplaced
    <2>2. QED
        BY <1>4, <2>1, ConcludeKept DEF PushUnplaced, Transferring
<1>5. CASE PopElement(t)
    BY <1>5, MoveHeadKept DEF PopElement
<1>6. CASE PopTake(t)
    BY <1>6, MoveHeadKept DEF PopTake
<1>7. CASE PopFree(t)
    <2> DEFINE again == [thread[t] EXCEPT !.pc = "pop"]
    <2>1. CASE thread' = [thread EXCEPT ![t] = Back(thread[t], "Popped")]
        BY <1>7, <2>1, SameOp, BackNear, NearStep DEF SameLists, PopFree, Transferring
    <2>2. CASE thread' = [thread EXCEPT ![t] = again]
        <3>1. GoesOn(again, thread[t]) /\ Transferring(thread[t])
            BY <1>7, Shaped, Fields DEF GoesOn, Transferring, PopFree
        <3> HIDE DEF again
        <3>2. QED
            BY <1>7, <2>2, <3>1, TransferGoesOn, SameOp DEF PopFree
    <2>3. QED
        BY <1>7, <2>1, <2>2, Shaped DEF PopFree
<1>8. CASE PopRelease(t)
    <2> DEFINE new == [thread[t] EXCEPT !.pc = "pop.advance"]
    <2>1. GoesOn(new, thread[t]) /\ Transferring(thread[t])
        BY <1>8, Shaped, Fields DEF GoesOn, Transferring, PushClaim, PopRelease
    <2>2. thread' = [thread EXCEPT ![t] = new]
        BY <1>8, Shaped DEF PopRelease, Goto
    <2> HIDE DEF new
    <2>3. QED
        BY <1>8, <2>1, <2>2, TransferGoesOn, SameOp DEF PopRelease
<1>9. CASE PopAdvance(t)
    BY <1>9, MoveHeadKept DEF PopAdvance
<1>10. CASE PopNothing(t)
    BY <1>10, ConcludeKept DEF PopNothing, Transferring
<1>11. QED
    BY <1>1, <1>2, <1>3, <1>4, <1>5, <1>6, <1>7, <1>8, <1>9, <1>10 DEF TransferStep
-----------------------------------------------------------------------------
(* Lists of operations. *)
LEMMA ListedAppend ==
    ASSUME NEW S, NEW s \in Seq(S), NEW x \in S
    PROVE  /\ \A y : ListedIn(Append(s, x), y) <=> ListedIn(s, y) \/ y = x
           /\ Injective(s) /\ ~ListedIn(s, x) => Injective(Append(s, x))
<1>1. /\ Len(Append(s, x)) = Len(s) + 1 /\ Len(s) \in Nat
      /\ \A i \in 1 .. Len(s) : Append(s, x)[i] = s[i]
      /\ Append(s, x)[Len(s) + 1] = x
    BY AppendProperties, LenProperties
<1>2. QED
    BY <1>1 DEF ListedIn, Injective

LEMMA ListedTail ==
    ASSUME NEW S, NEW s \in Seq(S), s # << >>
    PROVE  /\ \A y : ListedIn(s, y) <=> ListedIn(Tail(s), y) \/ y = Head(s)
           /\ Injective(s) => Injective(Tail(s)) /\ ~ListedIn(Tail(s), Head(s))
           /\ Len(Tail(s)) = Len(s) - 1 /\ Tail(s) \in Seq(S) /\ Head(s) \in S
<1>1. /\ Len(Tail(s)) = Len(s) - 1 /\ Len(s) \in Nat \ {0}
      /\ \A i \in 1 .. Len(s) - 1 : Tail(s)[i] = s[i + 1]
      /\ Head(s) = s[1] /\ Tail(s) \in Seq(S) /\ s[1] \in S
    BY HeadTailProperties, EmptySeq, LenProperties, ElementOfSeq
<1>2. \A y : ListedIn(s, y) <=> ListedIn(Tail(s), y) \/ y = Head(s)
    <2>1. ASSUME NEW i \in 1 .. Len(s) PROVE i = 1 \/ (i - 1 \in 1 .. Len(Tail(s)) /\ Tail(s)[i - 1] = s[i])
        BY <1>1
    <2>2. ASSUME NEW i \in 1 .. Len(Tail(s)) PROVE i + 1 \in 1 .. Len(s) /\ s[i + 1] = Tail(s)[i]
        BY <1>1
    <2>3. 1 \in 1 .. Len(s)
        BY <1>1
    <2>4. QED
        BY <1>1, <2>1, <2>2, <2>3 DEF ListedIn
<1>3. Injective(s) => Injective(Tail(s)) /\ ~ListedIn(Tail(s), Head(s))
    BY <1>1 DEF ListedIn, Injective
<1>4. QED
    BY <1>1, <1>2, <1>3

LEMMA ListedConcat ==
    ASSUME NEW S, NEW s \in Seq(S), NEW r \in Seq(S)
    PROVE  /\ \A y : ListedIn(s \o r, y) <=> ListedIn(s, y) \/ ListedIn(r, y)
           /\ Injective(s) /\ Injective(r)
              /\ (\A y : ~(ListedIn(s, y) /\ ListedIn(r, y))) => Injective(s \o r)
<1>1. /\ Len(s \o r) = Len(s) + Len(r) /\ Len(s) \in Nat /\ Len(r) \in Nat
      /\ \A i \in 1 .. Len(s) + Len(r) :
           (s \o r)[i] = IF i <= Len(s) THEN s[i] ELSE r[i - Len(s)]
    BY ConcatProperties, LenProperties
<1>2. ASSUME NEW i \in 1 .. Len(s \o r)
      PROVE  \/ i \in 1 .. Len(s) /\ (s \o r)[i] = s[i]
             \/ i - Len(s) \in 1 .. Len(r) /\ (s \o r)[i] = r[i - Len(s)]
    BY <1>1
<1>3. ASSUME NEW i \in 1 .. Len(s) PROVE i \in 1 .. Len(s \o r) /\ (s \o r)[i] = s[i]
    BY <1>1
<1>4. ASSUME NEW i \in 1 .. Len(r)
      PROVE  i + Len(s) \in 1 .. Len(s \o r) /\ (s \o r)[i + Len(s)] = r[i]
    BY <1>1
<1>5. \A y : ListedIn(s \o r, y) <=> ListedIn(s, y) \/ ListedIn(r, y)
    BY <1>2, <1>3, <1>4 DEF ListedIn
<1>6. ASSUME Injective(s), Injective(r), \A y : ~(ListedIn(s, y) /\ ListedIn(r, y)),
             NEW i \in 1 .. Len(s \o r), NEW j \in 1 .. Len(s \o r),
             (s \o r)[i] = (s \o r)[j]
      PROVE  i = j
    <2>1. CASE i \in 1 .. Len(s) /\ j \in 1 .. Len(s)
        BY <1>3, <1>6, <2>1 DEF Injective
    <2>2. CASE i - Len(s) \in 1 .. Len(r) /\ j - Len(s) \in 1 .. Len(r)
        <3>1. (s \o r)[i] = r[i - Len(s)] /\ (s \o r)[j] = r[j - Len(s)]
            BY <1>1, <2>2
        <3>2. i - Len(s) = j - Len(s)
            BY <1>6, <2>2, <3>1 DEF Injective
        <3>3. QED
            BY <1>1, <3>2
    <2>3. ASSUME NEW k \in 1 .. Len(s), NEW m, m - Len(s) \in 1 .. Len(r)
          PROVE  s[k] # r[m - Len(s)]
        BY <1>6, <2>3 DEF ListedIn
    <2>4. QED
        BY <1>2, <1>6, <2>1, <2>2, <2>3
<1>7. QED
    BY <1>5, <1>6 DEF Injective

LEMMA ListedWithout ==
    ASSUME NEW S, NEW s \in Seq(S), NEW x, ListedIn(s, x), Injective(s)
    PROVE  /\ Without(s, x) \in Seq(S) /\ Len(Without(s, x)) = Len(s) - 1
           /\ Injective(Without(s, x))
           /\ \A y : ListedIn(Without(s, x), y) <=> ListedIn(s, y) /\ y # x
<1> DEFINE at == CHOOSE i \in 1 .. Len(s) : s[i] = x
           w == Without(s, x)
<1>1. at \in 1 .. Len(s) /\ s[at] = x
    BY DEF ListedIn
<1> HIDE DEF at
<1>2. Len(s) \in Nat /\ \A i \in 1 .. Len(s) : s[i] \in S
    BY LenProperties, ElementOfSeq
<1>3. w = [i \in 1 .. Len(s) - 1 |-> IF i < at THEN s[i] ELSE s[i + 1]]
    BY DEF Without, at
<1> HIDE DEF w
<1>4. \A i \in 1 .. Len(s) - 1 : (IF i < at THEN s[i] ELSE s[i + 1]) \in S
    BY <1>1, <1>2
<1>5. w \in Seq(S) /\ Len(w) = Len(s) - 1
    BY <1>1, <1>2, <1>3, <1>4
<1>6. ASSUME NEW i \in 1 .. Len(w)
      PROVE  \E k \in 1 .. Len(s) : k # at /\ w[i] = s[k]
    BY <1>1, <1>2, <1>3, <1>5
<1>7. ASSUME NEW k \in 1 .. Len(s), k # at PROVE \E i \in 1 .. Len(w) : w[i] = s[k]
    <2>1. CASE k < at
        BY <1>1, <1>2, <1>3, <1>5, <2>1, SMTT(30)
    <2>2. CASE k > at
        <3>1. k - 1 \in 1 .. Len(w) /\ w[k - 1] = s[k]
            BY <1>1, <1>2, <1>3, <1>5, <2>2
        <3>2. QED
            BY <3>1
    <2>3. QED
        BY <1>1, <1>2, <1>7, <2>1, <2>2
<1>8. \A y : ListedIn(w, y) <=> ListedIn(s, y) /\ y # x
    BY <1>1, <1>6, <1>7, SMTT(30) DEF ListedIn, Injective
<1>9. Injective(w)
    <2> SUFFICES ASSUME NEW i \in 1 .. Len(w), NEW j \in 1 .. Len(w), w[i] = w[j]
                 PROVE  i = j
        BY DEF Injective
    <2> DEFINE from(n) == IF n < at THEN n ELSE n + 1
    <2>1. from(i) \in 1 .. Len(s) /\ w[i] = s[from(i)] /\ from(j) \in 1 .. Len(s) /\ w[j] = s[from(j)]
        BY <1>1, <1>2, <1>3, <1>5
    <2>2. from(i) = from(j)
        BY <2>1 DEF Injective
    <2>3. QED
        BY <1>1, <1>2, <1>5, <2>2
<1>10. QED
    BY <1>5, <1>8, <1>9 DEF w

LEMMA ListedFew ==
    /\ \A x : ~ListedIn(<< >>, x)
    /\ Injective(<< >>)
    /\ \A x : Injective(<<x>>) /\ \A y : ListedIn(<<x>>, y) <=> y = x
BY DEF ListedIn, Injective
-----------------------------------------------------------------------------
(* What a step has to say of itself for the parts of the invariant to hold *)
(* afterwards: the thread and the lists on the one hand, ...               *)
LEMMA ShapeStep ==
    ASSUME BaseInv, NEW t \in Threads, OnlyThread(t),
           Shape(t, thread'[t]), Jobs(t, thread'[t])
    PROVE  Shapes'
BY DEF BaseInv, Shapes, OnlyThread

LockedLists(t) ==
    /\ lock' = lock
    /\ Holding(thread[t]) /\ Holding(thread'[t])
    /\ Fronting(thread'[t]) =>
         LET side == SideOf(thread'[t].job) IN
         pending'[side] # << >> /\ Head(pending'[side]) = thread'[t].job
    /\ thread'[t].pc = "front.push" => pending'["push"] # << >>
    /\ thread'[t].pc = "front.pop" => pending'["pop"] # << >>
    /\ \A side \in Sides :
         waiting'[side] = Len(pending'[side])
           + IF Reserving(thread'[t]) /\ SideOf(thread'[t].call) = side THEN 1 ELSE 0

LEMMA HolderAlone ==
    ASSUME BaseInv, NEW t \in Threads, Holding(thread[t]), NEW u \in Threads, u # t
    PROVE  /\ ~Holding(thread[u]) /\ ~Reserving(thread[u]) /\ ~Fronting(thread[u])
           /\ thread[u].pc \notin {"front.push", "front.pop", "mark"}
<1>1. ~Holding(thread[u])
    BY DEF BaseInv, LockHeld
<1>2. QED
    BY <1>1 DEF Holding, Reserving, Fronting, Locked, Served

LEMMA LockedStepLists ==
    ASSUME BaseInv, NEW t \in Threads, OnlyThread(t), LockedLists(t)
    PROVE  LockHeld' /\ Heads' /\ Counted'
<1>1. LockHeld'
    BY DEF BaseInv, LockHeld, LockedLists, OnlyThread
<1>2. Heads'
    BY HolderAlone DEF Heads, LockedLists, OnlyThread, At
<1>3. ASSUME NEW side \in Sides
      PROVE  Reserved(side)' <=> Reserving(thread'[t]) /\ SideOf(thread'[t].call) = side
    BY HolderAlone DEF Reserved, OnlyThread, LockedLists, Call
<1>4. Counted'
    BY <1>3 DEF Counted, LockedLists
<1>5. QED
    BY <1>1, <1>2, <1>4

(* ... and the operations on the other: the step moves those in M to the   *)
(* list of its thread, from its start or from the list of waiters.         *)
Moves(t, M) ==
    /\ DOMAIN op' = Operations /\ M \subseteq Operations
    /\ \A o \in Operations \ M :
         /\ op'[o].phase = op[o].phase /\ op'[o].signals = op[o].signals
         /\ op'[o].registered = op[o].registered
         /\ ListedIn(pending'[SideOf(o)], o) <=> ListedIn(pending[SideOf(o)], o)
         /\ ListedIn(thread'[t].done, o) => ListedIn(thread[t].done, o)
    /\ \A o \in M :
         /\ op[o].phase = "Pending" \/ (Carrying(t, thread[t]) /\ Call(t) = o)
         /\ op'[o].phase = "Completing" /\ op'[o].signals = op[o].signals
         /\ op'[o].registered = op[o].registered
         /\ ~ListedIn(pending'[SideOf(o)], o)
    /\ \A side \in Sides : Injective(pending'[side])
    /\ Injective(thread'[t].done)
    /\ Carrying(t, thread'[t]) =>
         /\ Carrying(t, thread[t]) /\ thread'[t].call = thread[t].call
         /\ thread'[t].call \notin M
    /\ thread'[t].pc \notin {"token", "register"}
    /\ thread'[t].pc = "mark" => /\ thread'[t].call \in Operations \ M
                                 /\ op[thread'[t].call].phase # "Pending"
    /\ t \in Stoppable =>
         /\ ~At(t, "idle")
         /\ thread'[t].pc \in {"lock", "cancel", "mark"} =>
              thread[t].pc \in {"lock", "cancel", "mark"}

LEMMA MovesKeepPlaces ==
    ASSUME BaseInv, NEW t \in Threads, OnlyThread(t), NEW M, Moves(t, M)
    PROVE  /\ CarriedOnce' /\ CarriedPhase' /\ HandedPhase' /\ HandedOnce'
           /\ PendingPhase' /\ Signals' /\ StopThreads'
<1> USE DEF OnlyThread
<1>1. ASSUME NEW o \in M
      PROVE  /\ ~Finishing(o) /\ o \in Operations
             /\ \A u \in Threads \ {t} : ~(Carrying(u, thread[u]) /\ Call(u) = o)
             /\ op[o].phase \notin {"Completed", "Constructed"}
    BY DEF Moves, BaseInv, CarriedOnce, CarriedPhase, HandedPhase
<1>2. CarriedOnce'
    BY DEF BaseInv, CarriedOnce, Call, Moves
<1>3. ASSUME NEW o \in Operations \ M PROVE Finishing(o)' => Finishing(o)
    BY DEF Finishing, Moves
<1>4. CarriedPhase'
    <2> SUFFICES ASSUME NEW u \in Threads, Carrying(u, thread'[u])
                 PROVE  /\ op'[thread'[u].call].phase \in {"Starting", "StopRequested"}
                        /\ \A v \in Threads : ~ListedIn(thread'[v].done, thread'[u].call)
        BY DEF CarriedPhase, Call, Finishing
    <2>1. Carrying(u, thread[u]) /\ thread'[u].call = thread[u].call
        BY DEF Moves
    <2>2. thread[u].call \in Operations \ M
        BY <1>1, <2>1 DEF Moves, Carrying, Call
    <2>3. \A v \in Threads : ~ListedIn(thread'[v].done, thread[u].call)
        BY <1>3, <2>1, <2>2 DEF BaseInv, CarriedPhase, Call, Finishing
    <2>4. QED
        BY <2>1, <2>2, <2>3 DEF Moves, BaseInv, CarriedPhase, Call
<1>5. HandedPhase'
    BY <1>3 DEF BaseInv, HandedPhase, Moves
<1>6. HandedOnce'
    <2>1. ASSUME NEW u \in Threads \ {t}, NEW o \in M PROVE ~ListedIn(thread'[u].done, o)
        BY <1>1 DEF Finishing
    <2>2. QED
        BY <2>1 DEF BaseInv, HandedOnce, Moves
<1>7. PendingPhase'
    BY DEF BaseInv, PendingPhase, Moves
<1>8. Signals'
    BY <1>1 DEF BaseInv, Signals, Moves
<1>9. StopThreads'
    <2>1. Stoppable \subseteq Operations /\ Stoppable \subseteq Threads
        BY Names
    <2>2. ASSUME NEW u \in Threads, thread[u].pc \in {"token", "register", "mark"}
          PROVE  thread[u].call \in Stoppable
        BY <2>2 DEF BaseInv, Shapes, Shape
    <2>3. ASSUME NEW x \in Stoppable, thread'[x].pc \in {"lock", "cancel", "mark"}
          PROVE  thread[x].pc \in {"lock", "cancel", "mark"}
        BY <2>1, <2>3 DEF Moves
    <2>4. \A x \in Stoppable :
            /\ op'[x].registered \/ thread'[x].pc \in {"lock", "cancel", "mark"} =>
                 op'[x].phase \notin {"Constructed", "Completed"}
            /\ thread'[x].pc # "idle" => op'[x].phase # "Constructed"
        BY <2>1, <2>3, <1>1 DEF Moves, BaseInv, StopThreads, At
    <2>5. ASSUME NEW u \in Threads, thread'[u].pc = "mark" PROVE op'[thread'[u].call].phase # "Pending"
        <3>1. CASE u = t
            BY <2>5, <3>1 DEF Moves
        <3>2. CASE u # t
            <4>1. thread'[u] = thread[u] /\ op[thread[u].call].phase # "Pending"
                BY <2>5, <3>2 DEF BaseInv, StopThreads, At, Call
            <4>2. QED
                BY <2>1, <2>2, <2>5, <4>1 DEF Moves
        <3>3. QED
            BY <3>1, <3>2
    <2>6. ASSUME NEW u \in Threads, thread'[u].pc \in {"token", "register"}
          PROVE  ~op'[thread'[u].call].registered /\ thread'[thread'[u].call].pc = "idle"
        BY <2>1, <2>2, <2>6, <1>1 DEF Moves, BaseInv, StopThreads, At, Call
    <2>7. QED
        BY <2>4, <2>5, <2>6 DEF StopThreads, At, Call
<1>10. QED
    BY <1>2, <1>4, <1>5, <1>6, <1>7, <1>8, <1>9
-----------------------------------------------------------------------------
LEMMA UnlockedLists ==
    ASSUME BaseInv, NEW t \in Threads, OnlyThread(t), SameLists, lock' = lock,
           ~Holding(thread[t]), ~Holding(thread'[t])
    PROVE  LockHeld' /\ Heads' /\ Counted'
<1> USE DEF OnlyThread, SameLists
<1>1. LockHeld'
    BY DEF BaseInv, LockHeld
<1>2. /\ ~Reserving(thread[t]) /\ ~Reserving(thread'[t]) /\ ~Fronting(thread'[t])
      /\ thread'[t].pc \notin {"front.push", "front.pop"}
    BY DEF Holding, Reserving, Fronting, Locked, Served
<1>3. Heads'
    BY <1>2 DEF BaseInv, Heads, At
<1>4. ASSUME NEW side PROVE Reserved(side)' <=> Reserved(side)
    BY <1>2 DEF Reserved, Call
<1>5. Counted'
    BY <1>4 DEF BaseInv, Counted
<1>6. QED
    BY <1>1, <1>3, <1>5

LEMMA LockChangesLists ==
    ASSUME BaseInv, NEW t \in Threads, OnlyThread(t), SameLists,
           \/ lock = None /\ lock' = t /\ Holding(thread'[t])
           \/ Holding(thread[t]) /\ lock' = None /\ ~Holding(thread'[t]),
           ~Reserving(thread[t]), ~Reserving(thread'[t]), ~Fronting(thread'[t]),
           thread'[t].pc = "front.push" => pending["push"] # << >>,
           thread'[t].pc = "front.pop" => pending["pop"] # << >>
    PROVE  LockHeld' /\ Heads' /\ Counted'
<1> USE DEF OnlyThread, SameLists
<1>1. LockHeld'
    BY NamesAssumption DEF BaseInv, LockHeld
<1>2. Heads'
    BY DEF BaseInv, Heads, At
<1>3. ASSUME NEW side PROVE Reserved(side)' <=> Reserved(side)
    BY DEF Reserved, Call
<1>4. Counted'
    BY <1>3 DEF BaseInv, Counted
<1>5. QED
    BY <1>1, <1>2, <1>4

(* Where an operation waits. *)
LEMMA PendingTypes ==
    ASSUME BaseInv
    PROVE  /\ \A side \in Sides : pending[side] \in Seq(Operations)
           /\ \A side \in Sides : \A o : ListedIn(pending[side], o) =>
                o \in Operations /\ SideOf(o) = side
           /\ \A side \in Sides : pending[side] # << >> =>
                /\ Head(pending[side]) \in Operations
                /\ SideOf(Head(pending[side])) = side
                /\ ListedIn(pending[side], Head(pending[side]))
           /\ \A x : SideOf(x) \in Sides
<1>1. pending["push"] \in Seq(PushOps) /\ pending["pop"] \in Seq(PopOps)
    BY DEF BaseInv, Types
<1>2. pending["push"] \in Seq(Operations) /\ pending["pop"] \in Seq(Operations)
    BY <1>1 DEF Operations
<1>3. \A o : ListedIn(pending["push"], o) => o \in Operations /\ SideOf(o) = "push"
    BY <1>1, ElementOfSeq DEF ListedIn, SideOf, IsPush, Operations
<1>4. \A o : ListedIn(pending["pop"], o) => o \in Operations /\ SideOf(o) = "pop"
    BY <1>1, ElementOfSeq, NamesAssumption DEF ListedIn, SideOf, IsPush, Operations
<1>5. \A side \in Sides : pending[side] # << >> => ListedIn(pending[side], Head(pending[side]))
    BY <1>2, ListedTail DEF Sides
<1>6. QED
    BY <1>2, <1>3, <1>4, <1>5 DEF Sides, SideOf

LEMMA FrontKept ==
    ASSUME BaseInv, NEW t \in Threads, NEW side \in Sides, Front(t, side) PROVE BaseInv'
<1> DEFINE x == Head(pending[side])
           tries == [thread[t] EXCEPT !.pc = SideOf(x), !.job = x, !.from = "front"]
           drops == [thread[t] EXCEPT !.pc = "drop", !.job = x]
<1>1. /\ UNCHANGED <<lock, waiting, pending>> /\ SameOperations
      /\ \/ thread' = [thread EXCEPT ![t] = tries]
         \/ thread' = [thread EXCEPT ![t] = drops]
    <2>1. UNCHANGED <<lock, waiting, pending>>
        BY DEF Front, queueVars, waiters
    <2>2. SameOperations
        BY Fields, SameOp DEF Front, BaseInv, Types, SameOperations
    <2>3. \/ thread' = [thread EXCEPT ![t] = tries]
          \/ thread' = [thread EXCEPT ![t] = drops]
        BY Shaped DEF Front, Transfer
    <2>4. QED
        BY <2>1, <2>2, <2>3
<1>2. pending[side] # << >> /\ x \in Operations /\ SideOf(x) = side
    BY PendingTypes DEF BaseInv, Heads, Front, Sides
<1>3. /\ x \in PushOps => side = "push"
      /\ x \in PopOps => side = "pop"
      /\ x \in PushOps \/ x \in PopOps
    BY <1>2, NamesAssumption DEF SideOf, IsPush, Operations
<1>4. ASSUME NEW new, thread' = [thread EXCEPT ![t] = new], new = tries \/ new = drops
      PROVE  BaseInv'
    <2>1. /\ DOMAIN new = ThreadFields
          /\ \/ new.pc = "drop"
             \/ new.pc = "push" /\ new.from = "front" /\ side = "push"
             \/ new.pc = "pop" /\ new.from = "front" /\ side = "pop"
          /\ new.goal = thread[t].goal /\ new.call = thread[t].call /\ new.job = x
          /\ new.ok = thread[t].ok /\ new.done = thread[t].done
        BY <1>2, <1>4, Shaped, Fields DEF Sides
    <2>2. OnlyThread(t) /\ thread'[t] = new
        BY <1>4 DEF BaseInv, Types, OnlyThread
    <2>3. At(t, "front.push") \/ At(t, "front.pop")
        BY DEF Front
    <2> HIDE DEF tries, drops, x
    <2>4. Shape(t, new)
        BY <2>1, <2>3, Shaped, NamesAssumption DEF Shape, Locked, Unlocked, Starting, Inside,
           Served, Transferring, OwnStart, OwnTry, OwnPoll, At
    <2>5. Jobs(t, new)
        BY <1>2, <1>3, <2>1, <2>3, Shaped DEF Jobs, Transferring, IsPush, Operations, Shape, Served, At
    <2>6. t \notin Stoppable
        BY <2>3, Shaped DEF Shape, Served, At
    <2>7. /\ Holding(new) /\ Holding(thread[t]) /\ ~Reserving(new) /\ ~Reserving(thread[t])
        BY <2>1, <2>3 DEF Transferring, Holding, Reserving, Locked, Served, At
    <2>8. Carrying(t, new) => Carrying(t, thread[t])
        BY <2>1, <2>3, Shaped DEF Shape, Transferring, Carrying, Starting, Inside, At
    <2>9. Quiet(t)
        BY <1>1, <1>2, <2>1, <2>2, <2>6, <2>7, <2>8 DEF Quiet, SameLists, x
    <2>10. QED
        BY <2>2, <2>4, <2>5, <2>9, QuietStep
<1>5. QED
    BY <1>1, <1>4
-----------------------------------------------------------------------------
(* Steps that list operations for completion.                              *)
LEMMA TypesStep ==
    ASSUME BaseInv, NEW t \in Threads, OnlyThread(t),
           DOMAIN op' = Operations, \A o \in Operations : DOMAIN op'[o] = OpFields,
           DOMAIN waiting' = Sides, DOMAIN pending' = Sides,
           pending'["push"] \in Seq(PushOps), pending'["pop"] \in Seq(PopOps),
           lock' \in Threads \cup {None}
    PROVE  Types'
BY DEF Types, OnlyThread

LEMMA BaseFrom ==
    ASSUME Types', Shapes', LockHeld' /\ Heads' /\ Counted',
           /\ CarriedOnce' /\ CarriedPhase' /\ HandedPhase' /\ HandedOnce'
           /\ PendingPhase' /\ Signals' /\ StopThreads'
    PROVE  BaseInv'
BY DEF BaseInv

(* The thread has tried the ring, or found the queue closing, and its      *)
(* operation is done with. *)
LEMMA FinishKept ==
    ASSUME BaseInv, NEW t \in Threads, NEW service \in BOOLEAN, Finish(t, service),
           \/ At(t, "wake")
           \/ At(t, "left") /\ ~(thread[t].goal = "start" /\ ~thread[t].ok),
           UNCHANGED <<lock, waiting, pending>>
    PROVE  BaseInv'
<1> DEFINE x == Call(t)
           th == thread[t]
           listed == IF x \in Operations THEN <<x>> ELSE << >>
           next == [th EXCEPT !.done = listed, !.goal = "service"]
           M == IF x \in Operations THEN {x} ELSE {}
           new == thread'[t]
<1>0. /\ t \notin Stoppable /\ th.done = << >> /\ ~Holding(th)
      /\ OwnStart(t, th) \/ OwnTry(t, th)
    BY Shaped DEF Shape, Inside, Holding, Transferring, Locked, Served, At
<1>1. thread' = [thread EXCEPT ![t] =
         IF service THEN [next EXCEPT !.pc = "lock"] ELSE Return(t, next)]
    BY DEF Finish
<1>2. OnlyThread(t)
    BY <1>1, Shaped DEF OnlyThread
<1>3. /\ DOMAIN next = ThreadFields /\ next.done = listed /\ next.goal = "service"
      /\ next.call = x /\ next.ok = th.ok
    BY Shaped, Fields DEF Call
<1>4. \/ /\ DOMAIN new = ThreadFields /\ new.pc \in {"lock", "complete"}
         /\ new.done = listed /\ new.goal = "service" /\ new.call = x /\ new.ok = th.ok
         /\ new.pc = "complete" => listed # << >>
      \/ new = NewThread /\ listed = << >>
    <2> HIDE DEF next, listed
    <2>1. CASE service
        BY <1>1, <1>3, <2>1, Shaped, Fields
    <2>2. CASE ~service /\ listed # << >>
        BY <1>1, <1>3, <2>2, Shaped, Fields DEF Return
    <2>3. CASE ~service /\ listed = << >>
        BY <1>1, <1>3, <2>3, Shaped, Fields DEF Return
    <2>4. QED
        BY <2>1, <2>2, <2>3
<1>5. /\ listed \in Seq(Operations) /\ Injective(listed)
      /\ \A o \in Operations : ListedIn(listed, o) <=> o \in M
    BY ListedFew, EmptySeq
<1> HIDE DEF next, listed
<1>6. Shape(t, new) /\ Jobs(t, new)
    <2>1. CASE new = NewThread
        BY <1>0, <2>1, NearIdle DEF Near, Holding, Reserving, Transferring, Locked
    <2>2. CASE new # NewThread
        BY <1>0, <1>4, <1>5, <2>2, Shaped, NamesAssumption DEF Shape, Jobs, Locked, Unlocked, Starting,
           Inside, Served, Transferring, OwnStart, OwnTry, OwnPoll, Call
    <2>3. QED
        BY <2>1, <2>2
<1>7. NewThread.done = << >> /\ NewThread.pc = "idle" /\ NewThread.call = None
    BY DEF NewThread
<1>8. /\ ~Holding(new) /\ ~Carrying(t, new) /\ new.done = listed
      /\ new.pc \notin {"mark", "token", "register"}
    <2>1. new.pc \in {"lock", "complete", "idle"} /\ new.done = listed
        BY <1>4, <1>7
    <2>2. new.goal = "service" \/ new.call = None
        BY <1>4, <1>7
    <2>3. QED
        BY <2>1, <2>2, NamesAssumption DEF Holding, Carrying, Transferring, Locked, Served, Calls
<1>9. LockHeld' /\ Heads' /\ Counted'
    BY <1>0, <1>2, <1>8, UnlockedLists DEF SameLists
<1>10. x \in Operations => /\ Carrying(t, th) /\ ~ListedIn(pending[SideOf(x)], x)
                           /\ op[x].phase \in {"Starting", "StopRequested"}
    <2>1. x \in Operations => th.goal = "start"
        BY <1>0, NamesAssumption DEF OwnStart, OwnTry, Call
    <2>2. x \in Operations => Carrying(t, th)
        BY <2>1 DEF Carrying, Inside, At, Call
    <2>3. QED
        BY <2>2 DEF BaseInv, CarriedPhase, PendingPhase, Call
<1>11. /\ DOMAIN op' = Operations /\ \A o \in Operations : DOMAIN op'[o] = OpFields
       /\ \A o \in Operations \ M : op'[o] = op[o]
       /\ \A o \in M : /\ op'[o].phase = "Completing" /\ op'[o].signals = op[o].signals
                       /\ op'[o].registered = op[o].registered
    BY Fields DEF BaseInv, Types, Finish, Call
<1>12. Moves(t, M)
    BY <1>0, <1>5, <1>8, <1>10, <1>11 DEF Moves, BaseInv, PendingPhase, At, Call
<1>13. Types'
    BY <1>2, <1>11, TypesStep DEF BaseInv, Types
<1>14. QED
    BY <1>2, <1>6, <1>9, <1>12, <1>13, BaseFrom, ShapeStep, MovesKeepPlaces

LEMMA WakeKept ==
    ASSUME BaseInv, NEW t \in Threads, Wake(t) PROVE BaseInv'
<1>1. (waiting[Opposite(Call(t))] # 0) \in BOOLEAN
    OBVIOUS
<1>2. QED
    BY <1>1, FinishKept DEF Wake, queueVars, waiters

LEMMA LastProducerLeftKept ==
    ASSUME BaseInv, NEW t \in Threads, LastProducerLeft(t) PROVE BaseInv'
<1>1. CASE Lifecycle(t) = "Closing" /\ ~(thread[t].goal = "start" /\ ~thread[t].ok)
    BY <1>1, FinishKept DEF LastProducerLeft, Depart, queueVars, waiters
<1>2. CASE ~(Lifecycle(t) = "Closing" /\ ~(thread[t].goal = "start" /\ ~thread[t].ok))
    <2>1. Depart(t, FALSE)
        BY <1>2 DEF LastProducerLeft, Depart
    <2>2. QED
        BY <2>1, DepartNear DEF LastProducerLeft, queueVars, waiters
<1>3. QED
    BY <1>1, <1>2
-----------------------------------------------------------------------------
(* The holder of the lock. *)
LEMMA LockedMove ==
    ASSUME BaseInv, NEW t \in Threads, NEW M, OnlyThread(t),
           Shape(t, thread'[t]), Jobs(t, thread'[t]), LockedLists(t), Moves(t, M),
           DOMAIN op' = Operations, \A o \in Operations : DOMAIN op'[o] = OpFields,
           DOMAIN waiting' = Sides, DOMAIN pending' = Sides,
           pending'["push"] \in Seq(PushOps), pending'["pop"] \in Seq(PopOps)
    PROVE  BaseInv'
<1>1. lock' \in Threads \cup {None}
    BY DEF LockedLists, BaseInv, Types
<1>2. QED
    BY <1>1, TypesStep, ShapeStep, LockedStepLists, MovesKeepPlaces, BaseFrom

LEMMA OnwardShape ==
    ASSUME NEW t, NEW th, Shape(t, th), th.pc # "idle", th.goal \notin {"cancel", "abort"},
           NEW mid, mid.goal = th.goal, mid.call = th.call, mid.ok \in BOOLEAN,
           mid.done \in Seq(Operations), NEW lists, NEW new, Onward(new, mid, lists)
    PROVE  /\ Shape(t, new) /\ Jobs(t, new) /\ t \notin Stoppable
           /\ Holding(new) /\ ~Reserving(new) /\ ~Fronting(new)
           /\ Carrying(t, new) => /\ new.call \in Operations /\ new.goal = "start"
                                  /\ ~new.ok
           /\ new.pc \notin {"mark", "token", "register"}
<1>1. Shape(t, new)
    BY NamesAssumption DEF Onward, Shape, Locked, Unlocked, Starting,
       Inside, Served, Transferring, OwnStart, OwnTry, OwnPoll
<1>2. Jobs(t, new) /\ Holding(new) /\ ~Reserving(new) /\ ~Fronting(new)
    BY DEF Onward, Jobs, Transferring, Holding, Reserving, Fronting, Locked, Served
<1>3. t \notin Stoppable
    BY DEF Shape
<1>4. Carrying(t, new) => /\ new.call \in Operations /\ new.goal = "start" /\ ~new.ok
    BY DEF Onward, Carrying, Transferring, Starting, Inside
<1>5. QED
    BY <1>1, <1>2, <1>3, <1>4 DEF Onward

(* What the holder has to say of the waiters it counts. *)
LEMMA CountOf ==
    ASSUME BaseInv, NEW t \in Threads, Holding(thread[t])
    PROVE  \A side \in Sides :
             waiting[side] = Len(pending[side])
               + IF Reserving(thread[t]) /\ SideOf(Call(t)) = side THEN 1 ELSE 0
<1>1. ASSUME NEW side PROVE Reserved(side) <=> Reserving(thread[t]) /\ SideOf(Call(t)) = side
    BY HolderAlone DEF Reserved
<1>2. QED
    BY <1>1 DEF BaseInv, Counted

LEMMA Lengths ==
    ASSUME BaseInv PROVE \A side \in Sides : Len(pending[side]) \in Nat
BY PendingTypes, LenProperties

(* The thread's own operation is settled under the lock. *)
LEMMA SettledKept ==
    ASSUME BaseInv, NEW t \in Threads, At(t, "admit") \/ At(t, "settle"), NEW result,
           Settled(t, Call(t), result), UNCHANGED <<lock, pending>>,
           DOMAIN waiting' = Sides,
           \A side \in Sides : waiting'[side] = Len(pending[side])
    PROVE  BaseInv'
<1> DEFINE x == Call(t)
           th == thread[t]
           mid == [th EXCEPT !.done = Append(thread[t].done, x)]
           new == thread'[t]
<1>1. /\ OwnStart(t, th) /\ th.ok /\ th.done = << >> /\ th.pc # "idle"
      /\ Holding(th) /\ Carrying(t, th) /\ x \in Operations
    BY Shaped DEF Shape, OwnStart, At, Call, Holding, Carrying, Locked
<1>2. thread' = [thread EXCEPT ![t] = Scan(mid, pending)]
    BY Shaped DEF Settled
<1>3. /\ DOMAIN mid = ThreadFields /\ mid.goal = th.goal /\ mid.call = th.call
      /\ mid.ok = th.ok /\ mid.done = Append(th.done, x)
    BY Shaped, Fields
<1> HIDE DEF mid
<1>4. /\ mid.done \in Seq(Operations) /\ Injective(mid.done)
      /\ \A o : ListedIn(mid.done, o) <=> o = x
    BY <1>1, <1>3, EmptySeq, ListedFew, ListedAppend
<1>5. OnlyThread(t) /\ new = Scan(mid, pending)
    BY <1>2, Shaped DEF OnlyThread
<1>6. Onward(new, mid, pending)
    BY <1>3, <1>5, ScanOnward
<1>7. /\ Shape(t, new) /\ Jobs(t, new) /\ t \notin Stoppable
      /\ Holding(new) /\ ~Reserving(new) /\ ~Fronting(new) /\ ~Carrying(t, new)
      /\ new.pc \notin {"mark", "token", "register"} /\ new.done = mid.done
    <2>1. mid.ok \in BOOLEAN /\ new.ok = th.ok /\ th.goal = "start" /\ Shape(t, th)
        BY <1>1, <1>3, <1>6, Shaped DEF Onward, OwnStart
    <2>2. QED
        BY <1>1, <1>3, <1>4, <1>6, <2>1, OnwardShape, ZenonT(40) DEF Onward
<1>8. LockedLists(t)
    BY <1>1, <1>6, <1>7, Lengths DEF LockedLists, Onward
<1>9. /\ DOMAIN op' = Operations /\ \A o \in Operations : DOMAIN op'[o] = OpFields
      /\ \A o \in Operations \ {x} : op'[o] = op[o]
      /\ op'[x].phase = "Completing" /\ op'[x].signals = op[x].signals
      /\ op'[x].registered = op[x].registered
    BY <1>1, Fields DEF BaseInv, Types, Settled, MarkCompleting
<1>10. ~ListedIn(pending[SideOf(x)], x)
    BY <1>1 DEF BaseInv, CarriedPhase, PendingPhase, Call
<1>11. Moves(t, {x})
    BY <1>1, <1>4, <1>7, <1>9, <1>10 DEF Moves, BaseInv, PendingPhase, At, Call
<1>12. QED
    BY <1>5, <1>7, <1>8, <1>9, <1>11, LockedMove DEF BaseInv, Types

LEMMA AdmitRefusedKept ==
    ASSUME BaseInv, NEW t \in Threads, AdmitRefused(t) PROVE BaseInv'
<1>1. Holding(thread[t]) /\ ~Reserving(thread[t])
    BY DEF AdmitRefused, At, Holding, Reserving, Locked, Served, Transferring
<1>2. \A side \in Sides : waiting[side] = Len(pending[side])
    <2>1. \A side \in Sides : waiting[side] = Len(pending[side]) + 0
        BY <1>1, CountOf
    <2>2. QED
        BY <2>1, Lengths
<1>3. QED
    BY <1>2, SettledKept DEF AdmitRefused, queueVars, waiters, BaseInv, Types

LEMMA SettleKept ==
    ASSUME BaseInv, NEW t \in Threads, Settle(t) PROVE BaseInv'
<1>1. Holding(thread[t]) /\ Reserving(thread[t])
    BY DEF Settle, At, Holding, Reserving, Locked, Served, Transferring
<1>2. \A side \in Sides : waiting'[side] = Len(pending[side])
    BY <1>1, CountOf, Lengths DEF Settle, BaseInv, Types
<1>3. QED
    BY <1>2, SettledKept DEF Settle, BaseInv, Types

LEMMA DropKept ==
    ASSUME BaseInv, NEW t \in Threads, Drop(t) PROVE BaseInv'
<1> DEFINE x == thread[t].job
           side == SideOf(x)
           th == thread[t]
           mid == [th EXCEPT !.progress = TRUE, !.done = Append(thread[t].done, x)]
           new == thread'[t]
<1>1. /\ th.pc = "drop" /\ Holding(th) /\ ~Reserving(th) /\ Fronting(th) /\ x \in Operations
      /\ th.goal \notin {"cancel", "abort"} /\ th.ok \in BOOLEAN /\ th.done \in Seq(Operations)
    BY Shaped DEF Drop, At, Holding, Reserving, Fronting, Locked, Served, Transferring, Shape, Jobs
<1>2. side \in Sides /\ pending[side] # << >> /\ Head(pending[side]) = x
    BY <1>1, PendingTypes DEF BaseInv, Heads
<1>3. pending' = [pending EXCEPT ![side] = Tail(pending[side])]
    BY DEF Drop
<1>4. /\ DOMAIN pending' = Sides /\ pending'[side] = Tail(pending[side])
      /\ \A s \in Sides \ {side} : pending'[s] = pending[s]
    BY <1>2, <1>3 DEF BaseInv, Types
<1>5. /\ \A o : ListedIn(pending[side], o) <=> ListedIn(pending'[side], o) \/ o = x
      /\ Injective(pending'[side]) /\ ~ListedIn(pending'[side], x)
      /\ Len(pending'[side]) = Len(pending[side]) - 1
    BY <1>2, <1>4, PendingTypes, ListedTail DEF BaseInv, PendingPhase
<1>6. pending'["push"] \in Seq(PushOps) /\ pending'["pop"] \in Seq(PopOps)
    <2>1. pending["push"] \in Seq(PushOps) /\ pending["pop"] \in Seq(PopOps)
        BY DEF BaseInv, Types
    <2>2. CASE side = "push"
        <3>1. pending["push"] # << >>
            BY <1>2, <2>2
        <3>2. Tail(pending["push"]) \in Seq(PushOps)
            BY <2>1, <3>1, ListedTail
        <3>3. QED
            BY <1>4, <2>1, <2>2, <3>2 DEF Sides
    <2>3. CASE side = "pop"
        <3>1. pending["pop"] # << >>
            BY <1>2, <2>3
        <3>2. Tail(pending["pop"]) \in Seq(PopOps)
            BY <2>1, <3>1, ListedTail
        <3>3. QED
            BY <1>4, <2>1, <2>3, <3>2 DEF Sides
    <2>4. QED
        BY <1>2, <2>2, <2>3 DEF Sides
<1>7. thread' = [thread EXCEPT ![t] = AfterFront(mid, side, pending')]
    BY Shaped DEF Drop
<1>8. /\ DOMAIN mid = ThreadFields /\ mid.goal = th.goal /\ mid.call = th.call
      /\ mid.ok = th.ok /\ mid.done = Append(th.done, x)
    BY Shaped, Fields
<1> HIDE DEF mid
<1>9. /\ op[x].phase = "Pending" /\ ~ListedIn(th.done, x)
    BY <1>1, <1>2, <1>5 DEF BaseInv, PendingPhase, HandedPhase, Finishing
<1>10. /\ mid.done \in Seq(Operations) /\ Injective(mid.done)
       /\ \A o : ListedIn(mid.done, o) <=> ListedIn(th.done, o) \/ o = x
    BY <1>1, <1>8, <1>9, ListedAppend, AppendProperties DEF BaseInv, HandedOnce
<1>11. OnlyThread(t) /\ new = AfterFront(mid, side, pending')
    BY <1>7, Shaped DEF OnlyThread
<1>12. Onward(new, mid, pending')
    BY <1>8, <1>11, AfterFrontOnward
<1>13. /\ Shape(t, new) /\ Jobs(t, new) /\ t \notin Stoppable
       /\ Holding(new) /\ ~Reserving(new) /\ ~Fronting(new)
       /\ new.pc \notin {"mark", "token", "register"} /\ new.done = mid.done
       /\ Carrying(t, new) => Carrying(t, th) /\ new.call = th.call
    <2>1. Shape(t, th) /\ mid.ok \in BOOLEAN /\ th.pc # "idle"
        BY <1>1, <1>8, Shaped
    <2>2. /\ Shape(t, new) /\ Jobs(t, new) /\ t \notin Stoppable
          /\ Holding(new) /\ ~Reserving(new) /\ ~Fronting(new)
          /\ Carrying(t, new) => new.call \in Operations /\ new.goal = "start" /\ ~new.ok
          /\ new.pc \notin {"mark", "token", "register"}
        BY <1>1, <1>8, <1>10, <1>12, <2>1, OnwardShape
    <2>3. new.goal = th.goal /\ new.call = th.call /\ new.ok = th.ok /\ new.done = mid.done
        BY <1>8, <1>12 DEF Onward
    <2>4. QED
        BY <2>2, <2>3 DEF Carrying
<1>14. LockedLists(t)
    <2>1. ASSUME NEW s \in Sides PROVE waiting'[s] = Len(pending'[s])
        BY <1>1, <1>2, <1>4, <1>5, CountOf, Lengths DEF Drop, BaseInv, Types
    <2>2. \A s \in Sides : Len(pending'[s]) \in Nat
        BY <1>6, LenProperties DEF Sides
    <2>3. \A s \in Sides : waiting'[s] = Len(pending'[s]) + 0
        BY <2>1, <2>2
    <2>4. lock' = lock
        BY DEF Drop
    <2>5. QED
        BY <1>1, <1>12, <1>13, <2>3, <2>4 DEF LockedLists, Onward
<1>15. /\ DOMAIN op' = Operations /\ \A o \in Operations : DOMAIN op'[o] = OpFields
       /\ \A o \in Operations \ {x} : op'[o] = op[o]
       /\ op'[x].phase = "Completing" /\ op'[x].signals = op[x].signals
       /\ op'[x].registered = op[x].registered
    BY <1>1, Fields DEF BaseInv, Types, Drop, MarkCompleting
<1>16. Moves(t, {x})
    <2>1. Carrying(t, new) => new.call # x
        BY <1>9, <1>13 DEF BaseInv, CarriedPhase, Call
    <2>2. \A s \in Sides : Injective(pending'[s])
        BY <1>2, <1>4, <1>5 DEF BaseInv, PendingPhase
    <2>3. \A o \in Operations \ {x} :
             ListedIn(pending'[SideOf(o)], o) <=> ListedIn(pending[SideOf(o)], o)
        BY <1>2, <1>4, <1>5, PendingTypes
    <2>4. QED
        BY <1>1, <1>5, <1>9, <1>10, <1>13, <1>15, <2>1, <2>2, <2>3 DEF Moves
<1>17. DOMAIN waiting' = Sides
    BY DEF Drop, BaseInv, Types
<1>18. QED
    BY <1>4, <1>6, <1>11, <1>13, <1>14, <1>15, <1>16, <1>17, LockedMove
-----------------------------------------------------------------------------
(* Counting a waiter, parking it.                                          *)
LEMMA AdmitReservedKept ==
    ASSUME BaseInv, NEW t \in Threads, AdmitReserved(t) PROVE BaseInv'
<1> DEFINE x == Call(t)
           side == SideOf(x)
           th == thread[t]
           parks == [th EXCEPT !.pc = "park"]
           tries == [th EXCEPT !.pc = SideOf(x), !.job = x, !.from = "reserved"]
           new == thread'[t]
<1>1. /\ th.pc = "admit" /\ OwnStart(t, th) /\ th.ok /\ th.done = << >>
      /\ Holding(th) /\ ~Reserving(th) /\ Carrying(t, th) /\ x \in Operations
      /\ t \notin Stoppable
    BY Shaped DEF AdmitReserved, Shape, OwnStart, At, Call, Holding, Reserving, Carrying,
       Locked, Served, Transferring
<1>2. /\ x \in PushOps => side = "push"
      /\ x \in PopOps => side = "pop"
      /\ x \in PushOps \/ x \in PopOps
      /\ side \in Sides
    BY <1>1, NamesAssumption DEF SideOf, IsPush, Operations, Sides
<1>3. /\ OnlyThread(t) /\ lock' = lock /\ pending' = pending /\ op' = op
      /\ new = parks \/ new = tries
      /\ waiting' = [waiting EXCEPT ![side] = @ + 1]
    BY Shaped DEF AdmitReserved, OnlyThread, Goto, Transfer
<1>4. /\ DOMAIN new = ThreadFields /\ new.goal = th.goal /\ new.call = x
      /\ new.ok = th.ok /\ new.done = th.done
      /\ \/ new.pc = "park"
         \/ new.pc = "push" /\ new.from = "reserved" /\ new.job = x /\ x \in PushOps
         \/ new.pc = "pop" /\ new.from = "reserved" /\ new.job = x /\ x \in PopOps
    BY <1>2, <1>3, Shaped, Fields DEF Call
<1> HIDE DEF parks, tries
<1>5. Shape(t, new)
    BY <1>1, <1>4, Shaped, NamesAssumption DEF Shape, Locked, Unlocked, Starting,
       Inside, Served, Transferring, OwnStart, OwnTry, OwnPoll, Call
<1>6. Jobs(t, new)
    BY <1>1, <1>4 DEF Jobs, Transferring, IsPush, OwnStart, Call
<1>7. Holding(new) /\ Reserving(new) /\ ~Fronting(new)
    BY <1>4 DEF Holding, Reserving, Fronting, Transferring, Locked, Served
<1>8. LockedLists(t)
    <2>1. \A s \in Sides : waiting[s] = Len(pending[s]) + 0
        BY <1>1, CountOf
    <2>2. \A s \in Sides : waiting'[s] = Len(pending[s]) + IF side = s THEN 1 ELSE 0
        BY <1>2, <1>3, <2>1, Lengths DEF BaseInv, Types
    <2>3. QED
        BY <1>1, <1>3, <1>4, <1>7, <2>2, ZenonT(40) DEF LockedLists
<1>9. Moves(t, {})
    BY <1>1, <1>3, <1>4, ListedFew DEF Moves, BaseInv, Types, PendingPhase, Call
<1>10. QED
    BY <1>3, <1>5, <1>6, <1>8, <1>9, LockedMove DEF BaseInv, Types

LEMMA ParkKept ==
    ASSUME BaseInv, NEW t \in Threads, Park(t) PROVE BaseInv'
<1> DEFINE x == Call(t)
           side == SideOf(x)
           th == thread[t]
           new == thread'[t]
<1>1. /\ th.pc = "park" /\ OwnStart(t, th) /\ th.ok /\ th.done = << >> /\ th.goal = "start"
      /\ Holding(th) /\ Reserving(th) /\ Carrying(t, th) /\ x \in Operations
      /\ t \notin Stoppable
    BY Shaped DEF Park, Shape, OwnStart, At, Call, Holding, Reserving, Carrying,
       Locked, Served, Transferring
<1>2. side \in Sides /\ pending' = [pending EXCEPT ![side] = Append(pending[side], x)]
    BY PendingTypes DEF Park
<1>3. /\ DOMAIN pending' = Sides /\ pending'[side] = Append(pending[side], x)
      /\ \A s \in Sides \ {side} : pending'[s] = pending[s]
    BY <1>2 DEF BaseInv, Types
<1>4. ~ListedIn(pending[side], x) /\ op[x].phase \in {"Starting", "StopRequested"} /\ ~Finishing(x)
    BY <1>1 DEF BaseInv, CarriedPhase, PendingPhase, Call
<1>5. pending[side] \in Seq(Operations) /\ Injective(pending[side])
    BY <1>2, PendingTypes DEF BaseInv, PendingPhase
<1>6. /\ \A o : ListedIn(pending'[side], o) <=> ListedIn(pending[side], o) \/ o = x
      /\ Injective(pending'[side]) /\ Len(pending'[side]) = Len(pending[side]) + 1
    BY <1>1, <1>3, <1>4, <1>5, ListedAppend, AppendProperties
<1>7. pending'["push"] \in Seq(PushOps) /\ pending'["pop"] \in Seq(PopOps)
    <2>1. pending["push"] \in Seq(PushOps) /\ pending["pop"] \in Seq(PopOps)
        BY DEF BaseInv, Types
    <2>2. CASE x \in PushOps
        <3>1. side = "push"
            BY <2>2 DEF SideOf, IsPush
        <3>2. Append(pending["push"], x) \in Seq(PushOps)
            BY <2>1, <2>2, AppendProperties
        <3>3. pending'["push"] = Append(pending["push"], x) /\ pending'["pop"] = pending["pop"]
            BY <1>3, <3>1 DEF Sides
        <3>4. QED
            BY <2>1, <3>2, <3>3
    <2>3. CASE x \in PopOps
        <3>1. side = "pop"
            BY <2>3, NamesAssumption DEF SideOf, IsPush, Operations
        <3>2. Append(pending["pop"], x) \in Seq(PopOps)
            BY <2>1, <2>3, AppendProperties
        <3>3. pending'["pop"] = Append(pending["pop"], x) /\ pending'["push"] = pending["push"]
            BY <1>3, <3>1 DEF Sides
        <3>4. QED
            BY <2>1, <3>2, <3>3
    <2>4. QED
        BY <1>1, <2>2, <2>3 DEF Operations
<1>8. OnlyThread(t) /\ new = Scan(th, pending')
    BY Shaped DEF Park, OnlyThread
<1>9. Onward(new, th, pending')
    BY <1>8, Shaped, ScanOnward
<1>10. /\ Shape(t, new) /\ Jobs(t, new)
       /\ Holding(new) /\ ~Reserving(new) /\ ~Fronting(new) /\ ~Carrying(t, new)
       /\ new.pc \notin {"mark", "token", "register"} /\ new.done = th.done
    <2>1. new.ok = th.ok /\ new.done = th.done /\ th.done \in Seq(Operations) /\ th.ok \in BOOLEAN
        BY <1>9, Shaped DEF Onward, Shape
    <2>2. QED
        BY <1>1, <1>9, <2>1, Shaped, OnwardShape
<1>11. LockedLists(t)
    <2>1. \A s \in Sides : Len(pending'[s]) \in Nat
        BY <1>7, LenProperties DEF Sides
    <2>2. \A s \in Sides : waiting[s] = Len(pending[s]) + IF side = s THEN 1 ELSE 0
        BY <1>1, CountOf
    <2>3. \A s \in Sides : waiting'[s] = Len(pending'[s]) + 0
        BY <1>3, <1>6, <2>1, <2>2, Lengths DEF Park
    <2>4. QED
        BY <1>1, <1>9, <1>10, <2>3 DEF LockedLists, Onward, Park
<1>12. /\ DOMAIN op' = Operations /\ \A o \in Operations : DOMAIN op'[o] = OpFields
       /\ \A o \in Operations \ {x} : op'[o] = op[o]
       /\ op'[x].phase = "Pending" /\ op'[x].signals = op[x].signals
       /\ op'[x].registered = op[x].registered
    BY <1>1, Fields DEF BaseInv, Types, Park
<1>13. \A o \in Operations \ {x} :
          ListedIn(pending'[SideOf(o)], o) <=> ListedIn(pending[SideOf(o)], o)
    BY <1>3, <1>6, PendingTypes
<1>14. \A u \in Threads : thread'[u].done = thread[u].done
    BY <1>8, <1>10 DEF OnlyThread
<1>15. \A u \in Threads : Carrying(u, thread'[u]) =>
          /\ Carrying(u, thread[u]) /\ thread'[u] = thread[u] /\ thread[u].call \in Operations \ {x}
    <2>1. \A u \in Threads : Carrying(u, thread'[u]) => u # t /\ thread'[u] = thread[u]
        BY <1>8, <1>10 DEF OnlyThread
    <2>2. \A u \in Threads \ {t} : Carrying(u, thread[u]) => thread[u].call \in Operations \ {x}
        BY <1>1 DEF BaseInv, CarriedOnce, Carrying, Call
    <2>3. QED
        BY <2>1, <2>2
<1>16. CarriedOnce' /\ CarriedPhase'
    BY <1>12, <1>14, <1>15 DEF BaseInv, CarriedOnce, CarriedPhase, Finishing, Call
<1>17. HandedPhase' /\ HandedOnce'
    BY <1>4, <1>12, <1>14 DEF BaseInv, HandedPhase, HandedOnce, Finishing
<1>18. PendingPhase'
    <2>1. \A s \in Sides : Injective(pending'[s])
        BY <1>3, <1>6 DEF BaseInv, PendingPhase
    <2>2. \A o \in Operations : op'[o].phase = "Pending" <=> ListedIn(pending'[SideOf(o)], o)
        BY <1>6, <1>12, <1>13 DEF BaseInv, PendingPhase
    <2>3. QED
        BY <2>1, <2>2 DEF PendingPhase
<1>19. Signals'
    BY <1>4, <1>12 DEF BaseInv, Signals
<1>20. StopThreads'
    <2>1. \A u \in Threads : thread'[u].pc \in {"mark", "token", "register", "lock", "cancel"} =>
            u # t /\ thread'[u] = thread[u] /\ thread[u].pc # "mark"
        BY <1>1, <1>8, <1>9, HolderAlone DEF OnlyThread, Onward
    <2>2. ASSUME NEW u \in Threads, thread[u].pc \in {"token", "register"}
          PROVE  thread[u].call \in Stoppable
        BY <2>2 DEF BaseInv, Shapes, Shape
    <2>3. \A u \in Stoppable : thread'[u] = thread[u]
        BY <1>1, <1>8, Names DEF OnlyThread
    <2>4. QED
        BY <1>12, <2>1, <2>2, <2>3, Names DEF BaseInv, StopThreads, At, Call
<1>21. Types'
    <2>1. lock' \in Threads \cup {None}
        BY DEF Park, BaseInv, Types
    <2>2. DOMAIN waiting' = Sides
        BY DEF Park, BaseInv, Types
    <2>3. QED
        BY <1>3, <1>7, <1>8, <1>12, <2>1, <2>2, TypesStep
<1>22. QED
    BY <1>8, <1>10, <1>11, <1>16, <1>17, <1>18, <1>19, <1>20, <1>21,
       BaseFrom, ShapeStep, LockedStepLists
-----------------------------------------------------------------------------
(* Whole lists at once: the end of the queue or of the stream.             *)
LEMMA DrainKept ==
    ASSUME BaseInv, NEW t \in Threads, NEW sides, NEW result, DrainAll(t, sides, result),
           \/ At(t, "sweep.all") /\ sides = {"pop"}
           \/ At(t, "fail") /\ thread[t].goal = "close" /\ sides = {"push"}
           \/ At(t, "fail") /\ sides = {"push", "pop"}
    PROVE  BaseInv'
<1> DEFINE drained(side) == IF side \in sides THEN pending[side] ELSE << >>
           all == drained("push") \o drained("pop")
           listed == thread[t].done \o all
           th == thread[t]
           ends == [th EXCEPT !.done = listed, !.pc = "unlock"]
           mid == [th EXCEPT !.done = listed]
           new == thread'[t]
           M == {x \in Operations : ListedIn(all, x)}
<1>1. /\ Holding(th) /\ ~Reserving(th) /\ th.pc # "idle" /\ th.goal # "cancel"
      /\ "pop" \notin sides => th.goal = "close"
      /\ t \notin Stoppable /\ th.ok \in BOOLEAN /\ th.done \in Seq(Operations)
      /\ sides \subseteq Sides
    BY Shaped DEF Shape, At, Holding, Reserving, Locked, Served, Transferring, Sides
<1>2. /\ drained("push") \in Seq(Operations) /\ drained("pop") \in Seq(Operations)
      /\ \A side \in Sides : \A x : ListedIn(drained(side), x) <=>
           side \in sides /\ ListedIn(pending[side], x)
      /\ Injective(drained("push")) /\ Injective(drained("pop"))
    <2>1. \A side \in Sides : Injective(pending[side])
        BY DEF BaseInv, PendingPhase
    <2>2. QED
        BY <2>1, PendingTypes, EmptySeq, ListedFew DEF Sides
<1>3. \A x : ~(ListedIn(drained("push"), x) /\ ListedIn(drained("pop"), x))
    BY <1>2, PendingTypes DEF Sides
<1> HIDE DEF drained
<1>4. /\ all \in Seq(Operations) /\ Injective(all)
      /\ \A x : ListedIn(all, x) <=> \E side \in sides : ListedIn(pending[side], x)
    <2>1. all \in Seq(Operations)
        BY <1>2, ConcatProperties
    <2>2. /\ \A x : ListedIn(all, x) <=> ListedIn(drained("push"), x) \/ ListedIn(drained("pop"), x)
          /\ Injective(all)
        BY <1>2, <1>3, ListedConcat
    <2>3. QED
        BY <1>1, <1>2, <2>1, <2>2 DEF Sides
<1>5. \A x : ListedIn(all, x) => op[x].phase = "Pending" /\ ~ListedIn(th.done, x)
    BY <1>1, <1>4, PendingTypes DEF BaseInv, PendingPhase, HandedPhase, Finishing
<1>6. /\ pending' = [side \in Sides |-> IF side \in sides THEN << >> ELSE pending[side]]
      /\ waiting' = [side \in Sides |-> waiting[side] - Len(drained(side))]
      /\ op' = [x \in Operations |->
                IF ListedIn(all, x) THEN [op[x] EXCEPT !.phase = "Completing", !.result = result]
                             ELSE op[x]]
      /\ thread' = [thread EXCEPT ![t] =
                    IF "pop" \in sides THEN ends ELSE Scan(mid, pending')]
      /\ lock' = lock
    BY DEF DrainAll, drained, Sides, ListedIn
<1> HIDE DEF all
<1>7. /\ listed \in Seq(Operations) /\ Injective(listed)
      /\ \A x : ListedIn(listed, x) <=> ListedIn(th.done, x) \/ ListedIn(all, x)
    <2>1. Injective(th.done)
        BY DEF BaseInv, HandedOnce
    <2>2. QED
        BY <1>1, <1>4, <1>5, <2>1, ListedConcat, ConcatProperties
<1> HIDE DEF listed
<1>8. OnlyThread(t) /\ new = IF "pop" \in sides THEN ends ELSE Scan(mid, pending')
    BY <1>6, Shaped DEF OnlyThread
<1>9. /\ DOMAIN mid = ThreadFields /\ mid.goal = th.goal /\ mid.call = th.call
      /\ mid.ok = th.ok /\ mid.done = listed
      /\ DOMAIN ends = ThreadFields /\ ends.goal = th.goal /\ ends.call = th.call
      /\ ends.ok = th.ok /\ ends.done = listed /\ ends.pc = "unlock"
    BY Shaped, Fields
<1> HIDE DEF mid, ends
<1>10. /\ Shape(t, new) /\ Jobs(t, new)
       /\ Holding(new) /\ ~Reserving(new) /\ ~Fronting(new)
       /\ new.pc \notin {"mark", "token", "register"} /\ new.done = listed
       /\ Carrying(t, new) => Carrying(t, th) /\ new.call = th.call
       /\ new.pc = "front.push" => pending'["push"] # << >>
       /\ new.pc = "front.pop" => pending'["pop"] # << >>
    <2>1. CASE "pop" \in sides
        <3>1. new = ends
            BY <1>8, <2>1
        <3>2. Shape(t, new)
            BY <1>1, <1>7, <1>9, <3>1, Shaped, NamesAssumption DEF Shape, Locked, Unlocked, Starting,
               Inside, Served, Transferring, OwnStart, OwnTry, OwnPoll
        <3>3. Jobs(t, new) /\ Holding(new) /\ ~Reserving(new) /\ ~Fronting(new)
            BY <1>9, <3>1 DEF Jobs, Holding, Reserving, Fronting, Locked, Transferring
        <3>4. Carrying(t, new) => Carrying(t, th) /\ new.call = th.call
            BY <1>1, <1>9, <3>1 DEF Carrying, Transferring, Starting, Inside
        <3>5. QED
            BY <1>9, <3>1, <3>2, <3>3, <3>4
    <2>2. CASE "pop" \notin sides
        <3>1. Onward(new, mid, pending')
            BY <1>8, <1>9, <2>2, ScanOnward
        <3>2. /\ Shape(t, new) /\ Jobs(t, new) /\ t \notin Stoppable
              /\ Holding(new) /\ ~Reserving(new) /\ ~Fronting(new)
              /\ Carrying(t, new) => new.call \in Operations /\ new.goal = "start" /\ ~new.ok
              /\ new.pc \notin {"mark", "token", "register"}
            <4>1. mid.ok \in BOOLEAN /\ mid.done \in Seq(Operations) /\ th.goal \notin {"cancel", "abort"}
                BY <1>1, <1>7, <1>9, <2>2
            <4>2. QED
                BY <1>1, <1>9, <3>1, <4>1, Shaped, OnwardShape
        <3>3. QED
            BY <1>1, <1>9, <2>2, <3>1, <3>2 DEF Onward
    <2>3. QED
        BY <2>1, <2>2
<1>11. /\ DOMAIN pending' = Sides /\ DOMAIN waiting' = Sides
       /\ \A side \in Sides : pending'[side] = IF side \in sides THEN << >> ELSE pending[side]
       /\ \A side \in Sides : waiting'[side] = waiting[side] - Len(drained(side))
    BY <1>6
<1>12. pending'["push"] \in Seq(PushOps) /\ pending'["pop"] \in Seq(PopOps)
    BY <1>11, EmptySeq DEF BaseInv, Types, Sides
<1>13. LockedLists(t)
    <2>1. ASSUME NEW s \in Sides PROVE waiting[s] = Len(pending[s]) + 0
        BY <1>1, CountOf
    <2>2. ASSUME NEW s \in Sides PROVE waiting'[s] = Len(pending'[s]) + 0
        <3>1. CASE s \in sides
            BY <1>11, <2>1, <3>1, Lengths, EmptySeq DEF drained
        <3>2. CASE s \notin sides
            BY <1>11, <2>1, <3>2, Lengths, EmptySeq DEF drained
        <3>3. QED
            BY <3>1, <3>2
    <2>3. QED
        BY <1>1, <1>6, <1>10, <2>2 DEF LockedLists
<1>14. /\ DOMAIN op' = Operations /\ \A o \in Operations : DOMAIN op'[o] = OpFields
       /\ \A o \in Operations \ M : op'[o] = op[o]
       /\ \A o \in M : /\ op'[o].phase = "Completing" /\ op'[o].signals = op[o].signals
                       /\ op'[o].registered = op[o].registered
    BY <1>6, Fields DEF BaseInv, Types
<1>15. Moves(t, M)
    <2>1. \A side \in Sides : Injective(pending'[side])
        BY <1>11, ListedFew DEF BaseInv, PendingPhase
    <2>2. \A o \in Operations \ M :
             ListedIn(pending'[SideOf(o)], o) <=> ListedIn(pending[SideOf(o)], o)
        BY <1>4, <1>11, ListedFew, PendingTypes
    <2>3. \A o \in M : ~ListedIn(pending'[SideOf(o)], o)
        BY <1>4, <1>11, ListedFew, PendingTypes, <1>1
    <2>4. Carrying(t, new) => new.call \notin M
        BY <1>5, <1>10 DEF BaseInv, CarriedPhase, Call
    <2>5. QED
        BY <1>1, <1>5, <1>7, <1>10, <1>14, <2>1, <2>2, <2>3, <2>4 DEF Moves
<1>16. QED
    BY <1>8, <1>10, <1>11, <1>12, <1>13, <1>14, <1>15, LockedMove

LEMMA DrainingKept ==
    ASSUME BaseInv, NEW t \in Threads, StopConsumers(t) \/ FailPending(t) PROVE BaseInv'
BY DrainKept DEF StopConsumers, FailPending
-----------------------------------------------------------------------------
(* Cancellation.                                                           *)
LEMMA CancelPendingKept ==
    ASSUME BaseInv, NEW t \in Threads, CancelOperation(t), Cancellable(Call(t))
    PROVE  BaseInv'
<1> DEFINE x == Call(t)
           side == SideOf(x)
           th == thread[t]
           new == thread'[t]
<1>1. /\ th.pc = "cancel" /\ th.goal = "cancel" /\ x \in Stoppable /\ x \in Operations
      /\ Holding(th) /\ ~Reserving(th) /\ th.done = << >> /\ side \in Sides
      /\ op[x].phase = "Pending"
    BY Shaped, Names DEF CancelOperation, Cancellable, Shape, At, Call, Holding, Reserving,
       Locked, Served, Transferring, SideOf, Sides
<1>2. t \in Stoppable /\ x = t
    <2>1. t \notin Stoppable => Carrying(t, th)
        BY <1>1 DEF Carrying, Call
    <2>2. t \in Stoppable
        BY <1>1, <2>1 DEF BaseInv, CarriedPhase, Call
    <2>3. QED
        BY <1>1, <2>2, Shaped DEF Shape, Call
<1>3. ListedIn(pending[side], x) /\ Injective(pending[side]) /\ pending[side] \in Seq(Operations)
    BY <1>1, PendingTypes DEF BaseInv, PendingPhase
<1>4. pending' = [pending EXCEPT ![side] = Without(pending[side], x)]
    BY DEF CancelOperation
<1>5. /\ DOMAIN pending' = Sides /\ pending'[side] = Without(pending[side], x)
      /\ \A s \in Sides \ {side} : pending'[s] = pending[s]
    BY <1>1, <1>4 DEF BaseInv, Types
<1>6. /\ \A o : ListedIn(pending'[side], o) <=> ListedIn(pending[side], o) /\ o # x
      /\ Injective(pending'[side]) /\ Len(pending'[side]) = Len(pending[side]) - 1
    BY <1>3, <1>5, ListedWithout
<1>7. pending'["push"] \in Seq(PushOps) /\ pending'["pop"] \in Seq(PopOps)
    <2>1. pending["push"] \in Seq(PushOps) /\ pending["pop"] \in Seq(PopOps)
        BY DEF BaseInv, Types
    <2>2. CASE side = "push"
        <3>1. Without(pending["push"], x) \in Seq(PushOps)
            BY <1>3, <2>1, <2>2, ListedWithout
        <3>2. pending'["push"] = Without(pending["push"], x) /\ pending'["pop"] = pending["pop"]
            BY <1>5, <2>2 DEF Sides
        <3>3. QED
            BY <2>1, <3>1, <3>2
    <2>3. CASE side = "pop"
        <3>1. Without(pending["pop"], x) \in Seq(PopOps)
            BY <1>3, <2>1, <2>3, ListedWithout
        <3>2. pending'["pop"] = Without(pending["pop"], x) /\ pending'["push"] = pending["push"]
            BY <1>5, <2>3 DEF Sides
        <3>3. QED
            BY <2>1, <3>1, <3>2
    <2>4. QED
        BY <1>1, <2>2, <2>3 DEF Sides
<1>8. thread' = [thread EXCEPT ![t] = [th EXCEPT !.pc = "unlock", !.done = <<x>>]]
    BY Shaped DEF CancelOperation
<1>9. /\ OnlyThread(t) /\ DOMAIN new = ThreadFields /\ new.pc = "unlock" /\ new.goal = th.goal
      /\ new.call = th.call /\ new.ok = th.ok /\ new.done = <<x>>
    BY <1>8, Shaped, Fields DEF OnlyThread
<1>10. Shape(t, new) /\ Jobs(t, new)
    <2>1. <<x>> \in Seq(Operations)
        BY <1>1
    <2>2. Shape(t, new)
        BY <1>1, <1>2, <1>9, <2>1, Shaped, NamesAssumption DEF Shape, Locked, Unlocked, Starting,
           Inside, Served, Transferring, OwnStart, OwnTry, OwnPoll
    <2>3. QED
        BY <1>9, <2>2 DEF Jobs, Transferring
<1>11. Holding(new) /\ ~Reserving(new) /\ ~Fronting(new) /\ ~Carrying(t, new)
    BY <1>1, <1>2, <1>9 DEF Holding, Reserving, Fronting, Carrying, Locked, Transferring
<1>12. LockedLists(t)
    <2>1. ASSUME NEW s \in Sides PROVE waiting[s] = Len(pending[s]) + 0
        BY <1>1, CountOf
    <2>2. waiting' = [waiting EXCEPT ![side] = @ - 1]
        BY DEF CancelOperation
    <2>3. ASSUME NEW s \in Sides PROVE waiting'[s] = Len(pending'[s]) + 0
        <3>1. DOMAIN waiting = Sides /\ Len(pending[s]) \in Nat
            BY Lengths DEF BaseInv, Types
        <3>2. CASE s = side
            BY <1>6, <2>1, <2>2, <3>1, <3>2
        <3>3. CASE s # side
            BY <1>5, <2>1, <2>2, <3>1, <3>3
        <3>4. QED
            BY <3>2, <3>3
    <2>4. lock' = lock
        BY DEF CancelOperation
    <2>5. QED
        BY <1>1, <1>9, <1>11, <2>3, <2>4 DEF LockedLists
<1>13. /\ DOMAIN op' = Operations /\ \A o \in Operations : DOMAIN op'[o] = OpFields
       /\ \A o \in Operations \ {x} : op'[o] = op[o]
       /\ op'[x].phase = "Completing" /\ op'[x].signals = op[x].signals
       /\ op'[x].registered = op[x].registered
    BY <1>1, Fields, SMTT(30) DEF BaseInv, Types, CancelOperation, MarkCompleting
<1>14. Moves(t, {x})
    <2>1. \A s \in Sides : Injective(pending'[s])
        BY <1>1, <1>5, <1>6 DEF BaseInv, PendingPhase
    <2>2. \A o \in Operations \ {x} :
             ListedIn(pending'[SideOf(o)], o) <=> ListedIn(pending[SideOf(o)], o)
        BY <1>5, <1>6, PendingTypes
    <2>3. QED
        BY <1>1, <1>6, <1>9, <1>11, <1>13, <2>1, <2>2, ListedFew DEF Moves, At
<1>15. DOMAIN waiting' = Sides
    BY DEF CancelOperation, BaseInv, Types
<1>16. QED
    BY <1>5, <1>7, <1>9, <1>10, <1>12, <1>13, <1>14, <1>15, LockedMove

LEMMA CancelOtherKept ==
    ASSUME BaseInv, NEW t \in Threads, CancelOperation(t), ~Cancellable(Call(t))
    PROVE  BaseInv'
<1> DEFINE x == Call(t)
           th == thread[t]
           new == thread'[t]
<1>1. /\ th.pc = "cancel" /\ th.goal = "cancel" /\ x \in Stoppable /\ x \in Operations
      /\ Holding(th) /\ ~Reserving(th) /\ th.done = << >>
    BY Shaped, Names DEF CancelOperation, Shape, At, Call, Holding, Reserving,
       Locked, Served, Transferring
<1>2. /\ OnlyThread(t) /\ DOMAIN new = ThreadFields /\ new.goal = th.goal
      /\ \/ new.pc = "mark" /\ op[x].phase = "Starting"
         \/ new.pc = "unlock"
      /\ new.call = th.call /\ new.ok = th.ok /\ new.done = th.done
    BY Shaped, Fields DEF CancelOperation, Goto, OnlyThread
<1>3. UNCHANGED <<op, pending, waiting, lock>>
    BY DEF CancelOperation, waiters
<1>4. Shape(t, new)
    BY <1>1, <1>2, Shaped, NamesAssumption DEF Shape, Locked, Unlocked, Starting,
       Inside, Served, Transferring, OwnStart, OwnTry, OwnPoll
<1>5. /\ Jobs(t, new) /\ Holding(new) /\ ~Reserving(new) /\ ~Fronting(new)
      /\ Carrying(t, new) => Carrying(t, th)
    BY <1>1, <1>2 DEF Jobs, Holding, Reserving, Fronting, Carrying, Locked, Transferring
<1>6. LockedLists(t)
    <2>1. ASSUME NEW s \in Sides PROVE waiting'[s] = Len(pending'[s]) + 0
        BY <1>1, <1>3, CountOf
    <2>2. QED
        BY <1>1, <1>2, <1>3, <1>5, <2>1 DEF LockedLists
<1>7. Moves(t, {})
    BY <1>1, <1>2, <1>3, <1>5, ListedFew DEF Moves, BaseInv, Types, PendingPhase, Call, At
<1>8. QED
    BY <1>2, <1>3, <1>4, <1>5, <1>6, <1>7, LockedMove DEF BaseInv, Types

LEMMA MarkKept ==
    ASSUME BaseInv, NEW t \in Threads, MarkStopRequested(t) PROVE BaseInv'
<1> DEFINE x == Call(t)
           th == thread[t]
           new == thread'[t]
<1>1. /\ th.pc = "mark" /\ th.goal = "cancel" /\ x \in Stoppable /\ x \in Operations
      /\ Holding(th) /\ ~Reserving(th) /\ th.done = << >>
    BY Shaped, Names DEF MarkStopRequested, Shape, At, Call, Holding, Reserving,
       Locked, Served, Transferring
<1>2. /\ OnlyThread(t) /\ DOMAIN new = ThreadFields /\ new.goal = th.goal /\ new.pc = "unlock"
      /\ new.call = th.call /\ new.ok = th.ok /\ new.done = th.done
    BY Shaped, Fields DEF MarkStopRequested, Goto, OnlyThread
<1>3. UNCHANGED <<pending, waiting, lock>>
    BY DEF MarkStopRequested, queueVars, waiters
<1>4. Shape(t, new)
    BY <1>1, <1>2, Shaped, NamesAssumption DEF Shape, Locked, Unlocked, Starting,
       Inside, Served, Transferring, OwnStart, OwnTry, OwnPoll
<1>5. /\ Jobs(t, new) /\ Holding(new) /\ ~Reserving(new) /\ ~Fronting(new)
      /\ Carrying(t, new) <=> Carrying(t, th)
    BY <1>1, <1>2 DEF Jobs, Holding, Reserving, Fronting, Carrying, Locked, Transferring
<1>6. LockedLists(t)
    <2>1. ASSUME NEW s \in Sides PROVE waiting'[s] = Len(pending'[s]) + 0
        BY <1>1, <1>3, CountOf
    <2>2. QED
        BY <1>1, <1>2, <1>3, <1>5, <2>1 DEF LockedLists
<1>7. /\ DOMAIN op' = Operations /\ \A o \in Operations : DOMAIN op'[o] = OpFields
      /\ \A o \in Operations \ {x} : op'[o] = op[o]
      /\ op'[x].phase = "StopRequested" /\ op'[x].signals = op[x].signals
      /\ op'[x].registered = op[x].registered
    BY <1>1, Fields DEF BaseInv, Types, MarkStopRequested
<1>8. op[x].phase \notin {"Constructed", "Completed", "Pending"}
    <2>1. op[x].phase # "Pending"
        BY <1>1 DEF BaseInv, StopThreads, At
    <2>2. CASE t \in Stoppable
        BY <1>1, <2>1, <2>2, Shaped DEF BaseInv, StopThreads, Shape, Call
    <2>3. CASE t \notin Stoppable
        <3>1. Carrying(t, th)
            BY <1>1, <2>3 DEF Carrying, Call
        <3>2. QED
            BY <3>1 DEF BaseInv, CarriedPhase, Call
    <2>4. QED
        BY <2>2, <2>3
<1>9. /\ \A u \in Threads : thread'[u].done = thread[u].done /\ thread'[u].call = thread[u].call
      /\ \A u \in Threads : Carrying(u, thread'[u]) <=> Carrying(u, thread[u])
    BY <1>2, <1>5 DEF OnlyThread
<1>10. CarriedOnce' /\ CarriedPhase'
    BY <1>7, <1>9 DEF BaseInv, CarriedOnce, CarriedPhase, Finishing, Call, Carrying
<1>11. HandedPhase' /\ HandedOnce'
    BY <1>7, <1>9 DEF BaseInv, HandedPhase, HandedOnce, Finishing
<1>12. PendingPhase' /\ Signals'
    BY <1>3, <1>7, <1>8 DEF BaseInv, PendingPhase, Signals
<1>13. StopThreads'
    <2>1. \A u \in Threads : thread'[u].pc \in {"mark", "token", "register", "lock", "cancel"} =>
            u # t /\ thread'[u] = thread[u]
        BY <1>2 DEF OnlyThread
    <2>2. ASSUME NEW u \in Threads, thread[u].pc \in {"token", "register", "mark"}
          PROVE  thread[u].call \in Stoppable
        BY <2>2 DEF BaseInv, Shapes, Shape
    <2>3. ASSUME NEW u \in Stoppable, thread[u].pc = "idle" PROVE thread'[u] = thread[u]
        BY <1>1, <1>2, <2>3, Names DEF OnlyThread
    <2>4. QED
        BY <1>7, <2>1, <2>2, <2>3, Names DEF BaseInv, StopThreads, At, Call
<1>14. Types'
    <2>1. lock' \in Threads \cup {None}
        BY <1>3 DEF BaseInv, Types
    <2>2. QED
        BY <1>2, <1>3, <1>7, <2>1, TypesStep DEF BaseInv, Types
<1>15. QED
    BY <1>2, <1>4, <1>5, <1>6, <1>10, <1>11, <1>12, <1>13, <1>14,
       BaseFrom, ShapeStep, LockedStepLists
-----------------------------------------------------------------------------
(* Taking and releasing the lock.                                          *)
LEMMA LockKept ==
    ASSUME BaseInv, NEW t \in Threads, Lock(t) PROVE BaseInv'
<1> DEFINE th == thread[t]
           new == thread'[t]
<1>1. /\ th.pc = "lock" /\ th.goal \in {"start", "service", "close", "abort", "cancel"}
      /\ ~Holding(th) /\ ~Reserving(th)
    BY Shaped DEF Shape, Lock, At, Holding, Reserving, Locked, Served, Transferring
<1>2. thread' = [thread EXCEPT ![t] =
         IF th.goal = "service" THEN Scan(th, pending)
                               ELSE [th EXCEPT !.pc = Entrance[th.goal]]]
    BY Shaped DEF Lock
<1>3. OnlyThread(t) /\ UNCHANGED <<pending, waiting, op>> /\ lock = None /\ lock' = t
    BY <1>2, Shaped DEF OnlyThread, Lock, waiters
<1>4. /\ Shape(t, new) /\ Jobs(t, new) /\ Holding(new) /\ ~Reserving(new) /\ ~Fronting(new)
      /\ Carrying(t, new) => Carrying(t, th)
      /\ new.call = th.call /\ new.done = th.done
      /\ new.pc \notin {"mark", "token", "register", "lock"}
      /\ new.pc = "front.push" => pending["push"] # << >>
      /\ new.pc = "front.pop" => pending["pop"] # << >>
    <2>1. CASE th.goal = "service"
        <3>1. Onward(new, th, pending)
            BY <1>2, <2>1, Shaped, ScanOnward
        <3>2. th.ok \in BOOLEAN /\ th.done \in Seq(Operations)
            BY Shaped DEF Shape
        <3>3. /\ Shape(t, new) /\ Jobs(t, new) /\ Holding(new) /\ ~Reserving(new)
              /\ ~Fronting(new)
              /\ Carrying(t, new) => new.goal = "start"
              /\ new.pc \notin {"mark", "token", "register"}
            BY <1>1, <2>1, <3>1, <3>2, Shaped, OnwardShape
        <3>4. /\ new.goal = "service" /\ new.call = th.call /\ new.done = th.done
              /\ new.pc # "lock"
              /\ new.pc = "front.push" => pending["push"] # << >>
              /\ new.pc = "front.pop" => pending["pop"] # << >>
            BY <2>1, <3>1 DEF Onward
        <3>5. ~Carrying(t, new)
            BY <3>3, <3>4
        <3>6. QED
            BY <3>3, <3>4, <3>5
    <2>2. CASE th.goal # "service"
        <3>1. /\ DOMAIN new = ThreadFields /\ new.goal = th.goal
              /\ new.call = th.call /\ new.ok = th.ok /\ new.done = th.done
              /\ new.pc = CASE th.goal = "start" -> "admit" [] th.goal = "close" -> "close"
                            [] th.goal = "abort" -> "abort" [] th.goal = "cancel" -> "cancel"
            BY <1>1, <1>2, <2>2, Shaped, Fields DEF Entrance
        <3>2. \/ th.goal = "start" /\ new.pc = "admit"
              \/ th.goal = "close" /\ new.pc = "close"
              \/ th.goal = "abort" /\ new.pc = "abort"
              \/ th.goal = "cancel" /\ new.pc = "cancel"
            BY <1>1, <2>2, <3>1
        <3>3. Shape(t, new)
            BY <1>1, <3>1, <3>2, Shaped, NamesAssumption DEF Shape, Locked, Unlocked, Starting,
               Inside, Served, Transferring, OwnStart, OwnTry, OwnPoll
        <3>4. Jobs(t, new) /\ Holding(new) /\ ~Reserving(new) /\ ~Fronting(new)
            BY <3>2 DEF Jobs, Holding, Reserving, Fronting, Locked, Transferring
        <3>5. Carrying(t, new) => Carrying(t, th)
            BY <1>1, <3>1, <3>2 DEF Carrying, Transferring
        <3>6. QED
            BY <3>1, <3>2, <3>3, <3>4, <3>5
    <2>3. QED
        BY <2>1, <2>2
<1>5. LockHeld' /\ Heads' /\ Counted'
    BY <1>1, <1>3, <1>4, LockChangesLists DEF SameLists
<1>6. Moves(t, {})
    BY <1>1, <1>3, <1>4, ListedFew DEF Moves, BaseInv, Types, PendingPhase, HandedOnce, At
<1>7. Types'
    BY <1>3, TypesStep DEF BaseInv, Types
<1>8. QED
    BY <1>3, <1>4, <1>5, <1>6, <1>7, BaseFrom, ShapeStep, MovesKeepPlaces

(* Return gives the thread back to whatever it was called from. *)
LEMMA ReturnShape ==
    ASSUME NEW t, NEW th, Shape(t, th), th.pc \in {"unlock", "complete"},
           NEW mid, DOMAIN mid = ThreadFields, mid.goal = th.goal, mid.call = th.call,
           mid.ok = th.ok, mid.done \in Seq(Operations),
           t \notin Stoppable /\ th.goal = "cancel" => mid.done = << >>
    PROVE  LET new == Return(t, mid) IN
           /\ Shape(t, new) /\ Jobs(t, new) /\ ~Holding(new)
           /\ new.done = mid.done
           /\ Carrying(t, new) => Carrying(t, th) /\ new.call = th.call
           /\ new.pc \in {"complete", "refused", "begin", "idle"}
<1> DEFINE new == Return(t, mid)
<1>1. CASE mid.done # << >>
    <2>1. /\ DOMAIN new = ThreadFields /\ new.pc = "complete" /\ new.goal = th.goal
          /\ new.call = th.call /\ new.ok = th.ok /\ new.done = mid.done
        BY <1>1, Fields DEF Return
    <2> HIDE DEF new
    <2>2. Shape(t, new)
        BY <1>1, <2>1, NamesAssumption DEF Shape, Locked, Unlocked, Starting,
           Inside, Served, Transferring, OwnStart, OwnTry, OwnPoll
    <2>3. /\ Jobs(t, new) /\ ~Holding(new)
          /\ Carrying(t, new) => Carrying(t, th)
        BY <2>1 DEF Jobs, Holding, Carrying, Locked, Served, Transferring, Starting, Inside
    <2>4. /\ Shape(t, new) /\ Jobs(t, new) /\ ~Holding(new)
          /\ new.done = mid.done
          /\ Carrying(t, new) => Carrying(t, th) /\ new.call = th.call
          /\ new.pc \in {"complete", "refused", "begin", "idle"}
        BY <2>1, <2>2, <2>3
    <2>5. QED
        BY <2>4 DEF new
<1>2. CASE mid.done = << >> /\ th.goal = "start" /\ ~th.ok
    <2>1. /\ DOMAIN new = ThreadFields /\ new.pc = "refused" /\ new.goal = th.goal
          /\ new.call = th.call /\ new.ok = th.ok /\ new.done = mid.done
        BY <1>2, Fields DEF Return
    <2> HIDE DEF new
    <2>2. Shape(t, new)
        BY <1>2, <2>1, NamesAssumption DEF Shape, Locked, Unlocked, Starting,
           Inside, Served, Transferring, OwnStart, OwnTry, OwnPoll
    <2>3. /\ Jobs(t, new) /\ ~Holding(new)
          /\ Carrying(t, new) => Carrying(t, th)
        BY <1>2, <2>1 DEF Jobs, Holding, Carrying, Locked, Served, Transferring
    <2>4. /\ Shape(t, new) /\ Jobs(t, new) /\ ~Holding(new)
          /\ new.done = mid.done
          /\ Carrying(t, new) => Carrying(t, th) /\ new.call = th.call
          /\ new.pc \in {"complete", "refused", "begin", "idle"}
        BY <2>1, <2>2, <2>3
    <2>5. QED
        BY <2>4 DEF new
<1>3. CASE mid.done = << >> /\ th.goal = "cancel" /\ t \notin Stoppable
    <2>1. /\ DOMAIN new = ThreadFields /\ new.pc = "begin" /\ new.goal = "start"
          /\ new.call = th.call /\ new.ok = th.ok /\ new.done = mid.done
        BY <1>3, Fields DEF Return
    <2> HIDE DEF new
    <2>2. Shape(t, new)
        BY <1>3, <2>1, Names, NamesAssumption DEF Shape, Locked, Unlocked, Starting,
           Inside, Served, Transferring, OwnStart, OwnTry, OwnPoll
    <2>3. /\ Jobs(t, new) /\ ~Holding(new)
          /\ Carrying(t, new) => Carrying(t, th)
        BY <1>3, <2>1 DEF Jobs, Holding, Carrying, Locked, Served, Transferring
    <2>4. /\ Shape(t, new) /\ Jobs(t, new) /\ ~Holding(new)
          /\ new.done = mid.done
          /\ Carrying(t, new) => Carrying(t, th) /\ new.call = th.call
          /\ new.pc \in {"complete", "refused", "begin", "idle"}
        BY <2>1, <2>2, <2>3
    <2>5. QED
        BY <2>4 DEF new
<1>4. CASE /\ mid.done = << >> /\ ~(th.goal = "start" /\ ~th.ok)
           /\ ~(th.goal = "cancel" /\ t \notin Stoppable)
    <2>1. new = NewThread
        BY <1>4 DEF Return
    <2>2. /\ DOMAIN new = ThreadFields /\ new.pc = "idle" /\ new.goal = None
          /\ new.call = None /\ new.ok = FALSE /\ new.done = << >>
        BY <2>1 DEF NewThread, ThreadFields
    <2>3. Shape(t, new)
        BY <2>1, <2>2, EmptySeq, NamesAssumption, ZenonT(40) DEF Shape, Locked, Unlocked, Starting,
           Inside, Served, Transferring, OwnStart, OwnTry, OwnPoll
    <2>4. Jobs(t, new) /\ ~Holding(new) /\ ~Carrying(t, new)
        BY <2>2, NamesAssumption DEF Jobs, Holding, Carrying, Locked, Served, Transferring, Calls
    <2>5. QED
        BY <1>4, <2>2, <2>3, <2>4
<1>5. QED
    BY <1>1, <1>2, <1>3, <1>4

LEMMA UnlockKept ==
    ASSUME BaseInv, NEW t \in Threads, Unlock(t) PROVE BaseInv'
<1> DEFINE th == thread[t]
           new == thread'[t]
<1>1. /\ th.pc = "unlock" /\ Holding(th) /\ ~Reserving(th) /\ th.done \in Seq(Operations)
      /\ t \notin Stoppable /\ th.goal = "cancel" => th.done = << >>
    BY Shaped DEF Shape, Unlock, At, Holding, Reserving, Locked, Transferring
<1>2. /\ OnlyThread(t) /\ UNCHANGED <<pending, waiting, op>> /\ lock' = None
      /\ new = Return(t, th)
    BY Shaped DEF OnlyThread, Unlock, waiters
<1>3. /\ Shape(t, new) /\ Jobs(t, new) /\ ~Holding(new) /\ new.done = th.done
      /\ Carrying(t, new) => Carrying(t, th) /\ new.call = th.call
      /\ new.pc \in {"complete", "refused", "begin", "idle"}
    BY <1>1, <1>2, Shaped, ReturnShape
<1>4. LockHeld' /\ Heads' /\ Counted'
    <2>1. ~Reserving(new) /\ ~Fronting(new)
        BY <1>3 DEF Reserving, Fronting, Transferring
    <2>2. QED
        BY <1>1, <1>2, <1>3, <2>1, LockChangesLists DEF SameLists
<1>5. Moves(t, {})
    BY <1>1, <1>2, <1>3, ListedFew DEF Moves, BaseInv, Types, PendingPhase, HandedOnce, At
<1>6. Types'
    BY <1>2, TypesStep DEF BaseInv, Types
<1>7. QED
    BY <1>2, <1>3, <1>4, <1>5, <1>6, BaseFrom, ShapeStep, MovesKeepPlaces
-----------------------------------------------------------------------------
(* Starting and completing an operation. *)
LEMMA StartKept ==
    ASSUME BaseInv, NEW t \in Threads, NEW o \in Operations, Start(t, o) PROVE BaseInv'
<1> DEFINE th == thread[t]
           new == thread'[t]
<1>1. /\ th.pc = "idle" /\ th.done = << >> /\ ~Holding(th) /\ t \notin Stoppable
      /\ t \in Users(SideOf(o)) /\ o \in Calls
    <2>1. th.pc = "idle" /\ th = NewThread
        BY Shaped DEF Start, At, Shape
    <2>2. t \in Users(SideOf(o)) /\ t \in Producers \cup Consumers
        BY DEF Start, Users, SideOf
    <2>3. QED
        BY <2>1, <2>2, Names DEF NewThread, Holding, Locked, Served, Transferring, Calls
<1>2. thread' = [thread EXCEPT ![t] =
                    [NewThread EXCEPT !.call = o, !.goal = "start", !.ok = TRUE,
                       !.pc = IF o \in Stoppable THEN "token" ELSE "admit.fast"]]
    BY DEF Start
<1>3. /\ OnlyThread(t) /\ DOMAIN new = ThreadFields /\ new.call = o /\ new.goal = "start"
      /\ new.ok = TRUE /\ new.done = << >>
      /\ new.pc = IF o \in Stoppable THEN "token" ELSE "admit.fast"
    BY <1>2, Shaped DEF OnlyThread, NewThread, ThreadFields
<1>4. Shape(t, new) /\ Jobs(t, new)
    BY <1>1, <1>3, EmptySeq, NamesAssumption DEF Shape, Jobs, Locked, Unlocked, Starting,
       Inside, Served, Transferring, OwnStart, OwnTry, OwnPoll
<1>5. ~Holding(new) /\ Carrying(t, new)
    BY <1>3 DEF Holding, Locked, Served, Transferring, Carrying, Starting
<1>6. UNCHANGED <<lock, waiting, pending>>
    BY DEF Start, queueVars, waiters
<1>7. LockHeld' /\ Heads' /\ Counted'
    BY <1>1, <1>3, <1>5, <1>6, UnlockedLists DEF SameLists
<1>8. /\ DOMAIN op' = Operations /\ \A x \in Operations : DOMAIN op'[x] = OpFields
      /\ \A x \in Operations \ {o} : op'[x] = op[x]
      /\ op'[o].phase = "Starting" /\ op'[o].signals = op[o].signals
      /\ op'[o].registered = op[o].registered /\ op[o].phase = "Constructed"
    BY Fields DEF BaseInv, Types, Start
<1>9. Types'
    BY <1>3, <1>6, <1>8, TypesStep DEF BaseInv, Types
<1>10. /\ \A u \in Threads : Carrying(u, thread[u]) => Call(u) # o
       /\ ~Finishing(o) /\ ~ListedIn(pending[SideOf(o)], o) /\ op[o].signals = 0
    BY <1>8 DEF BaseInv, CarriedPhase, HandedPhase, PendingPhase, Signals, Call
<1>11. \A u \in Threads : thread'[u].done = thread[u].done
    BY <1>1, <1>3 DEF OnlyThread
<1>12. CarriedOnce' /\ CarriedPhase'
    BY <1>3, <1>8, <1>10, <1>11 DEF BaseInv, CarriedOnce, CarriedPhase, Finishing, Call,
       OnlyThread, Carrying
<1>13. HandedPhase' /\ HandedOnce' /\ PendingPhase' /\ Signals'
    BY <1>6, <1>8, <1>10, <1>11 DEF BaseInv, HandedPhase, HandedOnce, PendingPhase, Signals,
       Finishing
<1>14. StopThreads'
    <2>1. \A x \in Stoppable : thread'[x] = thread[x]
        BY <1>1, <1>3, Names DEF OnlyThread
    <2>2. \A x \in Stoppable :
             /\ op'[x].registered \/ thread'[x].pc \in {"lock", "cancel", "mark"} =>
                  op'[x].phase \notin {"Constructed", "Completed"}
             /\ thread'[x].pc # "idle" => op'[x].phase # "Constructed"
        BY <1>8, <2>1, Names DEF BaseInv, StopThreads
    <2>3. ASSUME NEW u \in Threads, u # t, thread[u].pc \in {"token", "register", "mark"}
          PROVE  /\ thread[u].call \in Stoppable
                 /\ thread[u].pc = "mark" => op[Call(u)].phase # "Pending"
                 /\ thread[u].pc \in {"token", "register"} =>
                      ~op[Call(u)].registered /\ At(Call(u), "idle")
        BY <2>3 DEF BaseInv, Shapes, Shape, StopThreads, At
    <2>4. o \in Stoppable => ~op[o].registered /\ At(o, "idle")
        BY <1>8 DEF BaseInv, StopThreads, At
    <2>5. ASSUME NEW u \in Threads
          PROVE  /\ thread'[u].pc = "mark" => op'[thread'[u].call].phase # "Pending"
                 /\ thread'[u].pc \in {"token", "register"} =>
                      ~op'[thread'[u].call].registered /\ thread'[thread'[u].call].pc = "idle"
        <3>1. CASE u = t
            BY <1>3, <1>8, <2>1, <2>4, <3>1 DEF At
        <3>2. CASE u # t
            BY <1>3, <1>8, <2>1, <2>3, <3>2, Names DEF OnlyThread, At, Call
        <3>3. QED
            BY <3>1, <3>2
    <2>6. QED
        BY <2>2, <2>5 DEF StopThreads, At, Call
<1>15. QED
    BY <1>3, <1>4, <1>7, <1>9, <1>12, <1>13, <1>14, BaseFrom, ShapeStep

(* The receiver of x is told: x was the call of the thread, or it comes    *)
(* off its list.                                                           *)
Completes(t, x) ==
    /\ DOMAIN op' = Operations /\ \A o \in Operations : DOMAIN op'[o] = OpFields
    /\ \A o \in Operations \ {x} : op'[o] = op[o]
    /\ op'[x].phase = "Completed" /\ op'[x].signals = op[x].signals + 1
    /\ ~op'[x].registered
    /\ \/ Carrying(t, thread[t]) /\ Call(t) = x
       \/ ListedIn(thread[t].done, x)
    /\ \A o \in Operations :
         ListedIn(thread'[t].done, o) => ListedIn(thread[t].done, o) /\ o # x
    /\ Injective(thread'[t].done)
    /\ Carrying(t, thread'[t]) =>
         /\ Carrying(t, thread[t]) /\ thread'[t].call = thread[t].call
         /\ thread'[t].call # x
    /\ x \in Stoppable \ {t} => At(x, "idle")
    /\ ~At(t, "idle")
    /\ thread'[t].pc \notin {"lock", "cancel", "mark", "token", "register"}

LEMMA CompletesKept ==
    ASSUME BaseInv, NEW t \in Threads, OnlyThread(t), NEW x \in Operations, Completes(t, x),
           Shape(t, thread'[t]), Jobs(t, thread'[t]),
           ~Holding(thread[t]), ~Holding(thread'[t]), UNCHANGED <<lock, waiting, pending>>
    PROVE  BaseInv'
<1>1. /\ ~ListedIn(pending[SideOf(x)], x) /\ op[x].phase \in {"Starting", "StopRequested", "Completing"}
      /\ \A u \in Threads \ {t} :
           ~(Carrying(u, thread[u]) /\ Call(u) = x) /\ ~ListedIn(thread[u].done, x)
      /\ ListedIn(thread[t].done, x) => ~(Carrying(t, thread[t]) /\ Call(t) = x)
    BY DEF Completes, BaseInv, CarriedPhase, CarriedOnce, HandedPhase, HandedOnce, PendingPhase,
           Finishing
<1>2. CarriedOnce'
    BY DEF BaseInv, CarriedOnce, OnlyThread, Completes, Call
<1>3. ASSUME NEW o \in Operations, Finishing(o)' PROVE Finishing(o) /\ o # x
    BY <1>1, <1>3 DEF Finishing, OnlyThread, Completes
<1>4. CarriedPhase'
    <2> SUFFICES ASSUME NEW u \in Threads, Carrying(u, thread'[u])
                 PROVE  /\ op'[thread'[u].call].phase \in {"Starting", "StopRequested"}
                        /\ \A v \in Threads : ~ListedIn(thread'[v].done, thread'[u].call)
        BY DEF CarriedPhase, Call, Finishing
    <2>1. Carrying(u, thread[u]) /\ thread'[u].call = thread[u].call /\ thread[u].call # x
        BY <1>1 DEF OnlyThread, Completes, Call
    <2>2. thread[u].call \in Operations
        BY <2>1 DEF Carrying
    <2>3. \A v \in Threads : ~ListedIn(thread'[v].done, thread[u].call)
        BY <1>3, <2>1, <2>2 DEF BaseInv, CarriedPhase, Call, Finishing
    <2>4. QED
        BY <2>1, <2>2, <2>3 DEF BaseInv, CarriedPhase, Call, Completes
<1>5. HandedPhase'
    BY <1>3 DEF BaseInv, HandedPhase, Completes
<1>6. HandedOnce'
    BY DEF BaseInv, HandedOnce, OnlyThread, Completes
<1>7. PendingPhase' /\ Signals'
    BY <1>1 DEF BaseInv, PendingPhase, Signals, Completes
<1>8. StopThreads'
    <2>1. \A y \in Stoppable :
             /\ op'[y].registered \/ thread'[y].pc \in {"lock", "cancel", "mark"} =>
                  op'[y].phase \notin {"Constructed", "Completed"}
             /\ thread'[y].pc # "idle" => op'[y].phase # "Constructed"
        BY Names DEF BaseInv, StopThreads, OnlyThread, Completes, At
    <2>2. ASSUME NEW u \in Threads, thread'[u].pc \in {"token", "register", "mark"}
          PROVE  /\ u # t /\ thread'[u] = thread[u] /\ thread[u].call \in Stoppable
                 /\ thread[u].pc = "mark" => op[thread[u].call].phase # "Pending"
                 /\ thread[u].pc \in {"token", "register"} =>
                      ~op[thread[u].call].registered /\ At(thread[u].call, "idle")
        <3>1. u # t /\ thread'[u] = thread[u]
            BY <2>2 DEF OnlyThread, Completes
        <3>2. QED
            BY <2>2, <3>1 DEF BaseInv, Shapes, Shape, StopThreads, At, Call
    <2>3. ASSUME NEW u \in Threads
          PROVE  /\ thread'[u].pc = "mark" => op'[thread'[u].call].phase # "Pending"
                 /\ thread'[u].pc \in {"token", "register"} =>
                      ~op'[thread'[u].call].registered /\ thread'[thread'[u].call].pc = "idle"
        BY <2>2, Names DEF OnlyThread, Completes, At
    <2>4. QED
        BY <2>1, <2>3 DEF StopThreads, At, Call
<1>9. LockHeld' /\ Heads' /\ Counted'
    BY UnlockedLists DEF SameLists
<1>10. Types'
    BY TypesStep DEF BaseInv, Types, Completes
<1>11. QED
    BY <1>2, <1>4, <1>5, <1>6, <1>7, <1>8, <1>9, <1>10, BaseFrom, ShapeStep

LEMMA CheckTokenKept ==
    ASSUME BaseInv, NEW t \in Threads, CheckToken(t) PROVE BaseInv'
<1> DEFINE x == Call(t)
           th == thread[t]
           new == thread'[t]
<1>1. /\ th.pc = "token" /\ OwnStart(t, th) /\ th.ok /\ th.done = << >> /\ ~Holding(th)
      /\ x \in Stoppable /\ x \in Operations /\ t \notin Stoppable /\ Carrying(t, th)
      /\ ~op[x].registered /\ At(x, "idle")
    BY Shaped, Names DEF CheckToken, Shape, At, Call, Holding, Locked, Served, Transferring,
       Starting, Carrying, OwnStart, BaseInv, StopThreads
<1>2. UNCHANGED <<lock, waiting, pending>>
    BY DEF CheckToken, queueVars, waiters
<1>3. CASE op[x].stop
    <2>1. OnlyThread(t) /\ new = NewThread
        BY <1>3, Shaped DEF CheckToken, OnlyThread
    <2>2. /\ DOMAIN NewThread = ThreadFields /\ NewThread.pc = "idle"
          /\ NewThread.goal = None /\ NewThread.call = None /\ NewThread.ok = FALSE
          /\ NewThread.done = << >>
        BY DEF ThreadFields, NewThread
    <2>3. Shape(t, new) /\ Jobs(t, new) /\ ~Holding(new) /\ ~Carrying(t, new)
        <3>1. ~Reserving(th)
            BY <1>1 DEF Reserving, Transferring
        <3>2. Near(t, th, NewThread)
            BY <1>1, <3>1, NearIdle
        <3>3. QED
            BY <1>1, <2>1, <2>2, <3>2, NamesAssumption DEF Near, Carrying, Calls
    <2>4. /\ DOMAIN op' = Operations /\ \A o \in Operations : DOMAIN op'[o] = OpFields
          /\ \A o \in Operations \ {x} : op'[o] = op[o]
          /\ op'[x].phase = "Completed" /\ op'[x].signals = op[x].signals + 1
          /\ op'[x].registered = op[x].registered
        <3>1. op' = [op EXCEPT ![x] = [op[x] EXCEPT !.phase = "Completed", !.result = "Stopped",
                                                    !.signals = op[x].signals + 1]]
            BY <1>1, <1>3 DEF CheckToken, BaseInv, Types
        <3>2. DOMAIN op[x] = OpFields /\ DOMAIN op = Operations
              /\ \A o \in Operations : DOMAIN op[o] = OpFields
            BY <1>1 DEF BaseInv, Types
        <3>3. QED
            BY <1>1, <3>1, <3>2, Fields
    <2>5. Completes(t, x)
        BY <1>1, <2>1, <2>2, <2>3, <2>4, ListedFew DEF Completes, At
    <2>6. QED
        BY <1>1, <1>2, <2>1, <2>3, <2>5, CompletesKept
<1>4. CASE ~op[x].stop
    <2>1. /\ OnlyThread(t) /\ DOMAIN new = ThreadFields /\ new.pc = "register"
          /\ new.goal = th.goal /\ new.call = th.call /\ new.ok = th.ok /\ new.done = th.done
        BY <1>4, Shaped, Fields DEF CheckToken, OnlyThread, Goto
    <2>2. op' = op
        BY <1>4 DEF CheckToken
    <2>3. Shape(t, new) /\ Jobs(t, new)
        BY <1>1, <2>1, Shaped, NamesAssumption DEF Shape, Jobs, Locked, Unlocked, Starting,
           Inside, Served, Transferring, OwnStart, OwnTry, OwnPoll, Call
    <2>4. ~Holding(new) /\ Carrying(t, new)
        BY <1>1, <2>1 DEF Holding, Locked, Served, Transferring, Carrying, Starting, OwnStart
    <2>5. /\ \A u \in Threads : /\ thread'[u].done = thread[u].done
                                /\ thread'[u].call = thread[u].call
                                /\ Carrying(u, thread'[u]) <=> Carrying(u, thread[u])
        BY <1>1, <2>1, <2>4 DEF OnlyThread
    <2>6. CarriedOnce' /\ CarriedPhase' /\ HandedPhase' /\ HandedOnce' /\ PendingPhase' /\ Signals'
        BY <1>2, <2>2, <2>5 DEF BaseInv, CarriedOnce, CarriedPhase, HandedPhase, HandedOnce,
           PendingPhase, Signals, Finishing, Call, Carrying
    <2>7. StopThreads'
        <3>1. \A y \in Stoppable : thread'[y] = thread[y]
            BY <1>1, <2>1, Names DEF OnlyThread
        <3>2. ASSUME NEW u \in Threads, thread'[u].pc \in {"token", "register"}
              PROVE  thread[u].pc \in {"token", "register"} /\ thread[u].call \in Stoppable
            <4>1. thread[u].pc \in {"token", "register"}
                BY <1>1, <2>1, <3>2 DEF OnlyThread
            <4>2. QED
                BY <4>1, Shaped DEF Shape
        <3>3. \A u \in Threads : thread'[u].pc = "mark" => thread[u].pc = "mark"
            BY <2>1 DEF OnlyThread
        <3>4. QED
            BY <2>2, <2>5, <3>1, <3>2, <3>3 DEF BaseInv, StopThreads, At, Call
    <2>8. LockHeld' /\ Heads' /\ Counted'
        BY <1>1, <1>2, <2>1, <2>4, UnlockedLists DEF SameLists
    <2>9. Types'
        BY <1>2, <2>1, <2>2, TypesStep DEF BaseInv, Types
    <2>10. QED
        BY <2>1, <2>3, <2>6, <2>7, <2>8, <2>9, BaseFrom, ShapeStep
<1>5. QED
    BY <1>3, <1>4

LEMMA RegisterCallbackKept ==
    ASSUME BaseInv, NEW t \in Threads, RegisterCallback(t) PROVE BaseInv'
<1> DEFINE x == Call(t)
           th == thread[t]
           new == thread'[t]
<1>1. /\ th.pc = "register" /\ OwnStart(t, th) /\ th.ok /\ th.done = << >> /\ ~Holding(th)
      /\ x \in Stoppable /\ x \in Operations /\ t \notin Stoppable /\ Carrying(t, th)
      /\ ~op[x].registered /\ At(x, "idle")
    BY Shaped, Names DEF RegisterCallback, Shape, At, Call, Holding, Locked, Served, Transferring,
       Starting, Carrying, OwnStart, BaseInv, StopThreads
<1>2. UNCHANGED <<lock, waiting, pending>>
    BY DEF RegisterCallback, queueVars, waiters
<1>3. /\ OnlyThread(t) /\ DOMAIN new = ThreadFields
      /\ new.call = th.call /\ new.ok = th.ok /\ new.done = th.done
      /\ \/ new.pc = "lock" /\ new.goal = "cancel" /\ op' = op
         \/ /\ new.pc = "begin" /\ new.goal = th.goal
            /\ op' = [op EXCEPT ![x].registered = TRUE]
    BY Shaped, Fields DEF RegisterCallback, OnlyThread, Goto
<1>4. Shape(t, new) /\ Jobs(t, new)
    BY <1>1, <1>3, Shaped, NamesAssumption DEF Shape, Jobs, Locked, Unlocked, Starting,
       Inside, Served, Transferring, OwnStart, OwnTry, OwnPoll, Call, Users
<1>5. ~Holding(new) /\ Carrying(t, new)
    BY <1>1, <1>3 DEF Holding, Locked, Served, Transferring, Carrying, Starting, OwnStart
<1>6. /\ DOMAIN op' = Operations /\ \A o \in Operations : DOMAIN op'[o] = OpFields
      /\ \A o \in Operations : op'[o].phase = op[o].phase /\ op'[o].signals = op[o].signals
      /\ \A o \in Operations \ {x} : op'[o].registered = op[o].registered
    BY <1>1, <1>3, Fields DEF BaseInv, Types
<1>7. /\ \A u \in Threads : /\ thread'[u].done = thread[u].done
                            /\ thread'[u].call = thread[u].call
                            /\ Carrying(u, thread'[u]) <=> Carrying(u, thread[u])
    BY <1>1, <1>3, <1>5 DEF OnlyThread
<1>8. CarriedOnce' /\ CarriedPhase' /\ HandedPhase' /\ HandedOnce' /\ PendingPhase' /\ Signals'
    BY <1>2, <1>6, <1>7 DEF BaseInv, CarriedOnce, CarriedPhase, HandedPhase, HandedOnce,
       PendingPhase, Signals, Finishing, Call, Carrying
<1>9. StopThreads'
    <2>1. op[x].phase \in {"Starting", "StopRequested"}
        BY <1>1 DEF BaseInv, CarriedPhase, Call
    <2>2. \A y \in Stoppable : thread'[y] = thread[y]
        BY <1>1, <1>3, Names DEF OnlyThread
    <2>3. \A y \in Stoppable :
             /\ op'[y].registered \/ thread'[y].pc \in {"lock", "cancel", "mark"} =>
                  op'[y].phase \notin {"Constructed", "Completed"}
             /\ thread'[y].pc # "idle" => op'[y].phase # "Constructed"
        BY <1>6, <2>1, <2>2, Names DEF BaseInv, StopThreads
    <2>4. ASSUME NEW u \in Threads, thread'[u].pc \in {"token", "register", "mark"}
          PROVE  /\ u # t /\ thread'[u] = thread[u] /\ thread[u].call \in Stoppable
                 /\ thread[u].pc = "mark" => op[thread[u].call].phase # "Pending"
                 /\ thread[u].pc \in {"token", "register"} =>
                      /\ ~op[thread[u].call].registered /\ At(thread[u].call, "idle")
                      /\ Carrying(u, thread[u])
        <3>1. u # t /\ thread'[u] = thread[u]
            BY <1>3, <2>4 DEF OnlyThread
        <3>2. thread[u].call \in Stoppable
            BY <2>4, <3>1 DEF BaseInv, Shapes, Shape
        <3>3. thread[u].pc \in {"token", "register"} => Carrying(u, thread[u])
            BY <3>2, Names, Shaped DEF Carrying, Starting, Shape, OwnStart
        <3>4. QED
            BY <2>4, <3>1, <3>2, <3>3 DEF BaseInv, StopThreads, At, Call
    <2>5. ASSUME NEW u \in Threads
          PROVE  /\ thread'[u].pc = "mark" => op'[thread'[u].call].phase # "Pending"
                 /\ thread'[u].pc \in {"token", "register"} =>
                      ~op'[thread'[u].call].registered /\ thread'[thread'[u].call].pc = "idle"
        <3>1. CASE thread'[u].pc = "mark"
            BY <1>6, <2>4, <3>1, Names
        <3>2. CASE thread'[u].pc \in {"token", "register"}
            <4>1. thread[u].call # x
                BY <1>1, <2>4, <3>2 DEF BaseInv, CarriedOnce, Call
            <4>2. QED
                BY <1>6, <2>2, <2>4, <3>2, <4>1, Names DEF At
        <3>3. QED
            BY <3>1, <3>2
    <2>6. QED
        BY <2>3, <2>5 DEF StopThreads, At, Call
<1>10. LockHeld' /\ Heads' /\ Counted'
    BY <1>1, <1>2, <1>3, <1>5, UnlockedLists DEF SameLists
<1>11. Types'
    BY <1>2, <1>3, <1>6, TypesStep DEF BaseInv, Types
<1>12. QED
    BY <1>3, <1>4, <1>8, <1>9, <1>10, <1>11, BaseFrom, ShapeStep

LEMMA RequestStopKept ==
    ASSUME BaseInv, NEW x \in Stoppable, RequestStop(x) PROVE BaseInv'
<1> DEFINE th == thread[x]
           new == thread'[x]
<1>1. /\ x \in Operations /\ x \in Threads /\ th.pc = "idle" /\ th.done = << >>
      /\ ~Holding(th) /\ th = NewThread
    <2>1. x \in Operations /\ x \in Threads /\ th.pc = "idle" /\ th = NewThread
        BY Shaped, Names DEF RequestStop, At, Shape
    <2>2. QED
        BY <2>1 DEF NewThread, Holding, Locked, Served, Transferring
<1>2. UNCHANGED <<lock, waiting, pending>>
    BY DEF RequestStop, queueVars, waiters
<1>3. SameOperations
    BY <1>1, Fields DEF RequestStop, SameOperations, BaseInv, Types
<1>4. CASE ~op[x].registered
    <2>1. thread' = thread
        BY <1>4 DEF RequestStop
    <2>2. QED
        BY <1>2, <1>3, <2>1, BaseStutter
<1>5. CASE op[x].registered
    <2>1. thread' = [thread EXCEPT ![x] =
              [NewThread EXCEPT !.pc = "lock", !.goal = "cancel", !.call = x]]
        BY <1>5 DEF RequestStop
    <2>2. /\ OnlyThread(x) /\ DOMAIN new = ThreadFields /\ new.pc = "lock" /\ new.goal = "cancel"
          /\ new.call = x /\ new.ok = FALSE /\ new.done = << >>
        BY <1>1, <2>1, Shaped DEF OnlyThread, NewThread, ThreadFields
    <2>3. Shape(x, new) /\ Jobs(x, new)
        BY <1>1, <2>2, EmptySeq, NamesAssumption DEF Shape, Jobs, Locked, Unlocked, Starting,
           Inside, Served, Transferring, OwnStart, OwnTry, OwnPoll, Calls
    <2>4. ~Holding(new) /\ ~Carrying(x, new)
        BY <2>2 DEF Holding, Locked, Served, Transferring, Carrying
    <2>5. LockHeld' /\ Heads' /\ Counted'
        BY <1>1, <1>2, <2>2, <2>4, UnlockedLists DEF SameLists
    <2>6. \A u \in Threads : /\ thread'[u].done = thread[u].done
                             /\ Carrying(u, thread'[u]) =>
                                  u # x /\ thread'[u] = thread[u]
        BY <1>1, <2>2, <2>4 DEF OnlyThread
    <2>7. CarriedOnce' /\ CarriedPhase' /\ HandedPhase' /\ HandedOnce' /\ PendingPhase' /\ Signals'
        BY <1>2, <1>3, <2>6 DEF BaseInv, CarriedOnce, CarriedPhase, HandedPhase, HandedOnce,
           PendingPhase, Signals, Finishing, Call, Carrying, SameOperations
    <2>8. StopThreads'
        <3>1. op[x].phase \notin {"Constructed", "Completed"}
            BY <1>5 DEF BaseInv, StopThreads
        <3>2. \A y \in Stoppable :
                 /\ op'[y].registered \/ thread'[y].pc \in {"lock", "cancel", "mark"} =>
                      op'[y].phase \notin {"Constructed", "Completed"}
                 /\ thread'[y].pc # "idle" => op'[y].phase # "Constructed"
            BY <1>3, <2>2, <3>1, Names DEF BaseInv, StopThreads, OnlyThread, SameOperations
        <3>3. ASSUME NEW u \in Threads, thread'[u].pc \in {"token", "register", "mark"}
              PROVE  /\ u # x /\ thread'[u] = thread[u] /\ thread[u].call \in Stoppable
                     /\ thread[u].pc = "mark" => op[thread[u].call].phase # "Pending"
                     /\ thread[u].pc \in {"token", "register"} =>
                          ~op[thread[u].call].registered /\ At(thread[u].call, "idle")
            <4>1. u # x /\ thread'[u] = thread[u]
                BY <2>2, <3>3 DEF OnlyThread
            <4>2. QED
                BY <3>3, <4>1 DEF BaseInv, Shapes, Shape, StopThreads, At, Call
        <3>4. ASSUME NEW u \in Threads
              PROVE  /\ thread'[u].pc = "mark" => op'[thread'[u].call].phase # "Pending"
                     /\ thread'[u].pc \in {"token", "register"} =>
                          ~op'[thread'[u].call].registered /\ thread'[thread'[u].call].pc = "idle"
            BY <1>3, <1>5, <2>2, <3>3, Names DEF SameOperations, OnlyThread, At
        <3>5. QED
            BY <3>2, <3>4 DEF StopThreads, At, Call
    <2>9. Types'
        BY <1>2, <1>3, <2>2, TypesStep, <1>1 DEF BaseInv, Types, SameOperations
    <2>10. QED
        BY <1>1, <2>2, <2>3, <2>5, <2>7, <2>8, <2>9, BaseFrom, ShapeStep
<1>6. QED
    BY <1>4, <1>5

LEMMA CompleteKept ==
    ASSUME BaseInv, NEW t \in Threads, Complete(t) PROVE BaseInv'
<1> DEFINE th == thread[t]
           x == Head(th.done)
           mid == [th EXCEPT !.done = Tail(th.done)]
           new == thread'[t]
<1>1. /\ th.pc = "complete" /\ th.done \in Seq(Operations) /\ th.done # << >> /\ ~Holding(th)
    BY Shaped DEF Complete, At, Shape, Holding, Locked, Served, Transferring
<1>2. /\ x \in Operations /\ ListedIn(th.done, x)
      /\ mid.done = Tail(th.done) /\ DOMAIN mid = ThreadFields /\ mid.goal = th.goal
      /\ mid.call = th.call /\ mid.ok = th.ok /\ mid.done \in Seq(Operations)
      /\ \A o : ListedIn(th.done, o) <=> ListedIn(mid.done, o) \/ o = x
      /\ Injective(mid.done) /\ ~ListedIn(mid.done, x)
    <2>1. mid.done = Tail(th.done) /\ DOMAIN mid = ThreadFields /\ mid.goal = th.goal
          /\ mid.call = th.call /\ mid.ok = th.ok
        BY Shaped, Fields
    <2>2. Injective(th.done)
        BY DEF BaseInv, HandedOnce
    <2>3. /\ \A o : ListedIn(th.done, o) <=> ListedIn(Tail(th.done), o) \/ o = x
          /\ Injective(Tail(th.done)) /\ ~ListedIn(Tail(th.done), x)
          /\ Tail(th.done) \in Seq(Operations)
        BY <1>1, <2>2, ListedTail
    <2>4. x \in Operations
        BY <1>1, HeadTailProperties
    <2>5. QED
        BY <2>1, <2>3, <2>4
<1>3. thread' = [thread EXCEPT ![t] = Return(t, mid)]
    BY Shaped DEF Complete
<1>4. OnlyThread(t) /\ new = Return(t, mid)
    BY <1>3, Shaped DEF OnlyThread
<1> HIDE DEF mid
<1>5. t \notin Stoppable /\ th.goal = "cancel" => th.done = << >>
    BY Shaped DEF Shape
<1>6. /\ Shape(t, new) /\ Jobs(t, new) /\ ~Holding(new) /\ new.done = mid.done
      /\ Carrying(t, new) => Carrying(t, th) /\ new.call = th.call
      /\ new.pc \in {"complete", "refused", "begin", "idle"}
    <2>1. Shape(t, th) /\ th.pc \in {"unlock", "complete"}
        BY <1>1, Shaped
    <2>2. t \notin Stoppable /\ th.goal = "cancel" => mid.done = << >>
        BY <1>1, <1>5
    <2>3. /\ Shape(t, Return(t, mid)) /\ Jobs(t, Return(t, mid)) /\ ~Holding(Return(t, mid))
          /\ Return(t, mid).done = mid.done
          /\ Carrying(t, Return(t, mid)) => Carrying(t, th) /\ Return(t, mid).call = th.call
          /\ Return(t, mid).pc \in {"complete", "refused", "begin", "idle"}
        BY <1>2, <2>1, <2>2, ReturnShape
    <2>4. QED
        BY <1>4, <2>3
<1>7. UNCHANGED <<lock, waiting, pending>>
    BY DEF Complete, queueVars, waiters
<1>8. /\ DOMAIN op' = Operations /\ \A o \in Operations : DOMAIN op'[o] = OpFields
      /\ \A o \in Operations \ {x} : op'[o] = op[o]
      /\ op'[x].phase = "Completed" /\ op'[x].signals = op[x].signals + 1
      /\ ~op'[x].registered
    BY <1>2, Fields DEF BaseInv, Types, Complete, Signalled, Signal
<1>9. Carrying(t, new) => new.call # x
    BY <1>2, <1>6 DEF BaseInv, CarriedPhase, Finishing, Call
<1>10. x \in Stoppable \ {t} => At(x, "idle")
    BY DEF Complete, CallbackDone
<1>11. Completes(t, x)
    BY <1>1, <1>2, <1>6, <1>8, <1>9, <1>10 DEF Completes, At
<1>12. QED
    BY <1>1, <1>2, <1>4, <1>6, <1>7, <1>11, CompletesKept

LEMMA StartRefusedKept ==
    ASSUME BaseInv, NEW t \in Threads, StartRefused(t) PROVE BaseInv'
<1> DEFINE x == Call(t)
           th == thread[t]
           new == thread'[t]
<1>1. /\ th.pc = "refused" /\ OwnStart(t, th) /\ th.done = << >> /\ ~Holding(th)
      /\ ~Reserving(th) /\ x \in Operations /\ t \notin Stoppable /\ Carrying(t, th)
    BY Shaped DEF StartRefused, Shape, At, Call, Holding, Locked, Served, Transferring,
       Starting, Carrying, OwnStart, Reserving
<1>2. UNCHANGED <<lock, waiting, pending>>
    BY DEF StartRefused, queueVars, waiters
<1>3. thread' = [thread EXCEPT ![t] = NewThread]
    BY DEF StartRefused
<1>4. Near(t, th, NewThread)
    BY <1>1, NearIdle
<1>5. CASE op[x].phase # "StopRequested"
    <2>1. op' = op
        BY <1>5 DEF StartRefused
    <2>2. QED
        BY <1>2, <1>3, <1>4, <2>1, NearStep, SameOp DEF SameLists
<1>6. CASE op[x].phase = "StopRequested"
    <2>1. /\ DOMAIN op' = Operations /\ \A o \in Operations : DOMAIN op'[o] = OpFields
          /\ \A o \in Operations \ {x} : op'[o] = op[o]
          /\ op'[x].phase = "Completed" /\ op'[x].signals = op[x].signals + 1
          /\ ~op'[x].registered
        BY <1>1, <1>6, Fields DEF BaseInv, Types, StartRefused, Signalled, Signal
    <2>2. OnlyThread(t) /\ new = NewThread
        BY <1>3, Shaped DEF OnlyThread
    <2>3. NewThread.done = << >> /\ NewThread.pc = "idle" /\ NewThread.call = None
        BY DEF NewThread
    <2>4. Shape(t, new) /\ Jobs(t, new) /\ ~Holding(new) /\ ~Carrying(t, new)
        BY <1>1, <1>4, <2>2, <2>3, NamesAssumption DEF Near, Carrying, Calls
    <2>5. x \in Stoppable \ {t} => At(x, "idle")
        BY DEF StartRefused, CallbackDone
    <2>6. Completes(t, x)
        BY <1>1, <2>1, <2>2, <2>3, <2>4, <2>5, ListedFew DEF Completes, At
    <2>7. QED
        BY <1>1, <1>2, <2>2, <2>4, <2>6, CompletesKept
<1>7. QED
    BY <1>5, <1>6

LEMMA FlushKept ==
    ASSUME BaseInv, NEW t \in Threads, Flush(t) PROVE BaseInv'
<1>1. UNCHANGED <<lock, waiting, pending, thread, op>>
    BY DEF Flush, queueVars, waiters
<1>2. QED
    BY <1>1, SameOp, BaseStutter
-----------------------------------------------------------------------------
(* The invariant holds at first and is kept by every step. *)
LEMMA InitBase == Init => BaseInv
<1> SUFFICES ASSUME Init PROVE BaseInv
    OBVIOUS
<1>1. /\ DOMAIN NewThread = ThreadFields /\ NewThread.pc = "idle"
      /\ NewThread.goal = None /\ NewThread.call = None /\ NewThread.ok = FALSE
      /\ NewThread.done = << >>
    BY DEF ThreadFields, NewThread
<1>2. /\ DOMAIN thread = Threads /\ \A t \in Threads : thread[t] = NewThread
      /\ DOMAIN op = Operations /\ lock = None
      /\ DOMAIN waiting = Sides /\ DOMAIN pending = Sides
      /\ \A side \in Sides : waiting[side] = 0 /\ pending[side] = << >>
    BY DEF Init, Sides
<1>3. \A o \in Operations :
         /\ DOMAIN op[o] = OpFields /\ op[o].phase = "Constructed" /\ op[o].signals = 0
         /\ op[o].registered = FALSE
    BY DEF Init, OpFields, NewOperation
<1>4. Types
    BY <1>2, <1>3, EmptySeq DEF Types, Sides
<1>5. Shapes
    BY <1>1, <1>2, EmptySeq, NamesAssumption, ZenonT(40)
       DEF Shapes, Shape, Jobs, Locked, Unlocked, Starting, Inside, Served, Transferring
<1>6. \A t \in Threads : /\ ~Holding(thread[t]) /\ ~Reserving(thread[t])
                         /\ ~Fronting(thread[t]) /\ ~Carrying(t, thread[t])
    BY <1>1, <1>2, NamesAssumption DEF Holding, Reserving, Fronting, Carrying, Transferring,
       Locked, Served, Calls
<1>7. LockHeld
    BY <1>2, <1>6, NamesAssumption DEF LockHeld
<1>8. Heads
    BY <1>1, <1>2, <1>6 DEF Heads, At
<1>9. Counted
    BY <1>2, <1>6 DEF Counted, Reserved
<1>10. /\ \A s : ~ListedIn(<< >>, s)
       /\ Injective(<< >>)
    BY DEF ListedIn, Injective
<1>11. CarriedOnce /\ CarriedPhase /\ HandedPhase /\ HandedOnce /\ PendingPhase /\ Signals
    <2>1. \A side \in Sides : \A o : ~ListedIn(pending[side], o) /\ Injective(pending[side])
        BY <1>2, <1>10
    <2>2. \A o : SideOf(o) \in Sides
        BY DEF SideOf, Sides
    <2>3. \A o : ~Finishing(o)
        BY <1>1, <1>2, <1>10 DEF Finishing
    <2>4. \A t \in Threads : Injective(thread[t].done) /\ \A o : ~ListedIn(thread[t].done, o)
        BY <1>1, <1>2, <1>10
    <2>5. QED
        BY <1>3, <1>6, <2>1, <2>2, <2>3, <2>4 DEF CarriedOnce, CarriedPhase, HandedPhase,
           HandedOnce, PendingPhase, Signals
<1>12. StopThreads
    BY <1>1, <1>2, <1>3, Names DEF StopThreads, At
<1>13. QED
    BY <1>4, <1>5, <1>7, <1>8, <1>9, <1>11, <1>12 DEF BaseInv

LEMMA BeginKept ==
    ASSUME BaseInv,
           \/ \E t \in Producers \cup Consumers : Begin(t)
           \/ \E k \in Controllers : Close(k) \/ Abort(k)
           \/ \E x \in Stoppable : RequestStop(x)
    PROVE  BaseInv'
<1>1. CASE \E t \in Producers \cup Consumers : Begin(t)
    BY <1>1, BeginNewCall, StartKept, Names DEF Begin
<1>2. CASE \E k \in Controllers : Close(k) \/ Abort(k)
    BY <1>2, BeginNewCall
<1>3. CASE \E x \in Stoppable : RequestStop(x)
    BY <1>3, RequestStopKept
<1>4. QED
    BY <1>1, <1>2, <1>3

LEMMA CallStepKept ==
    ASSUME BaseInv, NEW t \in Threads, CallStep(t) PROVE BaseInv'
BY TryPopWaitingKept, TryPopAfterKept, CheckTokenKept, RegisterCallbackKept, StartPhaseKept,
   StartLifecycleKept, EnterProducerKept, EnterOpenKept, FastPathKept, LeaveProducerKept,
   LastProducerLeftKept, WakeKept, StartRefusedKept DEF CallStep

LEMMA CancelKept ==
    ASSUME BaseInv, NEW t \in Threads, CancelOperation(t) PROVE BaseInv'
BY CancelPendingKept, CancelOtherKept

LEMMA LockedStepKept ==
    ASSUME BaseInv, NEW t \in Threads, LockedStep(t) PROVE BaseInv'
<1>1. CASE AdmitStopped(t) \/ AdmitRefused(t) \/ AdmitReserved(t) \/ Settle(t) \/ Park(t)
    BY <1>1, AdmitStoppedKept, AdmitRefusedKept, AdmitReservedKept, SettleKept, ParkKept
<1>2. CASE \E side \in {"push", "pop"} : Front(t, side)
    BY <1>2, FrontKept DEF Sides
<1>3. CASE Drop(t) \/ Sweep(t) \/ StopConsumers(t) \/ SetLifecycle(t) \/ FailPending(t)
    BY <1>3, DropKept, SweepKept, DrainingKept, SetLifecycleKept
<1>4. CASE CancelOperation(t) \/ MarkStopRequested(t) \/ Unlock(t)
    BY <1>4, CancelKept, MarkKept, UnlockKept
<1>5. QED
    BY <1>1, <1>2, <1>3, <1>4 DEF LockedStep

LEMMA NextBase == BaseInv /\ [Next]_vars => BaseInv'
<1> SUFFICES ASSUME BaseInv, [Next]_vars PROVE BaseInv'
    OBVIOUS
<1>1. CASE UNCHANGED vars
    BY <1>1, BaseStutter, SameOp DEF vars, queueVars, waiters
<1>2. CASE /\ Next
           /\ \E t \in Threads : CallStep(t) \/ TransferStep(t) \/ Lock(t)
                                   \/ LockedStep(t) \/ Complete(t) \/ Flush(t)
    BY <1>2, CallStepKept, TransferStepKept, LockKept, LockedStepKept, CompleteKept, FlushKept
<1>3. QED
    BY <1>1, <1>2, BeginKept DEF Next

(* Every call of AsyncQueue.h keeps an operation in one place at a time:   *)
(* with the thread that started it, in a list of waiters, or in the list   *)
(* of one thread that will complete it; and the lock, the phases and the   *)
(* counters agree with that.                                               *)
THEOREM BaseInvariant == Spec => []BaseInv
<1>1. QED
    BY InitBase, NextBase, PTL DEF Spec

(* The counts of waiting operations that the paths without the lock read  *)
(* (waitingProducers_, waitingConsumers_) are never less than the lists    *)
(* are long, and equal to it whenever the mutex is free.                   *)
THEOREM WaitersAreCounted == Spec => []WaitersCounted
<1>1. BaseInv => WaitersCounted
    <2> SUFFICES ASSUME BaseInv PROVE WaitersCounted
        OBVIOUS
    <2>1. lock = None => \A side \in Sides : ~Reserved(side)
        BY NamesAssumption DEF BaseInv, LockHeld, Reserved, Reserving, Holding, Locked
    <2>2. ASSUME NEW side \in Sides
          PROVE  /\ waiting[side] >= Len(pending[side])
                 /\ lock = None => waiting[side] = Len(pending[side])
        <3>1. Len(pending[side]) \in Nat
            BY Lengths
        <3>2. CASE Reserved(side)
            <4>1. waiting[side] = Len(pending[side]) + 1
                BY <3>2 DEF BaseInv, Counted
            <4>2. QED
                BY <2>1, <3>1, <3>2, <4>1
        <3>3. CASE ~Reserved(side)
            <4>1. waiting[side] = Len(pending[side]) + 0
                BY <3>3 DEF BaseInv, Counted
            <4>2. QED
                BY <3>1, <4>1
        <3>4. QED
            BY <3>2, <3>3
    <2>3. QED
        BY <2>2 DEF WaitersCounted, Sides
<1>2. QED
    BY <1>1, BaseInvariant, PTL

(* Whatever start, cancellation, waiter service, Close and Abort race for  *)
(* an operation: its receiver is signalled once, and after that no list,   *)
(* transfer or start refers to it, so it may be destroyed at once.         *)
THEOREM CompletesAtMostOnce == Spec => []CompletesOnce
<1>1. BaseInv => CompletesOnce
    <2> SUFFICES ASSUME BaseInv, NEW o \in Operations
                 PROVE  op[o].signals <= 1 /\ (op[o].signals = 1 => ~Referenced(o))
        BY DEF CompletesOnce
    <2>1. op[o].signals <= 1
        BY DEF BaseInv, Signals
    <2>2. ASSUME op[o].signals = 1, Referenced(o) PROVE FALSE
        <3>1. op[o].phase = "Completed"
            BY <2>2 DEF BaseInv, Signals
        <3>2. ~ListedIn(pending[SideOf(o)], o) /\ ~Finishing(o)
            BY <3>1 DEF BaseInv, PendingPhase, HandedPhase
        <3>3. ASSUME NEW t \in Threads PROVE ~(Carrying(t, thread[t]) /\ thread[t].call = o)
            BY <3>1 DEF BaseInv, CarriedPhase, Call
        <3>4. PICK t \in Threads :
                 \/ thread[t].job = o /\ thread[t].pc \in
                      {"push", "publish", "pop", "pop.free", "pop.advance", "drop"}
                 \/ thread[t].call = o /\ thread[t].pc \in
                      {"admit", "park", "settle", "leave", "left", "wake", "refused",
                       "cancel", "mark", "waiting", "admit.fast"}
            BY <2>2, <3>2 DEF Referenced, Finishing
        <3>5. CASE Fronting(thread[t])
            <4>1. thread[t].job = o
                BY <3>4, <3>5, Shaped DEF Fronting, Transferring
            <4>2. QED
                BY <3>2, <3>5, <4>1, PendingTypes DEF BaseInv, Heads
        <3>6. CASE Transferring(thread[t]) /\ thread[t].from # "front"
            <4>1. thread[t].job = o
                BY <3>4, <3>6 DEF Transferring
            <4>2. o # None /\ o \notin TryValues /\ o \in Calls
                BY NamesAssumption DEF Calls
            <4>3. /\ thread[t].from \in {"fast", "reserved"} /\ thread[t].call = o
                  /\ OwnStart(t, thread[t])
                BY <3>6, <4>1, <4>2, Shaped DEF Jobs, OwnTry
            <4>4. Carrying(t, thread[t])
                BY <3>6, <4>3 DEF Carrying, OwnStart
            <4>5. QED
                BY <3>3, <4>3, <4>4
        <3>7. CASE thread[t].call = o /\ thread[t].pc \in
                      {"admit", "park", "settle", "leave", "left", "wake", "refused",
                       "waiting", "admit.fast"}
            <4>1. OwnStart(t, thread[t])
                BY <3>7, Shaped, NamesAssumption DEF Shape, Starting, Inside, OwnTry
            <4>2. Carrying(t, thread[t])
                BY <3>7, <4>1 DEF Carrying, Starting, Inside, OwnStart
            <4>3. QED
                BY <3>3, <3>7, <4>2
        <3>8. CASE thread[t].call = o /\ thread[t].pc \in {"cancel", "mark"}
            <4>1. thread[t].goal = "cancel" /\ o \in Stoppable
                BY <3>8, Shaped DEF Shape
            <4>2. CASE t \notin Stoppable
                BY <3>3, <3>8, <4>1, <4>2 DEF Carrying
            <4>3. CASE t \in Stoppable
                <5>1. t = o
                    BY <3>8, <4>3, Shaped DEF Shape
                <5>2. QED
                    BY <3>1, <3>8, <4>3, <5>1 DEF BaseInv, StopThreads
            <4>4. QED
                BY <4>2, <4>3
        <3>9. QED
            BY <3>4, <3>5, <3>6, <3>7, <3>8 DEF Fronting, Transferring
    <2>3. QED
        BY <2>1, <2>2
<1>2. QED
    BY <1>1, BaseInvariant, PTL
-----------------------------------------------------------------------------
(* The single side of a topology: who may be on it.                        *)

(* A thread stays with its call until it returns from it. *)
Goes(old, new) ==
    \/ new.pc = "idle"
    \/ /\ old.pc # "idle" /\ new.call = old.call
       /\ new.goal = old.goal \/ old.goal \in {"start", "service", "cancel"}

Faster(old, new) ==
    \A side \in Sides :
        Fast(new, side) => Fast(old, side) \/ waiting[side] = 0

Single(t) ==
    /\ OnlyThread(t) /\ Goes(thread[t], thread'[t]) /\ Faster(thread[t], thread'[t])
    /\ \A side \in Sides : waiting[side] = 0 => waiting'[side] = 0

LEMMA SingleKept ==
    ASSUME BaseInv, SingleUser, topology' = topology, NEW t \in Threads, Single(t)
    PROVE  SingleUser'
<1>1. ASSUME NEW u \in Threads, NEW side, Using(u, side)' PROVE Using(u, side)
    <2>1. CASE u = t
        BY <1>1, <2>1 DEF Using, Single, Goes, OnlyThread, At, Call
    <2>2. CASE u # t
        BY <1>1, <2>2 DEF Using, Single, OnlyThread, At, Call
    <2>3. QED
        BY <2>1, <2>2
<1>2. \A side : Multiple(side)' <=> Multiple(side)
    BY DEF Multiple, MultipleProducers, MultipleConsumers
<1>3. ASSUME NEW side \in Sides, ~Multiple(side), NEW u \in Threads, Fast(thread'[u], side)
      PROVE  waiting'[side] = 0
    <2>1. Fast(thread[u], side) \/ waiting[side] = 0
        BY <1>3 DEF Single, OnlyThread, Faster
    <2>2. waiting[side] = 0
        BY <1>3, <2>1 DEF SingleUser
    <2>3. QED
        BY <1>3, <2>2 DEF Single
<1>4. QED
    BY <1>1, <1>2, <1>3 DEF SingleUser

(* Steps outside of a transfer that end outside of one. *)
LEMMA SingleQuiet ==
    ASSUME NEW t, OnlyThread(t), Goes(thread[t], thread'[t]), ~Transferring(thread'[t]),
           \A side \in Sides : waiting[side] = 0 => waiting'[side] = 0
    PROVE  Single(t)
BY DEF Single, Faster, Fast

LEMMA ReturnGoes ==
    ASSUME NEW t, NEW th, DOMAIN th = ThreadFields, NEW old, old.pc # "idle",
           th.call = old.call,
           th.goal = old.goal \/ old.goal \in {"start", "service", "cancel"}
    PROVE  Goes(old, Return(t, th)) /\ ~Transferring(Return(t, th))
<1> DEFINE new == Return(t, th)
<1>1. \/ new = [th EXCEPT !.pc = "complete"]
      \/ new = [th EXCEPT !.pc = "refused"]
      \/ th.goal = "cancel" /\ new = [th EXCEPT !.pc = "begin", !.goal = "start"]
      \/ new = NewThread
    BY DEF Return
<1> HIDE DEF new
<1>2. NewThread.pc = "idle"
    BY DEF NewThread
<1>3. QED
    BY <1>1, <1>2, Fields DEF Goes, Transferring, new

LEMMA OnwardGoes ==
    ASSUME NEW th, NEW old, old.pc # "idle", th.call = old.call, th.goal = old.goal,
           NEW new, NEW lists, Onward(new, th, lists)
    PROVE  Goes(old, new) /\ ~Transferring(new)
BY DEF Goes, Transferring, Onward

LEMMA CallStepSingle ==
    ASSUME BaseInv, NEW t \in Threads, CallStep(t) PROVE Single(t)
<1> DEFINE th == thread[t]
           new == thread'[t]
<1> USE DEF At, queueVars, waiters
<1>1. CASE TryPopWaiting(t)
    <2>1. /\ OnlyThread(t) /\ th.pc = "poll" /\ SideOf(th.job) = "pop"
          /\ waiting' = waiting
          /\ IF waiting.pop # 0 THEN new = NewThread
             ELSE new = [th EXCEPT !.pc = "pop", !.from = "poll"]
        BY <1>1, Shaped, NamesAssumption
           DEF TryPopWaiting, OnlyThread, Jobs, SideOf, IsPush, Calls, Operations
    <2>2. NewThread.pc = "idle"
        BY DEF NewThread
    <2>3. CASE waiting.pop # 0
        BY <2>1, <2>2, <2>3, SingleQuiet DEF Goes, Transferring
    <2>4. CASE waiting.pop = 0
        <3>1. /\ new.pc = "pop" /\ new.from = "poll" /\ new.job = th.job /\ new.call = th.call
              /\ new.goal = th.goal
            BY <2>1, <2>4, Shaped, Fields
        <3>2. QED
            BY <2>1, <2>4, <3>1 DEF Single, Goes, Faster, Fast, Transferring
    <2>5. QED
        BY <2>3, <2>4
<1>2. CASE TryPopAfter(t)
    <2>1. /\ OnlyThread(t) /\ th.pc = "polled" /\ waiting' = waiting
          /\ new = [th EXCEPT !.pc = "lock"] \/ new = NewThread
        BY <1>2, Shaped DEF TryPopAfter, OnlyThread
    <2>2. Goes(th, new) /\ ~Transferring(new)
        BY <2>1, Shaped, Fields DEF Goes, Transferring, NewThread
    <2>3. QED
        BY <2>1, <2>2, SingleQuiet
<1>3. CASE CheckToken(t)
    <2>1. /\ OnlyThread(t) /\ th.pc = "token" /\ waiting' = waiting
          /\ new = [th EXCEPT !.pc = "register"] \/ new = NewThread
        BY <1>3, Shaped DEF CheckToken, OnlyThread, Goto
    <2>2. Goes(th, new) /\ ~Transferring(new)
        BY <2>1, Shaped, Fields DEF Goes, Transferring, NewThread
    <2>3. QED
        BY <2>1, <2>2, SingleQuiet
<1>4. CASE RegisterCallback(t)
    <2>1. /\ OnlyThread(t) /\ th.pc = "register" /\ waiting' = waiting /\ th.goal = "start"
          /\ new.call = th.call /\ new.pc \in {"lock", "begin"} /\ new.goal \in {th.goal, "cancel"}
        BY <1>4, Shaped, Fields DEF RegisterCallback, OnlyThread, Goto, Shape, OwnStart, Starting
    <2>2. QED
        BY <2>1, SingleQuiet DEF Goes, Transferring
<1>5. CASE StartPhase(t) \/ StartLifecycle(t) \/ EnterProducer(t)
    <2>1. PICK pc \in {"admit.fast", "refused", "enter.fast", "lock", "waiting", "enter"} :
             thread' = [thread EXCEPT ![t].pc = pc]
        BY <1>5 DEF StartPhase, StartLifecycle, EnterProducer, Goto
    <2>2. OnlyThread(t) /\ th.pc # "idle" /\ waiting' = waiting
        BY <1>5, <2>1, Shaped DEF OnlyThread, StartPhase, StartLifecycle, EnterProducer
    <2>3. new.pc = pc /\ new.call = th.call /\ new.goal = th.goal
        BY <2>1, Shaped, Fields
    <2>4. QED
        BY <2>2, <2>3, SingleQuiet DEF Goes, Transferring
<1>6. CASE EnterOpen(t)
    <2>1. OnlyThread(t) /\ th.pc # "idle" /\ waiting' = waiting
        BY <1>6, Shaped DEF OnlyThread, EnterOpen
    <2>2. new.pc \in {"waiting", "leave"} /\ new.call = th.call /\ new.goal = th.goal
        BY <1>6, Shaped, Fields DEF EnterOpen
    <2>3. QED
        BY <2>1, <2>2, SingleQuiet DEF Goes, Transferring
<1>7. CASE FastPath(t)
    <2>1. /\ OnlyThread(t) /\ th.pc = "waiting" /\ waiting' = waiting
          /\ new.call = th.call /\ new.goal = th.goal
          /\ IF waiting[SideOf(th.call)] # 0 THEN new.pc \in {"leave", "lock"}
             ELSE new.pc = SideOf(th.call) /\ new.job = th.call /\ new.from = "fast"
        BY <1>7, Shaped, Fields DEF FastPath, OnlyThread, Call, Behind
    <2>2. Goes(th, new)
        BY <2>1 DEF Goes, SideOf
    <2>3. CASE waiting[SideOf(th.call)] # 0
        BY <2>1, <2>2, <2>3, SingleQuiet DEF Transferring
    <2>4. CASE waiting[SideOf(th.call)] = 0
        BY <2>1, <2>2, <2>4 DEF Single, Faster, Fast
    <2>5. QED
        BY <2>3, <2>4
<1>8. CASE LeaveProducer(t) \/ LastProducerLeft(t) \/ Wake(t)
    <2>1. /\ th.pc \in {"leave", "left", "wake"} /\ th.goal \in {"start", "service"}
          /\ waiting' = waiting
        BY <1>8, Shaped DEF LeaveProducer, LastProducerLeft, Wake, Shape, Inside, OwnStart, OwnTry
    <2>2. ASSUME NEW service, Finish(t, service) PROVE OnlyThread(t) /\ Goes(th, new) /\ ~Transferring(new)
        <3> DEFINE listed == IF Call(t) \in Operations THEN <<Call(t)>> ELSE << >>
                   next == [th EXCEPT !.done = listed, !.goal = "service"]
        <3>1. DOMAIN next = ThreadFields /\ next.call = th.call /\ next.goal = "service"
            BY Shaped, Fields
        <3>2. OnlyThread(t) /\ new = IF service THEN [next EXCEPT !.pc = "lock"] ELSE Return(t, next)
            BY <2>2, Shaped DEF Finish, OnlyThread
        <3> HIDE DEF next
        <3>3. CASE service
            BY <2>1, <3>1, <3>2, <3>3, Fields DEF Goes, Transferring
        <3>4. CASE ~service
            BY <2>1, <3>1, <3>2, <3>4, ReturnGoes
        <3>5. QED
            BY <3>2, <3>3, <3>4
    <2>3. ASSUME NEW service, Depart(t, service) PROVE OnlyThread(t) /\ Goes(th, new) /\ ~Transferring(new)
        <3>1. CASE Finish(t, TRUE)
            BY <2>2, <3>1
        <3>2. CASE \/ thread' = [thread EXCEPT ![t].pc = "lock", ![t].ok = TRUE]
                   \/ thread' = [thread EXCEPT ![t] = [th EXCEPT !.pc = "wake"]]
                   \/ thread' = [thread EXCEPT ![t] = NewThread]
            <4>1. OnlyThread(t)
                BY <3>2, Shaped DEF OnlyThread
            <4>2. \/ new.pc \in {"lock", "wake"} /\ new.call = th.call /\ new.goal = th.goal
                  \/ new.pc = "idle"
                BY <3>2, Shaped, Fields DEF NewThread
            <4>3. QED
                BY <2>1, <4>1, <4>2 DEF Goes, Transferring
        <3>3. QED
            BY <2>3, <3>1, <3>2, Shaped DEF Depart
    <2>4. ASSUME Goto(t, "left") PROVE OnlyThread(t) /\ Goes(th, new) /\ ~Transferring(new)
        BY <2>1, <2>4, Shaped, Fields DEF Goto, OnlyThread, Goes, Transferring
    <2>5. OnlyThread(t) /\ Goes(th, new) /\ ~Transferring(new)
        BY <1>8, <2>2, <2>3, <2>4 DEF LeaveProducer, LastProducerLeft, Wake
    <2>6. QED
        BY <2>1, <2>5, SingleQuiet
<1>9. CASE StartRefused(t)
    <2>1. OnlyThread(t) /\ new = NewThread /\ waiting' = waiting
        BY <1>9, Shaped DEF StartRefused, OnlyThread
    <2>2. QED
        BY <2>1, SingleQuiet DEF Goes, Transferring, NewThread
<1>10. QED
    BY <1>1, <1>2, <1>3, <1>4, <1>5, <1>6, <1>7, <1>8, <1>9 DEF CallStep

(* What a step of a transfer does to its thread. *)
LEMMA BackGoes ==
    ASSUME NEW th, DOMAIN th = ThreadFields, th.pc # "idle",
           th.from \in {"fast", "poll", "reserved", "front"}, NEW result
    PROVE  Goes(th, Back(th, result)) /\ ~Transferring(Back(th, result))
<1> DEFINE new == Back(th, result)
<1>1. \/ \E pc \in {"wake", "lock"} : new = [Clear(th) EXCEPT !.pc = pc]
      \/ \E pc \in {"leave", "polled"} : \E b : new = [Clear(th) EXCEPT !.pc = pc, !.ok = b]
      \/ \E pc \in {"settle", "park", "drop"} : new = [th EXCEPT !.pc = pc]
      \/ new = AfterFront(th, SideOf(th.job), pending)
    BY DEF Back
<1> HIDE DEF new
<1>2. CASE \E pc \in {"wake", "lock"} : new = [Clear(th) EXCEPT !.pc = pc]
    BY <1>2, Fields DEF Goes, Transferring, Clear, new
<1>3. CASE \E pc \in {"leave", "polled"} : \E b : new = [Clear(th) EXCEPT !.pc = pc, !.ok = b]
    BY <1>3, Fields DEF Goes, Transferring, Clear, new
<1>4. CASE \E pc \in {"settle", "park", "drop"} : new = [th EXCEPT !.pc = pc]
    BY <1>4, Fields DEF Goes, Transferring, new
<1>5. CASE new = AfterFront(th, SideOf(th.job), pending)
    BY <1>5, AfterFrontOnward, OnwardGoes DEF new
<1>6. QED
    BY <1>1, <1>2, <1>3, <1>4, <1>5

LEMMA TransferMoves ==
    ASSUME BaseInv, NEW t \in Threads, TransferStep(t)
    PROVE  /\ Transferring(thread[t]) /\ UNCHANGED <<topology, lock, waiting, pending>>
           /\ \/ thread' = thread
              \/ \E new : /\ thread' = [thread EXCEPT ![t] = new]
                          /\ \/ GoesOn(new, thread[t])
                             \/ \E result : new = Back(thread[t], result)
<1> DEFINE th == thread[t]
           Moved == \/ thread' = thread
                    \/ \E new : /\ thread' = [thread EXCEPT ![t] = new]
                                /\ \/ GoesOn(new, th)
                                   \/ \E result : new = Back(th, result)
<1> USE DEF At
<1>1. Transferring(th) /\ UNCHANGED <<topology, lock, waiting, pending>>
    BY DEF TransferStep, PushElement, PushClaim, PushPublish, PushUnplaced, PopElement, PopTake,
       PopFree, PopRelease, PopAdvance, PopNothing, Transferring, queueVars, waiters
<1>2. ASSUME NEW result, Conclude(t, result) PROVE Moved
    BY <1>2, Shaped DEF Conclude
<1>3. ASSUME NEW pc \in {"publish", "pop", "pop.free", "pop.advance"}, NEW position,
             th.pc \in {"push", "publish"} <=> pc = "publish",
             \/ thread' = [thread EXCEPT ![t] = [th EXCEPT !.pc = pc]]
             \/ thread' = [thread EXCEPT ![t] = [th EXCEPT !.pc = pc, !.position = position]]
      PROVE  Moved
    <2>1. /\ GoesOn([th EXCEPT !.pc = pc], th)
          /\ GoesOn([th EXCEPT !.pc = pc, !.position = position], th)
        BY <1>3, Shaped, Fields DEF GoesOn, Transferring
    <2>2. QED
        BY <1>3, <2>1
<1>4. ASSUME th.pc \in {"pop", "pop.advance"}, MoveHead(t) PROVE Moved
    <2>1. \/ thread' = [thread EXCEPT ![t] = Back(th, "Popped")]
          \/ thread' = [thread EXCEPT ![t] = [th EXCEPT !.pc = "pop.free", !.position = taken]]
          \/ thread' = [thread EXCEPT ![t] = [th EXCEPT !.pc = "pop"]]
        BY <1>4, Shaped DEF MoveHead
    <2>2. QED
        BY <1>3, <1>4, <2>1
<1> HIDE DEF Moved
<1>5. ASSUME PushElement(t) \/ PushPublish(t) \/ PushUnplaced(t) \/ PopNothing(t) PROVE Moved
    <2>1. thread' = thread => Moved
        BY DEF Moved
    <2>2. QED
        BY <1>2, <1>5, <2>1 DEF PushElement, PushPublish, PushUnplaced, PopNothing
<1>6. ASSUME PushClaim(t) PROVE Moved
    <2>1. thread' = [thread EXCEPT ![t] = [th EXCEPT !.pc = "publish", !.position = Claimed]]
        BY <1>6, Shaped DEF PushClaim
    <2>2. QED
        BY <1>3, <1>6, <2>1 DEF PushClaim
<1>7. ASSUME PopElement(t) \/ PopTake(t) \/ PopAdvance(t) PROVE Moved
    BY <1>4, <1>7 DEF PopElement, PopTake, PopAdvance
<1>8. ASSUME PopFree(t) PROVE Moved
    <2>1. \/ thread' = [thread EXCEPT ![t] = Back(th, "Popped")]
          \/ thread' = [thread EXCEPT ![t] = [th EXCEPT !.pc = "pop"]]
        BY <1>8, Shaped DEF PopFree
    <2>2. th.pc = "pop.free"
        BY <1>8 DEF PopFree
    <2>3. QED
        BY <1>3, <2>1, <2>2 DEF Moved
<1>9. ASSUME PopRelease(t) PROVE Moved
    <2>1. thread' = [thread EXCEPT ![t] = [th EXCEPT !.pc = "pop.advance"]]
        BY <1>9, Shaped DEF PopRelease, Goto
    <2>2. QED
        BY <1>3, <1>9, <2>1 DEF PopRelease
<1>10. QED
    BY <1>1, <1>5, <1>6, <1>7, <1>8, <1>9 DEF TransferStep, Moved

LEMMA TransferStepSingle ==
    ASSUME BaseInv, NEW t \in Threads, TransferStep(t) PROVE Single(t)
<1> DEFINE th == thread[t]
<1>1. /\ Transferring(th) /\ waiting' = waiting /\ th.pc # "idle"
      /\ th.from \in {"fast", "poll", "reserved", "front"}
    BY TransferMoves, Shaped DEF Jobs, Transferring
<1>2. CASE thread' = thread
    BY <1>1, <1>2, Shaped DEF Single, OnlyThread, Goes, Faster
<1>3. ASSUME NEW new, thread' = [thread EXCEPT ![t] = new], GoesOn(new, th) PROVE Single(t)
    BY <1>1, <1>3, Shaped DEF Single, OnlyThread, Goes, Faster, Fast, GoesOn
<1>4. ASSUME NEW new, thread' = [thread EXCEPT ![t] = new], NEW result, new = Back(th, result)
      PROVE  Single(t)
    BY <1>1, <1>4, Shaped, BackGoes, SingleQuiet DEF OnlyThread
<1>5. QED
    BY <1>2, <1>3, <1>4, TransferMoves

(* The holder of the lock, but for the one that counts itself. *)
LEMMA LockedStepSingle ==
    ASSUME BaseInv, NEW t \in Threads, LockedStep(t), ~AdmitReserved(t) PROVE Single(t)
<1> DEFINE th == thread[t]
           new == thread'[t]
           Moved == OnlyThread(t) /\ Goes(th, new) /\ Faster(th, new)
<1> USE DEF At
<1>0. th.pc # "idle"
    BY DEF LockedStep, AdmitStopped, AdmitRefused, Settle, Park, Front, Drop, Sweep,
       StopConsumers, SetLifecycle, FailPending, CancelOperation, MarkStopRequested, Unlock
<1>1. ASSUME NEW mid, DOMAIN mid = ThreadFields, mid.goal = th.goal, mid.call = th.call,
             NEW lists, thread' = [thread EXCEPT ![t] = Scan(mid, lists)]
      PROVE  Moved
    <2>1. OnlyThread(t) /\ new = Scan(mid, lists)
        BY <1>1, Shaped DEF OnlyThread
    <2>2. QED
        BY <1>0, <1>1, <2>1, ScanOnward, OnwardGoes DEF Faster, Fast
<1>2. ASSUME NEW pc, pc \notin {"push", "publish", "pop", "pop.free", "pop.advance"},
             Goto(t, pc)
      PROVE  Moved
    BY <1>0, <1>2, Shaped, Fields DEF Goto, OnlyThread, Goes, Faster, Fast, Transferring
<1>3. ASSUME NEW x, \/ thread' = [thread EXCEPT ![t] = [th EXCEPT !.pc = "unlock", !.done = x]]
                    \/ thread' = [thread EXCEPT ![t] = [th EXCEPT !.pc = "drop", !.job = x]]
      PROVE  Moved
    <2>1. OnlyThread(t)
        BY <1>3, Shaped DEF OnlyThread
    <2>2. new.pc \in {"unlock", "drop"} /\ new.call = th.call /\ new.goal = th.goal
        BY <1>3, Shaped, Fields
    <2>3. QED
        BY <1>0, <2>1, <2>2 DEF Goes, Faster, Fast, Transferring
<1>4. \A side \in Sides : Len(pending[side]) \in Nat
    BY Lengths
<1>5. CASE AdmitStopped(t)
    <2>1. Moved
        <3> DEFINE mid == [th EXCEPT !.ok = FALSE]
        <3>1. DOMAIN mid = ThreadFields /\ mid.goal = th.goal /\ mid.call = th.call
            BY Shaped, Fields
        <3>2. thread' = [thread EXCEPT ![t] = Scan(mid, pending)]
            BY <1>5, Shaped DEF AdmitStopped
        <3>3. QED
            BY <1>1, <3>1, <3>2
    <2>2. QED
        BY <1>5, <2>1 DEF Single, AdmitStopped, queueVars, waiters
<1>6. CASE AdmitRefused(t) \/ Settle(t)
    <2>1. Moved
        <3> DEFINE mid == [th EXCEPT !.done = Append(th.done, Call(t))]
        <3>1. DOMAIN mid = ThreadFields /\ mid.goal = th.goal /\ mid.call = th.call
            BY Shaped, Fields
        <3>2. thread' = [thread EXCEPT ![t] = Scan(mid, pending)]
            BY <1>6, Shaped DEF AdmitRefused, Settle, Settled
        <3>3. QED
            BY <1>1, <3>1, <3>2
    <2>2. ASSUME NEW side \in Sides, waiting[side] = 0 PROVE waiting'[side] = 0
        <3>1. CASE AdmitRefused(t)
            BY <2>2, <3>1 DEF AdmitRefused, queueVars, waiters
        <3>2. CASE Settle(t)
            <4>1. Holding(th) /\ Reserving(th)
                BY <3>2 DEF Settle, Holding, Reserving, Locked
            <4>2. waiting[side] = Len(pending[side]) + IF SideOf(Call(t)) = side THEN 1 ELSE 0
                BY <4>1, CountOf
            <4>3. SideOf(Call(t)) # side
                <5>1. ASSUME SideOf(Call(t)) = side PROVE FALSE
                    <6>1. waiting[side] = Len(pending[side]) + 1
                        BY <4>2, <5>1
                    <6>2. QED
                        BY <1>4, <2>2, <6>1
                <5>2. QED
                    BY <5>1
            <4>4. QED
                BY <2>2, <3>2, <4>3 DEF Settle, BaseInv, Types
        <3>3. QED
            BY <1>6, <3>1, <3>2
    <2>3. QED
        BY <2>1, <2>2 DEF Single
<1>7. CASE Park(t)
    <2>1. Moved
        BY <1>1, <1>7, Shaped DEF Park
    <2>2. QED
        BY <1>7, <2>1 DEF Single, Park
<1>8. CASE \E side \in {"push", "pop"} : Front(t, side)
    <2>1. PICK side \in {"push", "pop"} : Front(t, side)
        BY <1>8
    <2> DEFINE x == Head(pending[side])
    <2>2. CASE Transfer(t, x, "front")
        BY <1>0, <2>2, Shaped, Fields, <1>8
           DEF Single, Transfer, OnlyThread, Goes, Faster, Fast, Front, queueVars, waiters
    <2>3. CASE thread' = [thread EXCEPT ![t].pc = "drop", ![t].job = x]
        <3>1. thread' = [thread EXCEPT ![t] = [th EXCEPT !.pc = "drop", !.job = x]]
            BY <2>3, Shaped
        <3>2. QED
            BY <1>3, <2>1, <3>1 DEF Single, Front, queueVars, waiters
    <2>4. QED
        BY <2>1, <2>2, <2>3 DEF Front
<1>9. CASE Drop(t)
    <2> DEFINE x == th.job
               mid == [th EXCEPT !.progress = TRUE, !.done = Append(th.done, x)]
    <2>1. Moved
        <3>1. DOMAIN mid = ThreadFields /\ mid.goal = th.goal /\ mid.call = th.call
            BY Shaped, Fields
        <3>2. OnlyThread(t) /\ new = AfterFront(mid, SideOf(x), pending')
            BY <1>9, Shaped DEF Drop, OnlyThread
        <3> HIDE DEF mid
        <3>3. QED
            BY <1>0, <3>1, <3>2, AfterFrontOnward, OnwardGoes DEF Faster, Fast
    <2>2. ASSUME NEW side \in Sides, waiting[side] = 0 PROVE waiting'[side] = 0
        <3>1. Holding(th) /\ ~Reserving(th) /\ Fronting(th)
            BY <1>9 DEF Drop, Holding, Reserving, Fronting, Locked, Served, Transferring
        <3>2. waiting[side] = Len(pending[side]) + 0
            BY <3>1, CountOf
        <3>3. pending[side] = << >>
            BY <1>4, <2>2, <3>2, PendingTypes, EmptySeq
        <3>4. SideOf(x) # side
            BY <3>1, <3>3 DEF BaseInv, Heads
        <3>5. QED
            BY <1>9, <2>2, <3>4 DEF Drop, BaseInv, Types
    <2>3. QED
        BY <2>1, <2>2 DEF Single
<1>10. CASE Sweep(t)
    BY <1>2, <1>10 DEF Single, Sweep, queueVars, waiters
<1>11. ASSUME NEW sides, NEW result, DrainAll(t, sides, result), Holding(th), ~Reserving(th)
       PROVE Single(t)
    <2> DEFINE drained(side) == IF side \in sides THEN pending[side] ELSE << >>
               listed == th.done \o (drained("push") \o drained("pop"))
    <2>1. Moved
        <3>1. CASE "pop" \in sides
            <4>1. thread' = [thread EXCEPT ![t] = [th EXCEPT !.done = listed, !.pc = "unlock"]]
                BY <1>11, <3>1, Shaped DEF DrainAll
            <4> HIDE DEF listed
            <4>2. QED
                BY <1>0, <4>1, Shaped, Fields DEF OnlyThread, Goes, Faster, Fast, Transferring
        <3>2. CASE "pop" \notin sides
            <4> DEFINE mid == [th EXCEPT !.done = listed]
            <4>1. thread' = [thread EXCEPT ![t] = Scan(mid, pending')]
                BY <1>11, <3>2, Shaped DEF DrainAll
            <4>2. DOMAIN mid = ThreadFields /\ mid.goal = th.goal /\ mid.call = th.call
                BY Shaped, Fields
            <4> HIDE DEF mid, listed
            <4>3. OnlyThread(t) /\ new = Scan(mid, pending')
                BY <4>1, Shaped DEF OnlyThread
            <4>4. QED
                BY <1>0, <4>2, <4>3, ScanOnward, OnwardGoes DEF Faster, Fast
        <3>3. QED
            BY <3>1, <3>2
    <2>2. ASSUME NEW side \in Sides, waiting[side] = 0 PROVE waiting'[side] = 0
        <3>1. waiting[side] = Len(pending[side]) + 0
            BY <1>11, CountOf
        <3>2. Len(drained(side)) = 0
            BY <1>4, <2>2, <3>1, EmptySeq
        <3>3. waiting'[side] = waiting[side] - Len(drained(side))
            BY <1>11 DEF DrainAll, Sides
        <3> HIDE DEF drained
        <3>4. QED
            BY <2>2, <3>2, <3>3
    <2>3. QED
        BY <2>1, <2>2 DEF Single
<1>12. CASE StopConsumers(t) \/ FailPending(t)
    <2>1. Holding(th) /\ ~Reserving(th)
        BY <1>12 DEF StopConsumers, FailPending, Holding, Reserving, Locked, Served, Transferring
    <2>2. QED
        BY <1>11, <1>12, <2>1 DEF StopConsumers, FailPending
<1>13. CASE SetLifecycle(t)
    BY <1>2, <1>13 DEF Single, SetLifecycle, waiters
<1>14. CASE CancelOperation(t)
    <2> DEFINE x == Call(t)
    <2>1. Moved
        <3>1. CASE Cancellable(x)
            <4>1. thread' = [thread EXCEPT ![t] = [th EXCEPT !.pc = "unlock", !.done = <<x>>]]
                BY <1>14, <3>1, Shaped DEF CancelOperation
            <4>2. QED
                BY <1>3, <4>1
        <3>2. CASE ~Cancellable(x)
            BY <1>2, <1>14, <3>2 DEF CancelOperation
        <3>3. QED
            BY <3>1, <3>2
    <2>2. ASSUME NEW side \in Sides, waiting[side] = 0 PROVE waiting'[side] = 0
        <3>1. CASE ~Cancellable(x)
            BY <1>14, <2>2, <3>1 DEF CancelOperation, waiters
        <3>2. CASE Cancellable(x)
            <4>1. Holding(th) /\ ~Reserving(th) /\ x \in Operations
                BY <1>14, Shaped, Names DEF CancelOperation, Holding, Reserving, Locked, Transferring,
                   Shape, Call
            <4>2. ListedIn(pending[SideOf(x)], x)
                BY <3>2, <4>1 DEF Cancellable, BaseInv, PendingPhase
            <4>3. waiting[side] = Len(pending[side]) + 0
                BY <4>1, CountOf
            <4>4. Len(pending[side]) = 0
                BY <1>4, <2>2, <4>3
            <4>5. SideOf(x) # side
                BY <4>2, <4>4 DEF ListedIn
            <4>6. QED
                BY <1>14, <2>2, <3>2, <4>5 DEF CancelOperation, BaseInv, Types
        <3>3. QED
            BY <3>1, <3>2
    <2>3. QED
        BY <2>1, <2>2 DEF Single
<1>15. CASE MarkStopRequested(t)
    BY <1>2, <1>15 DEF Single, MarkStopRequested, queueVars, waiters
<1>16. CASE Unlock(t)
    <2>1. OnlyThread(t) /\ new = Return(t, th) /\ waiting' = waiting
        BY <1>16, Shaped DEF Unlock, OnlyThread, waiters
    <2>2. QED
        BY <1>0, <2>1, Shaped, ReturnGoes, SingleQuiet
<1>17. QED
    BY <1>5, <1>6, <1>7, <1>8, <1>9, <1>10, <1>12, <1>13, <1>14, <1>15, <1>16 DEF LockedStep

LEMMA AdmitReservedSingle ==
    ASSUME BaseInv, SingleUser, topology' = topology, NEW t \in Threads, AdmitReserved(t)
    PROVE  SingleUser'
<1> DEFINE x == Call(t)
           th == thread[t]
           new == thread'[t]
<1>1. /\ th.pc = "admit" /\ OwnStart(t, th) /\ x \in Operations
    BY Shaped DEF AdmitReserved, Shape, OwnStart, At, Call
<1>2. /\ OnlyThread(t) /\ new.call = th.call /\ new.goal = th.goal /\ new.pc # "idle"
      /\ ~Transferring(new) \/ new.from = "reserved"
      /\ waiting' = [waiting EXCEPT ![SideOf(x)] = @ + 1]
    BY <1>1, Shaped, Fields DEF AdmitReserved, OnlyThread, Goto, Transfer, Transferring, SideOf
<1>3. ASSUME NEW u \in Threads, NEW side, Using(u, side)' PROVE Using(u, side)
    BY <1>1, <1>2, <1>3 DEF Using, OnlyThread, At, Call
<1>4. \A side : Multiple(side)' <=> Multiple(side)
    BY DEF Multiple, MultipleProducers, MultipleConsumers
<1>5. Using(t, SideOf(x)) /\ SideOf(x) \in Sides
    BY <1>1, PendingTypes DEF Using, OwnStart, At, Call
<1>6. ASSUME NEW side \in Sides, ~Multiple(side), NEW u \in Threads, Fast(thread'[u], side)
      PROVE  waiting'[side] = 0
    <2>1. u # t
        BY <1>2, <1>6 DEF Fast
    <2>2. Fast(thread[u], side)
        BY <1>2, <1>6, <2>1 DEF OnlyThread
    <2>3. Using(u, side)
        <3>1. CASE thread[u].from = "fast"
            <4>1. thread[u].job = thread[u].call /\ (OwnStart(u, thread[u]) \/ OwnTry(u, thread[u]))
                BY <2>2, <3>1, Shaped DEF Fast, Jobs
            <4>2. QED
                BY <2>2, <4>1 DEF Fast, Using, Transferring, OwnStart, OwnTry, At, Call, SideOf,
                   IsPush, Users
        <3>2. CASE thread[u].from = "poll"
            <4>1. thread[u].job = None /\ thread[u].call = None /\ OwnPoll(u, thread[u])
                BY <2>2, <3>2, Shaped DEF Fast, Jobs, OwnPoll
            <4>2. SideOf(None) = "pop"
                BY NamesAssumption DEF SideOf, IsPush, Calls, Operations
            <4>3. QED
                BY <2>2, <4>1, <4>2 DEF Fast, Using, Transferring, OwnPoll, At, Call, Users
        <3>3. QED
            BY <2>2, <3>1, <3>2 DEF Fast
    <2>4. SideOf(x) # side
        BY <1>5, <1>6, <2>1, <2>3 DEF SingleUser
    <2>5. waiting[side] = 0
        BY <1>6, <2>2 DEF SingleUser
    <2>6. QED
        BY <1>2, <2>4, <2>5 DEF BaseInv, Types
<1>7. QED
    BY <1>3, <1>4, <1>6 DEF SingleUser

(* A thread enters the single side only while nobody else is on it. *)
LEMMA EnterSingle ==
    ASSUME BaseInv, SingleUser, UNCHANGED <<topology, waiting>>, NEW t \in Threads, OnlyThread(t),
           At(t, "idle"), ~Transferring(thread'[t]),
           \/ thread'[t].goal \in {"close", "abort"}
           \/ \E push \in BOOLEAN :
                /\ Admitted(t, push) /\ SideOf(thread'[t].call) = IF push THEN "push" ELSE "pop"
    PROVE  SingleUser'
<1>1. \A side : Multiple(side)' <=> Multiple(side)
    BY DEF Multiple, MultipleProducers, MultipleConsumers
<1>2. ASSUME NEW u \in Threads, NEW side, u # t, Using(u, side)' PROVE Using(u, side)
    BY <1>2 DEF Using, OnlyThread, At, Call
<1>3. ASSUME NEW side \in Sides, ~Multiple(side), Using(t, side)', NEW u \in Threads, u # t
      PROVE  ~Using(u, side)
    <2>1. PICK push \in BOOLEAN :
            Admitted(t, push) /\ SideOf(thread'[t].call) = IF push THEN "push" ELSE "pop"
        BY <1>3 DEF Using, At
    <2>2. side = IF push THEN "push" ELSE "pop"
        BY <1>3, <2>1 DEF Using, Call
    <2>3. \A v \in Users(side) \ {t} : At(v, "idle")
        BY <1>3, <2>1, <2>2 DEF Admitted, Multiple, Users
    <2>4. QED
        BY <1>3, <2>3 DEF Using
<1>4. ASSUME NEW side \in Sides, ~Multiple(side), NEW u \in Threads, Fast(thread'[u], side)
      PROVE  waiting'[side] = 0
    <2>1. u # t
        BY <1>4 DEF Fast
    <2>2. QED
        BY <1>4, <2>1 DEF SingleUser, OnlyThread
<1>5. QED
    BY <1>1, <1>2, <1>3, <1>4 DEF SingleUser

LEMMA BeginSingle ==
    ASSUME BaseInv, SingleUser,
           \/ \E t \in Producers \cup Consumers : Begin(t)
           \/ \E k \in Controllers : Close(k) \/ Abort(k)
           \/ \E x \in Stoppable : RequestStop(x)
    PROVE  SingleUser'
<1> USE DEF queueVars, waiters
<1>1. ASSUME NEW p \in Producers, NEW v \in TryValues, TryPush(p, v) PROVE SingleUser'
    <2>1. /\ OnlyThread(p) /\ thread'[p].pc = "enter" /\ thread'[p].call = v /\ p \in Threads
        BY <1>1, Shaped, Names, Fields DEF TryPush, OnlyThread, NewThread
    <2>2. SideOf(v) = "push"
        BY DEF SideOf, IsPush
    <2>3. QED
        BY <1>1, <2>1, <2>2, EnterSingle DEF TryPush, Transferring
<1>2. ASSUME NEW c \in Consumers, TryPop(c) PROVE SingleUser'
    <2>1. /\ OnlyThread(c) /\ thread'[c].pc = "poll" /\ thread'[c].call = None /\ c \in Threads
        BY <1>2, Shaped, Names, Fields DEF TryPop, OnlyThread, NewThread
    <2>2. SideOf(None) = "pop"
        BY NamesAssumption DEF SideOf, IsPush, Calls, Operations
    <2>3. QED
        BY <1>2, <2>1, <2>2, EnterSingle DEF TryPop, Transferring
<1>3. ASSUME NEW t \in Producers \cup Consumers, NEW o \in Operations, Start(t, o) PROVE SingleUser'
    <2>1. /\ OnlyThread(t) /\ thread'[t].pc \in {"token", "admit.fast"} /\ thread'[t].call = o
          /\ t \in Threads
        BY <1>3, Shaped, Names, Fields DEF Start, OnlyThread, NewThread
    <2>2. SideOf(o) = IF IsPush(o) THEN "push" ELSE "pop"
        BY DEF SideOf
    <2>3. IsPush(o) \in BOOLEAN
        BY DEF IsPush
    <2>4. QED
        BY <1>3, <2>1, <2>2, <2>3, EnterSingle DEF Start, Transferring
<1>4. ASSUME NEW k \in Controllers, NEW goal \in {"close", "abort"}, EndQueue(k, goal)
      PROVE  SingleUser'
    <2>1. /\ OnlyThread(k) /\ thread'[k].pc = "lock" /\ thread'[k].goal = goal /\ k \in Threads
        BY <1>4, Shaped, Names, Fields DEF EndQueue, OnlyThread, NewThread
    <2>2. QED
        BY <1>4, <2>1, EnterSingle DEF EndQueue, Transferring
<1>5. ASSUME NEW x \in Stoppable, RequestStop(x) PROVE SingleUser'
    <2>1. x \in Threads /\ x \notin Producers /\ x \notin Consumers
        BY Names
    <2>2. CASE thread' = thread
        BY <1>5, <2>2 DEF RequestStop, SingleUser, Using, Multiple, MultipleProducers,
           MultipleConsumers, At, Call
    <2>3. CASE thread' = [thread EXCEPT ![x] =
              [NewThread EXCEPT !.pc = "lock", !.goal = "cancel", !.call = x]]
        <3>1. OnlyThread(x) /\ thread'[x].pc = "lock"
            BY <2>1, <2>3, Shaped, Fields DEF OnlyThread, NewThread
        <3>2. \A side : Multiple(side)' <=> Multiple(side)
            BY <1>5 DEF RequestStop, Multiple, MultipleProducers, MultipleConsumers
        <3>3. \A u \in Threads : \A side : Using(u, side)' => u # x /\ Using(u, side)
            BY <2>1, <3>1 DEF Using, Users, OnlyThread, At, Call
        <3>4. \A u \in Threads : \A side : Fast(thread'[u], side) => Fast(thread[u], side)
            BY <3>1 DEF Fast, Transferring, OnlyThread
        <3>5. waiting' = waiting
            BY <1>5 DEF RequestStop
        <3>6. QED
            BY <3>2, <3>3, <3>4, <3>5 DEF SingleUser
    <2>4. QED
        BY <1>5, <2>2, <2>3 DEF RequestStop
<1>6. QED
    BY <1>1, <1>2, <1>3, <1>4, <1>5 DEF Begin, Close, Abort

LEMMA NextSingle == ASSUME BaseInv, SingleUser, [Next]_vars PROVE SingleUser'
<1> USE DEF queueVars, waiters
<1>1. CASE UNCHANGED vars
    BY <1>1 DEF vars, SingleUser, Using, Multiple, MultipleProducers, MultipleConsumers, At, Call
<1>2. ASSUME NEW t \in Threads, CallStep(t) PROVE SingleUser'
    <2>1. topology' = topology
        BY <1>2 DEF CallStep, TryPopWaiting, TryPopAfter, CheckToken, RegisterCallback, StartPhase,
           StartLifecycle, EnterProducer, EnterOpen, FastPath, LeaveProducer, LastProducerLeft, Wake,
           StartRefused
    <2>2. QED
        BY <1>2, <2>1, CallStepSingle, SingleKept
<1>3. ASSUME NEW t \in Threads, TransferStep(t) PROVE SingleUser'
    BY <1>3, TransferMoves, TransferStepSingle, SingleKept
<1>4. ASSUME NEW t \in Threads, LockedStep(t) PROVE SingleUser'
    <2>1. topology' = topology
        BY <1>4 DEF LockedStep, AdmitStopped, AdmitRefused, AdmitReserved, Settle, Park, Front, Drop,
           Sweep, StopConsumers, SetLifecycle, FailPending, CancelOperation, MarkStopRequested,
           Unlock, DrainAll
    <2>2. QED
        BY <1>4, <2>1, LockedStepSingle, AdmitReservedSingle, SingleKept
<1>5. ASSUME NEW t \in Threads, Lock(t) PROVE SingleUser'
    <2> DEFINE th == thread[t]
               new == thread'[t]
    <2>1. /\ OnlyThread(t) /\ waiting' = waiting /\ topology' = topology /\ th.pc = "lock"
          /\ new = IF th.goal = "service" THEN Scan(th, pending)
                   ELSE [th EXCEPT !.pc = Entrance[th.goal]]
        BY <1>5, Shaped DEF Lock, OnlyThread, At
    <2>2. CASE th.goal = "service"
        BY <2>1, <2>2, Shaped, ScanOnward, OnwardGoes, SingleQuiet, SingleKept
    <2>3. CASE th.goal # "service"
        <3>1. th.goal \in {"start", "close", "abort", "cancel"}
            BY <2>1, <2>3, Shaped DEF Shape
        <3>2. new.pc = Entrance[th.goal] /\ new.goal = th.goal /\ new.call = th.call
            BY <2>1, <2>3, Shaped, Fields
        <3>3. Entrance[th.goal] \in {"admit", "close", "abort", "cancel"}
            BY <3>1 DEF Entrance
        <3>4. Goes(th, new) /\ ~Transferring(new)
            BY <2>1, <3>2, <3>3 DEF Goes, Transferring
        <3>5. QED
            BY <2>1, <3>4, SingleQuiet, SingleKept
    <2>4. QED
        BY <2>2, <2>3
<1>6. ASSUME NEW t \in Threads, Complete(t) PROVE SingleUser'
    <2> DEFINE th == thread[t]
               mid == [th EXCEPT !.done = Tail(th.done)]
    <2>1. /\ OnlyThread(t) /\ waiting' = waiting /\ topology' = topology /\ th.pc = "complete"
          /\ thread'[t] = Return(t, mid)
        BY <1>6, Shaped DEF Complete, OnlyThread, At
    <2>2. DOMAIN mid = ThreadFields /\ mid.call = th.call /\ mid.goal = th.goal
        BY Shaped, Fields
    <2> HIDE DEF mid
    <2>3. QED
        BY <2>1, <2>2, ReturnGoes, SingleQuiet, SingleKept
<1>7. ASSUME NEW t \in Threads, Flush(t) PROVE SingleUser'
    BY <1>7 DEF Flush, SingleUser, Using, Multiple, MultipleProducers, MultipleConsumers, At, Call
<1>8. QED
    BY <1>1, <1>2, <1>3, <1>4, <1>5, <1>6, <1>7, BeginSingle DEF Next

LEMMA InitSingle == Init => SingleUser
<1>1. ASSUME Init, NEW t \in Threads PROVE thread[t].pc = "idle"
    BY <1>1 DEF Init, NewThread
<1>2. QED
    BY <1>1 DEF SingleUser, Using, Fast, Transferring, At

LEMMA SingleInvariant == Spec => []SingleUser
<1>1. QED
    BY InitSingle, InitBase, NextBase, NextSingle, BaseInvariant, PTL DEF Spec

LEMMA AtMostOne ==
    ASSUME NEW S, \A x, y \in S : x = y PROVE IsFiniteSet(S) /\ Cardinality(S) <= 1
<1>1. CASE S = {}
    BY <1>1, FS_EmptySet
<1>2. CASE S # {}
    <2>1. PICK x \in S : TRUE
        BY <1>2
    <2>2. S = {x}
        BY <2>1
    <2>3. IsFiniteSet(S) /\ Cardinality(S) = 1
        BY <2>2, FS_Singleton
    <2>4. QED
        BY <2>3
<1>3. QED
    BY <1>1, <1>2

LEMMA TransferringAlone ==
    ASSUME BaseInv, SingleUser, NEW side \in Sides, ~Multiple(side),
           NEW t \in Threads, Transferring(thread[t]), SideOf(thread[t].job) = side,
           NEW u \in Threads, Transferring(thread[u]), SideOf(thread[u].job) = side
    PROVE  t = u
<1>1. ASSUME NEW v \in Threads, Transferring(thread[v]), SideOf(thread[v].job) = side
      PROVE  \/ Holding(thread[v]) /\ waiting[side] # 0
             \/ Fast(thread[v], side) /\ Using(v, side)
    <2>1. CASE thread[v].from = "fast"
        <3>1. thread[v].job = thread[v].call /\ (OwnStart(v, thread[v]) \/ OwnTry(v, thread[v]))
            BY <1>1, <2>1, Shaped DEF Jobs
        <3>2. Using(v, side)
            BY <1>1, <3>1 DEF Using, Transferring, OwnStart, OwnTry, At, Call, SideOf, IsPush, Users
        <3>3. QED
            BY <1>1, <2>1, <3>2 DEF Fast
    <2>2. CASE thread[v].from = "poll"
        <3>1. thread[v].job = None /\ thread[v].call = None /\ OwnPoll(v, thread[v])
            BY <1>1, <2>2, Shaped DEF Jobs, OwnPoll
        <3>2. SideOf(None) = "pop"
            BY NamesAssumption DEF SideOf, IsPush, Calls, Operations
        <3>3. Using(v, side)
            BY <1>1, <3>1, <3>2 DEF Using, Transferring, OwnPoll, At, Call, Users
        <3>4. QED
            BY <1>1, <2>2, <3>3 DEF Fast
    <2>3. CASE thread[v].from = "reserved"
        <3>1. Holding(thread[v]) /\ Reserving(thread[v]) /\ thread[v].job = thread[v].call
            BY <1>1, <2>3, Shaped DEF Jobs, Holding, Reserving
        <3>2. Reserved(side)
            BY <1>1, <3>1 DEF Reserved, Call
        <3>3. waiting[side] = Len(pending[side]) + 1
            BY <3>2 DEF BaseInv, Counted
        <3>4. QED
            BY <3>1, <3>3, Lengths
    <2>4. CASE thread[v].from = "front"
        <3>1. Holding(thread[v]) /\ ~Reserving(thread[v]) /\ Fronting(thread[v])
            BY <1>1, <2>4 DEF Holding, Reserving, Fronting, Transferring
        <3>2. pending[side] # << >>
            BY <1>1, <3>1 DEF BaseInv, Heads
        <3>3. waiting[side] = Len(pending[side]) + 0
            BY <3>1, CountOf
        <3>4. QED
            BY <3>1, <3>2, <3>3, Lengths, PendingTypes, EmptySeq
    <2>5. QED
        BY <1>1, <2>1, <2>2, <2>3, <2>4, Shaped DEF Jobs
<1>2. CASE Holding(thread[t]) /\ Holding(thread[u])
    BY <1>2 DEF BaseInv, LockHeld
<1>3. CASE Fast(thread[t], side) /\ Using(t, side) /\ Fast(thread[u], side) /\ Using(u, side)
    BY <1>3 DEF SingleUser
<1>4. \A v \in Threads : Fast(thread[v], side) => waiting[side] = 0
    BY DEF SingleUser
<1>5. QED
    BY <1>1, <1>2, <1>3, <1>4

(* The single-producer and single-consumer sides of the storage have one   *)
(* user at a time, although a push may run on the caller's path without    *)
(* the lock and on the path of whoever serves the waiters: the former is   *)
(* entered only by the side's own thread while nobody of it waits.         *)
THEOREM OneThreadAtATime == Spec => []OneAtATime
<1>1. ASSUME BaseInv, SingleUser PROVE OneAtATime
    <2>1. ASSUME ~MultipleProducers
          PROVE  Cardinality({t \in Threads : thread[t].pc \in {"push", "publish"}}) <= 1
        <3>1. ASSUME NEW t \in Threads, thread[t].pc \in {"push", "publish"}
              PROVE  Transferring(thread[t]) /\ SideOf(thread[t].job) = "push"
            BY <1>1, <3>1, Shaped DEF Transferring, Jobs, SideOf
        <3>2. \A t, u \in {v \in Threads : thread[v].pc \in {"push", "publish"}} : t = u
            BY <1>1, <2>1, <3>1, TransferringAlone DEF Multiple, Sides
        <3>3. QED
            BY <3>2, AtMostOne
    <2>2. ASSUME ~MultipleConsumers
          PROVE  Cardinality({t \in Threads :
                        thread[t].pc \in {"pop", "pop.free", "pop.advance"}}) <= 1
        <3>1. ASSUME NEW t \in Threads, thread[t].pc \in {"pop", "pop.free", "pop.advance"}
              PROVE  Transferring(thread[t]) /\ SideOf(thread[t].job) = "pop"
            <4>1. thread[t].job \in PopOps \cup {None}
                BY <1>1, <3>1, Shaped DEF Transferring, Jobs
            <4>2. QED
                BY <3>1, <4>1, NamesAssumption DEF Transferring, SideOf, IsPush, Calls, Operations
        <3>2. \A t, u \in {v \in Threads : thread[v].pc \in {"pop", "pop.free", "pop.advance"}} :
                t = u
            BY <1>1, <2>2, <3>1, TransferringAlone DEF Multiple, Sides
        <3>3. QED
            BY <3>2, AtMostOne
    <2>3. QED
        BY <2>1, <2>2 DEF OneAtATime
<1>2. BaseInv /\ SingleUser => OneAtATime
    BY <1>1
<1>3. QED
    BY <1>2, BaseInvariant, SingleInvariant, PTL

-----------------------------------------------------------------------------
(***************************************************************************)
(* What operations say of their transfers, and what the ring holds of them.*)
(***************************************************************************)
Stores == [variable : {"lifecycle"}, value : {"Closing", "Aborted"}]
            \cup [variable : {"free"}, value : Nat]

DataTypes ==
    /\ topology \in Topologies /\ lifecycle \in {"Open", "Closing", "Aborted"}
    /\ DOMAIN buffer = Threads /\ \A t \in Threads : buffer[t] \in Seq(Stores)
    /\ \A o \in Operations :
         /\ op[o].phase \in Phases /\ op[o].result \in Results
         /\ op[o].moved \in Seq(Elements)
         /\ op[o].budget \in Nat /\ op[o].stop \in BOOLEAN /\ op[o].registered \in BOOLEAN
    /\ \A t \in Threads : thread[t].position \in Nat
    /\ DOMAIN calls = Producers \cup Consumers
    /\ \A t \in Producers \cup Consumers : calls[t] \in Seq(Calls \cup Elements)

(* The transfer of the thread's own operation is still to come. *)
Undecided(t, th) ==
    /\ th.call \in Operations
    /\ \/ /\ th.goal = "start"
          /\ \/ ~th.ok
             \/ th.pc \in Starting \cup {"enter", "waiting", "lock", "admit", "park", "refused"}
       \/ th.goal = "cancel" /\ t \notin Stoppable

Done == {"Enqueued", "Popped"}

NotBefore ==
    /\ \A t \in Threads : Undecided(t, thread[t]) => op[Call(t)].result \notin Done
    /\ \A o \in Operations :
         /\ op[o].phase = "Constructed" => op[o].result \notin Done
         /\ op[o].phase = "Pending" =>
              \/ op[o].result \notin Done
              \/ \E t \in Threads : Fronting(thread[t]) /\ thread[t].job = o

(* The values of a push stand together in the ring, in their order. *)
Stands(x, b, n) ==
    /\ b + n <= Len(log)
    /\ \A i \in 1 .. Len(log) : log[i][1] = x <=> b < i /\ i <= b + n
    /\ \A k \in 1 .. n : log[b + k] = <<x, k>>

Pushes == PushOps \cup TryValues
Together == \A x \in Pushes : \E b \in Nat, n \in Nat : Stands(x, b, n)

Placing(th) == th.pc \in {"push", "publish"}

(* A batch is in the middle: nobody else pushes, and the rest has room. *)
Midway(x) ==
    /\ topology = "Spsc" /\ ~Oversized(x) /\ Pushed(x) < SizeOf(x) /\ RoomFor(x)
    /\ log[Len(log)][1] = x

Placed ==
    /\ \A t \in Threads :
         LET th == thread[t] IN
         /\ Placing(th) /\ th.job \in PushOps => op[th.job].result # "Enqueued"
         /\ th.pc = "push" => Pushed(th.job) = 0 \/ Midway(th.job)
         /\ th.pc = "publish" => Pushed(th.job) = 1 /\ SizeOf(th.job) = 1
    /\ \A x \in PushOps :
         IF op[x].result = "Enqueued" THEN Pushed(x) = Size[x]
         ELSE Pushed(x) # 0 => \E t \in Threads : Placing(thread[t]) /\ thread[t].job = x
    /\ \A x \in PopOps : op[x].result = "Popped" <=> op[x].moved # << >>
    /\ \A x \in PushOps : op[x].result # "Popped"
    /\ \A x \in PopOps : op[x].result # "Enqueued"

TriedOnce ==
    \A t \in Threads : Call(t) \in TryValues =>
        /\ \A u \in Threads : Call(u) = Call(t) => u = t
        /\ thread[t].pc \in {"enter", "waiting"} => Pushed(Call(t)) = 0

(* An operation that may not suspend gets under the lock only to be refused. *)
NotOpen(t) == Lifecycle(t) # "Open"
Refusing(t, th) ==
    /\ th.goal = "start" /\ th.call \in PushOps /\ ~MaySuspend(th.call)
    /\ \/ th.pc \in {"lock", "admit"}
       \/ th.pc \in {"leave", "left"} /\ ~th.ok
NeverParked ==
    /\ \A t \in Threads :
         LET th == thread[t] IN
         /\ Refusing(t, th) => NotOpen(t) \/ op[th.call].result = "TooLarge"
         /\ Reserving(th) => MaySuspend(th.call)
    /\ \A x \in PushOps : op[x].phase = "Pending" => MaySuspend(x)

(* The producers inside. *)
Entered(th) ==
    \/ th.pc \in {"enter", "leave"}
    \/ th.pc = "waiting" /\ IsPush(th.call)
    \/ Placing(th) /\ th.from = "fast"
Insiders == active = Cardinality({t \in Threads : Entered(thread[t])})

(* Stops, and the end of the stream. *)
StopsAsked ==
    /\ \A t \in Threads : thread[t].goal = "cancel" => op[Call(t)].stop
    /\ \A o \in Operations : op[o].phase = "StopRequested" => op[o].stop

EndSeen ==
    /\ taken = Claimed /\ lifecycle # "Open"
    /\ \A t \in Threads : LET th == thread[t] IN
         ~Placing(th) /\ ~(th.pc = "waiting" /\ IsPush(th.call))
Final ==
    /\ \A t \in Threads : buffer[t] = << >>
    /\ \A o \in PopOps : op[o].result = "Stopped" /\ ~op[o].stop => EndSeen
    /\ \A t \in Threads : At(t, "sweep.all") => EndSeen
FinalInv == StoreBuffers \/ Final

-----------------------------------------------------------------------------
(* A step that transfers nothing: what it does to the operations, ...      *)
OpSteady(t, o) ==
    /\ DOMAIN op'[o] = OpFields /\ op'[o].moved = op[o].moved
    /\ op'[o].budget \in Nat /\ op'[o].registered \in BOOLEAN
    /\ op'[o].stop \in BOOLEAN /\ (op[o].stop => op'[o].stop)
    /\ \/ op'[o].result = op[o].result
       \/ /\ op[o].result \notin Done /\ op'[o].result \in Results \ Done
          /\ (o = Call(t) /\ Undecided(t, thread[t])) \/ op[o].phase = "Pending"
    /\ op'[o].phase \in Phases
    /\ op'[o].phase = "Constructed" => op[o].phase = "Constructed"
    /\ op'[o].phase = "Pending" =>
         \/ op[o].phase = "Pending"
         \/ op'[o].result \notin Done /\ (o \in PushOps => MaySuspend(o))
    /\ op'[o].phase = "StopRequested" => op[o].phase = "StopRequested" \/ op[o].stop

(* ... and to its own thread. *)
Fresh(x) == Pushed(x) = 0 /\ (x \in PushOps => op'[x].result # "Enqueued")

ThreadSteady(t, th, new) ==
    /\ new.position \in Nat /\ ~Transferring(th)
    /\ Undecided(t, new) =>
         (Undecided(t, th) /\ new.call = th.call) \/ op'[new.call].result \notin Done
    /\ Fronting(th) => op'[th.job].phase # "Pending"
    /\ Placing(new) => new.pc = "push" /\ Fresh(new.job)
    /\ new.call \in TryValues =>
         \/ /\ new.call = th.call
            /\ new.pc \in {"enter", "waiting"} => th.pc \in {"enter", "waiting"}
         \/ Pushed(new.call) = 0 /\ \A u \in Threads : Call(u) # new.call

(* A queue that was closed for a thread stays so.                          *)
StaysClosed == \A u \in Threads : NotOpen(u) => NotOpen(u)'

Steady(t) ==
    /\ OnlyThread(t) /\ ThreadSteady(t, thread[t], thread'[t])
    /\ DOMAIN op' = Operations /\ \A o \in Operations : OpSteady(t, o)
    /\ UNCHANGED <<topology, storageVars>>

SteadyTypes ==
    /\ lifecycle' \in {"Open", "Closing", "Aborted"}
    /\ StoreBuffers \/ buffer' = buffer
    /\ DOMAIN buffer' = Threads /\ \A t \in Threads : buffer'[t] \in Seq(Stores)
    /\ DOMAIN calls' = Producers \cup Consumers
    /\ \A t \in Producers \cup Consumers : calls'[t] \in Seq(Calls \cup Elements)

ValueInv ==
    /\ DataTypes /\ IInv /\ NotBefore /\ Together /\ Placed /\ TriedOnce

LEMMA SteadyNotBefore ==
    ASSUME NotBefore, NEW t \in Threads, Steady(t) PROVE NotBefore'
<1>1. ASSUME NEW u \in Threads, Undecided(u, thread'[u])
      PROVE  op'[thread'[u].call].result \notin Done
    <2>1. thread'[u].call \in Operations
        BY <1>1 DEF Undecided
    <2>2. CASE u # t
        BY <1>1, <2>1, <2>2 DEF Steady, OnlyThread, NotBefore, OpSteady, Call
    <2>3. CASE u = t
        BY <1>1, <2>1, <2>3 DEF Steady, ThreadSteady, NotBefore, OpSteady, Call
    <2>4. QED
        BY <2>2, <2>3
<1>2. ASSUME NEW o \in Operations, op'[o].phase = "Constructed" PROVE op'[o].result \notin Done
    BY <1>2 DEF Steady, OpSteady, NotBefore
<1>3. ASSUME NEW o \in Operations, op'[o].phase = "Pending", op'[o].result \in Done
      PROVE  \E u \in Threads : Fronting(thread'[u]) /\ thread'[u].job = o
    <2>1. op[o].phase = "Pending" /\ op[o].result \in Done
        BY <1>3 DEF Steady, OpSteady
    <2>2. PICK u \in Threads : Fronting(thread[u]) /\ thread[u].job = o
        BY <2>1 DEF NotBefore
    <2>3. u # t
        BY <1>3, <2>2 DEF Steady, ThreadSteady
    <2>4. QED
        BY <2>2, <2>3 DEF Steady, OnlyThread
<1>4. QED
    BY <1>1, <1>2, <1>3 DEF NotBefore, Call

LEMMA SamePushed ==
    ASSUME log' = log, topology' = topology, freed \subseteq freed'
    PROVE  \A x : Pushed(x)' = Pushed(x) /\ (Midway(x) => Midway(x)')
BY DEF Pushed, Midway, RoomFor, Claimed, Oversized

LEMMA SteadyPlaced ==
    ASSUME Placed, NEW t \in Threads, Steady(t) PROVE Placed'
<1>1. \A x : Pushed(x)' = Pushed(x) /\ (Midway(x) => Midway(x)')
    BY SamePushed DEF Steady, storageVars
<1>2. \A o \in Operations : \A r \in Done : op'[o].result = r <=> op[o].result = r
    BY DEF Steady, OpSteady
<1>3. PushOps \subseteq Operations /\ PopOps \subseteq Operations
    BY DEF Operations
<1>4. ASSUME NEW u \in Threads, NEW x, thread'[u].job = x
      PROVE  /\ Placing(thread'[u]) /\ x \in PushOps => op'[x].result # "Enqueued"
             /\ thread'[u].pc = "push" => Pushed(x)' = 0 \/ Midway(x)'
             /\ thread'[u].pc = "publish" => Pushed(x)' = 1 /\ SizeOf(x) = 1
    <2>1. CASE u # t
        <3>1. thread[u].job = x /\ thread'[u] = thread[u]
            BY <1>4, <2>1 DEF Steady, OnlyThread
        <3>2. QED
            BY <1>1, <1>2, <1>3, <3>1 DEF Placed, Done
    <2>2. CASE u = t
        BY <1>1, <1>4, <2>2 DEF Steady, ThreadSteady, Fresh, Placing
    <2>3. QED
        BY <2>1, <2>2
<1>5. ASSUME NEW x \in PushOps
      PROVE  IF op'[x].result = "Enqueued" THEN Pushed(x)' = Size[x]
             ELSE Pushed(x)' # 0 =>
                    \E u \in Threads : Placing(thread'[u]) /\ thread'[u].job = x
    <2>1. ASSUME NEW u \in Threads, Placing(thread[u]) PROVE u # t /\ thread'[u] = thread[u]
        BY <2>1 DEF Steady, OnlyThread, ThreadSteady, Placing, Transferring
    <2>2. QED
        BY <1>1, <1>2, <1>3, <2>1 DEF Placed, Done
<1>6. \A x \in PopOps : op'[x].result = "Popped" <=> op'[x].moved # << >>
    BY <1>2, <1>3 DEF Placed, Steady, OpSteady, Done
<1>7. /\ \A x \in PushOps : op'[x].result # "Popped"
      /\ \A x \in PopOps : op'[x].result # "Enqueued"
    BY <1>2, <1>3 DEF Placed, Done
<1>8. QED
    BY <1>4, <1>5, <1>6, <1>7 DEF Placed

LEMMA SteadyTried ==
    ASSUME TriedOnce, NEW t \in Threads, Steady(t) PROVE TriedOnce'
<1>1. \A x : Pushed(x)' = Pushed(x)
    BY SamePushed DEF Steady, storageVars
<1>2. ASSUME NEW u \in Threads, thread'[u].call \in TryValues
      PROVE  \/ /\ thread'[u].call = thread[u].call
                /\ thread'[u].pc \in {"enter", "waiting"} => thread[u].pc \in {"enter", "waiting"}
             \/ /\ u = t /\ Pushed(thread'[u].call) = 0
                /\ \A w \in Threads : thread[w].call # thread'[u].call
    BY <1>2 DEF Steady, OnlyThread, ThreadSteady, Call
<1>3. ASSUME NEW u \in Threads, thread'[u].call \in TryValues, NEW w \in Threads,
             thread'[w].call = thread'[u].call
      PROVE  w = u
    BY <1>2, <1>3 DEF TriedOnce, Call, Steady, OnlyThread
<1>4. ASSUME NEW u \in Threads, thread'[u].call \in TryValues,
             thread'[u].pc \in {"enter", "waiting"}
      PROVE  Pushed(thread'[u].call) = 0
    BY <1>2, <1>4 DEF TriedOnce, Call
<1>5. ASSUME NEW u \in Threads, NEW x \in TryValues, thread'[u].call = x
      PROVE  /\ \A w \in Threads : thread'[w].call = x => w = u
             /\ thread'[u].pc \in {"enter", "waiting"} => Pushed(x)' = 0
    BY <1>1, <1>3, <1>4, <1>5
<1>6. QED
    BY <1>5 DEF TriedOnce, Call

LEMMA SteadyValues ==
    ASSUME ValueInv, NEW t \in Threads, Steady(t), SteadyTypes PROVE ValueInv'
<1>1. IInv' /\ Together'
    <2>1. IInv'
        BY NextIInv DEF ValueInv, Steady
    <2>2. log' = log
        BY DEF Steady, storageVars
    <2>3. QED
        BY <2>1, <2>2, ZenonT(40) DEF ValueInv, Together, Stands
<1>2. DataTypes'
    <2>1. \A u \in Threads : thread'[u].position \in Nat
        BY DEF ValueInv, DataTypes, Steady, OnlyThread, ThreadSteady
    <2>2. \A o \in Operations :
            /\ op'[o].phase \in Phases /\ op'[o].result \in Results
            /\ op'[o].moved \in Seq(Elements)
            /\ op'[o].budget \in Nat /\ op'[o].stop \in BOOLEAN /\ op'[o].registered \in BOOLEAN
        BY DEF ValueInv, DataTypes, Steady, OpSteady
    <2>3. QED
        BY <2>1, <2>2 DEF ValueInv, DataTypes, Steady, SteadyTypes
<1>3. QED
    BY <1>1, <1>2, SteadyNotBefore, SteadyPlaced, SteadyTried DEF ValueInv
-----------------------------------------------------------------------------
(* What a step does at the gates of the queue: who is counted inside, who  *)
(* may still push, who was asked to stop.                                  *)
Opening(th) == Placing(th) \/ (th.pc = "waiting" /\ IsPush(th.call))

(* Where only a push comes on its way in and out. *)
Door(th) == th.pc \in {"enter.fast", "enter", "leave", "left"}
PushesPass == \A t \in Threads : Door(thread[t]) => IsPush(Call(t))

(* How the number of producers inside follows a thread. *)
Gauge(th, new) ==
    IF Entered(new) THEN active' = IF Entered(th) THEN active ELSE active + 1
                    ELSE active' = IF Entered(th) THEN active - 1 ELSE active

Gated(t) ==
    LET th == thread[t]
        new == thread'[t] IN
    /\ Gauge(th, new)
    /\ Refusing(t, new) =>
         \/ /\ Refusing(t, th) /\ new.call = th.call
            /\ op'[th.call].result = op[th.call].result
         \/ NotOpen(t) \/ op'[new.call].result = "TooLarge"
    /\ Reserving(new) => (Reserving(th) /\ new.call = th.call) \/ MaySuspend(new.call)
    /\ new.goal = "cancel" =>
         new.call \in Operations /\ ((th.goal = "cancel" /\ new.call = th.call) \/ op'[new.call].stop)
    /\ Door(new) => IsPush(new.call)
    /\ Opening(new) => Opening(th) \/ Lifecycle(t) = "Open"
    /\ new.pc = "sweep.all" => ClosedAndEmpty(t) /\ th.pc = "sweep"
    /\ \A o \in PopOps : op'[o].result = "Stopped" /\ ~op'[o].stop =>
         \/ op[o].result = "Stopped" /\ ~op[o].stop
         \/ th.pc = "sweep.all"
         \/ ClosedAndEmpty(t) /\ th.pc \in {"admit", "front.push", "front.pop"}

GateInv == PushesPass /\ NeverParked /\ Insiders /\ StopsAsked
QueueInv == BaseInv /\ SingleUser /\ ValueInv /\ GateInv

(* A step that goes on to another place with the same locals. *)
Onto(new, th, pc) ==
    /\ new.pc = pc /\ new.goal = th.goal /\ new.call = th.call /\ new.job = th.job
    /\ new.from = th.from /\ new.position = th.position /\ new.ok = th.ok

LEMMA GotoOnto ==
    ASSUME BaseInv, NEW t \in Threads, NEW pc, Goto(t, pc)
    PROVE  OnlyThread(t) /\ Onto(thread'[t], thread[t], pc)
BY Shaped, Fields DEF Goto, OnlyThread, Onto

LEMMA IdleThread ==
    /\ NewThread.pc = "idle" /\ NewThread.goal = None /\ NewThread.call = None
    /\ NewThread.position = 0 /\ NewThread.ok = FALSE
BY DEF NewThread

LEMMA SameOpSteady ==
    ASSUME QueueInv, NEW t, op' = op
    PROVE  DOMAIN op' = Operations /\ \A o \in Operations : OpSteady(t, o)
BY DEF OpSteady, QueueInv, BaseInv, Types, ValueInv, DataTypes

(* Back between calls. *)
LEMMA IdleSteady ==
    ASSUME QueueInv, NEW t \in Threads, OnlyThread(t), thread'[t] = NewThread,
           ~Transferring(thread[t]), ~Fronting(thread[t])
    PROVE  /\ ThreadSteady(t, thread[t], thread'[t])
           /\ LET new == thread'[t] IN
              /\ ~Entered(new) /\ ~Refusing(t, new) /\ ~Reserving(new) /\ new.goal # "cancel"
              /\ ~Opening(new) /\ new.pc # "sweep.all" /\ ~Door(new)
BY IdleThread, NamesAssumption DEF ThreadSteady, Undecided, Placing, Calls, Entered, Refusing, Starting,
   Reserving, Opening, Transferring, Door

(* The operation of a thread that has not started its transfer is in nobody's transfer. *)
LEMMA NotInTransfer ==
    ASSUME BaseInv, NEW t \in Threads, Carrying(t, thread[t]), ~Transferring(thread[t]),
           NEW u \in Threads, Transferring(thread[u])
    PROVE  thread[u].job # Call(t)
<1> SUFFICES ASSUME thread[u].job = Call(t) PROVE FALSE
    OBVIOUS
<1>1. Call(t) \in Operations /\ op[Call(t)].phase \in {"Starting", "StopRequested"}
    BY DEF BaseInv, CarriedPhase, Carrying, Call
<1>2. thread[u].from \in {"fast", "poll", "reserved", "front"}
    BY Shaped DEF Jobs
<1>3. CASE thread[u].from \in {"fast", "reserved"}
    <2>1. thread[u].job = thread[u].call /\ (thread[u].goal = "start" \/ thread[u].goal = "service")
        BY <1>3, Shaped DEF Jobs, OwnStart, OwnTry
    <2>2. thread[u].goal = "start"
        <3>1. ASSUME OwnTry(u, thread[u]) PROVE FALSE
            BY <1>1, <2>1, <3>1, NamesAssumption DEF OwnTry
        <3>2. QED
            BY <1>3, <3>1, Shaped DEF Jobs, OwnStart
    <2>3. Carrying(u, thread[u])
        BY <1>1, <1>3, <2>1, <2>2 DEF Carrying
    <2>4. QED
        BY <2>1, <2>3 DEF BaseInv, CarriedOnce, Call
<1>4. CASE thread[u].from = "poll"
    BY <1>1, <1>4, Shaped, NamesAssumption DEF Jobs, Calls
<1>5. CASE thread[u].from = "front"
    <2>1. Fronting(thread[u])
        BY <1>5 DEF Fronting
    <2>2. /\ pending[SideOf(Call(t))] # << >> /\ Head(pending[SideOf(Call(t))]) = Call(t)
        BY <2>1 DEF BaseInv, Heads
    <2>3. SideOf(Call(t)) \in Sides
        BY DEF SideOf, Sides
    <2>4. ListedIn(pending[SideOf(Call(t))], Call(t))
        BY <2>2, <2>3, PendingTypes
    <2>5. QED
        BY <1>1, <2>4 DEF BaseInv, PendingPhase
<1>6. QED
    BY <1>2, <1>3, <1>4, <1>5

LEMMA FreshCall ==
    ASSUME QueueInv, NEW t \in Threads, thread[t].pc \in {"waiting", "admit"}, IsPush(Call(t)),
           op'[Call(t)].result = op[Call(t)].result
    PROVE  Fresh(Call(t))
<1> DEFINE x == Call(t)
<1>1. CASE x \in TryValues
    <2>1. x \notin PushOps
        BY <1>1, NamesAssumption DEF Operations
    <2>2. thread[t].pc = "waiting"
        BY <1>1, Shaped, NamesAssumption DEF QueueInv, Shape, OwnStart, Call
    <2>3. QED
        BY <1>1, <2>1, <2>2 DEF QueueInv, ValueInv, TriedOnce, Fresh
<1>2. CASE x \in PushOps
    <2>1. x \in Operations
        BY <1>2 DEF Operations
    <2>2. thread[t].goal = "start"
        <3>1. OwnStart(t, thread[t]) \/ OwnTry(t, thread[t])
            BY Shaped DEF QueueInv, Shape, Inside
        <3>2. QED
            BY <2>1, <3>1, NamesAssumption DEF OwnStart, OwnTry, Call
    <2>3. Carrying(t, thread[t]) /\ Undecided(t, thread[t]) /\ ~Transferring(thread[t])
        BY <2>1, <2>2 DEF Carrying, Undecided, Transferring, Inside, Call
    <2>4. op[x].result \notin Done
        BY <2>3 DEF QueueInv, ValueInv, NotBefore
    <2>5. \A u \in Threads : ~(Placing(thread[u]) /\ thread[u].job = x)
        BY <2>3, NotInTransfer DEF QueueInv, Placing, Transferring
    <2>6. Pushed(x) = 0
        BY <1>2, <2>4, <2>5 DEF QueueInv, ValueInv, Placed, Done
    <2>7. QED
        BY <2>4, <2>6 DEF Fresh, Done
<1>3. QED
    BY <1>1, <1>2 DEF IsPush
LEMMA SameTypes ==
    ASSUME QueueInv, UNCHANGED <<lifecycle, buffer>>,
           \/ calls' = calls
           \/ \E t \in Producers \cup Consumers : \E e \in Calls \cup Elements :
                calls' = [calls EXCEPT ![t] = Append(@, e)]
    PROVE  SteadyTypes /\ StaysClosed
<1>1. StaysClosed
    BY DEF StaysClosed, NotOpen, Lifecycle
<1>2. ASSUME NEW t \in Producers \cup Consumers, NEW e \in Calls \cup Elements,
             calls' = [calls EXCEPT ![t] = Append(@, e)]
      PROVE  /\ DOMAIN calls' = Producers \cup Consumers
             /\ \A u \in Producers \cup Consumers : calls'[u] \in Seq(Calls \cup Elements)
    <2>1. Append(calls[t], e) \in Seq(Calls \cup Elements)
        BY <1>2, AppendProperties DEF QueueInv, ValueInv, DataTypes
    <2>2. QED
        BY <1>2, <2>1 DEF QueueInv, ValueInv, DataTypes
<1>3. QED
    BY <1>1, <1>2 DEF SteadyTypes, QueueInv, ValueInv, DataTypes

SteadyStep(t) == Steady(t) /\ Gated(t) /\ SteadyTypes /\ StaysClosed

(* What is known of a thread and of its operation. *)
LEMMA Known ==
    ASSUME QueueInv, NEW t \in Threads
    PROVE  /\ BaseInv /\ Shape(t, thread[t]) /\ Jobs(t, thread[t])
           /\ DOMAIN thread[t] = ThreadFields /\ DOMAIN thread = Threads
           /\ DOMAIN op = Operations /\ thread[t].position \in Nat
           /\ \A o \in Operations : DOMAIN op[o] = OpFields
BY Shaped DEF QueueInv, BaseInv, Types, ValueInv, DataTypes

(* A step of a thread whose operations stay as they are. *)
LEMMA SameOpStep ==
    ASSUME QueueInv, NEW t \in Threads, OnlyThread(t), op' = op,
           UNCHANGED <<topology, storageVars>>, SteadyTypes, StaysClosed,
           ThreadSteady(t, thread[t], thread'[t]), Gated(t)
    PROVE  SteadyStep(t)
BY SameOpSteady DEF SteadyStep, Steady

-----------------------------------------------------------------------------
(* The steps of a call outside of its transfer.                            *)
LEMMA TryPopWaitingSteady ==
    ASSUME QueueInv, NEW t \in Threads, TryPopWaiting(t) PROVE SteadyStep(t)
<1> DEFINE th == thread[t]
           new == thread'[t]
<1>1. /\ th.pc = "poll" /\ th.call = None /\ OnlyThread(t) /\ th.position \in Nat /\ th.goal = "service"
      /\ UNCHANGED <<topology, storageVars, lifecycle, active, op, buffer, calls>>
      /\ \/ new = NewThread
         \/ /\ new.pc = "pop" /\ new.call = None /\ new.goal = th.goal
            /\ new.position = th.position /\ new.from = "poll"
    BY Known, Fields DEF TryPopWaiting, OnlyThread, At, queueVars, Shape, OwnPoll
<1>2. ~Transferring(th) /\ ~Fronting(th) /\ ~Entered(th)
    BY <1>1 DEF Transferring, Fronting, Entered, Placing
<1>3. ThreadSteady(t, th, new) /\ Gated(t)
    <2>1. CASE new = NewThread
        BY <1>1, <1>2, <2>1, IdleSteady DEF Gated, Gauge
    <2>2. CASE /\ new.pc = "pop" /\ new.call = None /\ new.goal = th.goal
               /\ new.position = th.position /\ new.from = "poll"
        <3>1. ThreadSteady(t, th, new)
            BY <1>1, <1>2, <2>2, NamesAssumption DEF ThreadSteady, Undecided, Placing, Calls
        <3>2. /\ ~Entered(new) /\ ~Refusing(t, new) /\ new.goal # "cancel"
              /\ ~Opening(new) /\ new.pc # "sweep.all" /\ ~Reserving(new) /\ ~Door(new)
            BY <1>1, <2>2 DEF Entered, Placing, Refusing, Opening, Reserving, Door
        <3>3. QED
            BY <1>1, <1>2, <3>1, <3>2 DEF Gated, Gauge
    <2>3. QED
        BY <1>1, <2>1, <2>2
<1>4. QED
    BY <1>1, <1>3, SameOpStep, SameTypes

LEMMA TryPopAfterSteady ==
    ASSUME QueueInv, NEW t \in Threads, TryPopAfter(t) PROVE SteadyStep(t)
<1> DEFINE th == thread[t]
           new == thread'[t]
<1>1. /\ th.pc = "polled" /\ th.call = None /\ OnlyThread(t) /\ th.position \in Nat /\ th.goal = "service"
      /\ UNCHANGED <<topology, storageVars, lifecycle, active, op, buffer, calls>>
      /\ \/ new = NewThread
         \/ /\ new.pc = "lock" /\ new.call = None /\ new.goal = th.goal
            /\ new.position = th.position
    BY Known, Fields DEF TryPopAfter, OnlyThread, At, queueVars, Shape, OwnPoll
<1>2. ~Transferring(th) /\ ~Fronting(th) /\ ~Entered(th)
    BY <1>1 DEF Transferring, Fronting, Entered, Placing
<1>3. ThreadSteady(t, th, new) /\ Gated(t)
    <2>1. CASE new = NewThread
        BY <1>1, <1>2, <2>1, IdleSteady DEF Gated, Gauge
    <2>2. CASE /\ new.pc = "lock" /\ new.call = None /\ new.goal = th.goal
               /\ new.position = th.position
        <3>1. ThreadSteady(t, th, new)
            BY <1>1, <1>2, <2>2, NamesAssumption DEF ThreadSteady, Undecided, Placing, Calls
        <3>2. /\ ~Entered(new) /\ ~Refusing(t, new) /\ new.goal # "cancel"
              /\ ~Opening(new) /\ new.pc # "sweep.all" /\ ~Reserving(new) /\ ~Door(new)
            BY <1>1, <2>2 DEF Entered, Placing, Refusing, Opening, Reserving, Transferring, Door
        <3>3. QED
            BY <1>1, <1>2, <3>1, <3>2 DEF Gated, Gauge
    <2>3. QED
        BY <1>1, <2>1, <2>2
<1>4. QED
    BY <1>1, <1>3, SameOpStep, SameTypes

(* A thread that goes on somewhere in its call, outside of every gate. *)
Apart(new) ==
    /\ ~Transferring(new) /\ ~Reserving(new) /\ ~Entered(new) /\ ~Opening(new)
    /\ new.pc # "sweep.all"

LEMMA ApartSteady ==
    ASSUME QueueInv, NEW t \in Threads, OnlyThread(t), ~Transferring(thread[t]),
           Apart(thread'[t]), thread'[t].position \in Nat, Gauge(thread[t], thread'[t]),
           thread'[t].call = thread[t].call, Door(thread'[t]) => IsPush(Call(t)),
           Fronting(thread[t]) => op'[thread[t].job].phase # "Pending",
           Undecided(t, thread'[t]) => Undecided(t, thread[t]),
           Refusing(t, thread'[t]) =>
             \/ NotOpen(t)
             \/ Refusing(t, thread[t]) /\ op'[Call(t)].result = op[Call(t)].result,
           thread'[t].goal = "cancel" =>
             Call(t) \in Operations /\ (thread[t].goal = "cancel" \/ op'[Call(t)].stop),
           \A o \in PopOps : op'[o].result = "Stopped" /\ ~op'[o].stop =>
             \/ op[o].result = "Stopped" /\ ~op[o].stop
             \/ thread[t].pc = "sweep.all"
             \/ ClosedAndEmpty(t) /\ thread[t].pc \in {"admit", "front.push", "front.pop"}
    PROVE  ThreadSteady(t, thread[t], thread'[t]) /\ Gated(t)
<1>1. thread'[t].pc \in {"enter", "waiting"} => thread'[t].call \notin TryValues
    BY DEF Apart, Entered, Opening, IsPush
<1>2. ~Placing(thread'[t])
    BY DEF Apart, Opening
<1>3. ThreadSteady(t, thread[t], thread'[t])
    BY <1>1, <1>2 DEF ThreadSteady
<1>4. Gated(t)
    BY DEF Gated, Apart, Call
<1>5. QED
    BY <1>3, <1>4

LEMMA CheckTokenSteady ==
    ASSUME QueueInv, NEW t \in Threads, CheckToken(t) PROVE SteadyStep(t)
<1> DEFINE th == thread[t]
           new == thread'[t]
           x == Call(t)
<1>1. /\ th.pc = "token" /\ th.goal = "start" /\ x \in Operations /\ th.call = x
      /\ th.position \in Nat /\ OnlyThread(t)
      /\ UNCHANGED <<topology, storageVars, lifecycle, active, buffer, calls>>
      /\ op[x].result \notin Done
    BY Known, Fields DEF CheckToken, OnlyThread, At, queueVars, Shape, OwnStart, Goto, Call,
       QueueInv, ValueInv, NotBefore, Undecided, Starting
<1>2. ~Transferring(th) /\ ~Fronting(th) /\ ~Entered(th) /\ Undecided(t, th)
    BY <1>1 DEF Transferring, Fronting, Entered, Placing, Undecided, Starting
<1>3. CASE op[x].stop
    <2>1. /\ new = NewThread
          /\ op' = [op EXCEPT ![x] = [@ EXCEPT !.phase = "Completed", !.result = "Stopped",
                                                !.signals = op[x].signals + 1]]
        BY <1>1, <1>3, Known DEF CheckToken
    <2>2. /\ op'[x].phase = "Completed" /\ op'[x].result = "Stopped" /\ op'[x].stop = op[x].stop
          /\ op'[x].moved = op[x].moved /\ op'[x].budget = op[x].budget
          /\ op'[x].registered = op[x].registered /\ DOMAIN op'[x] = OpFields
          /\ DOMAIN op' = Operations /\ \A o \in Operations \ {x} : op'[o] = op[o]
        BY <1>1, <2>1, Known, Fields
    <2>3. \A o \in Operations : OpSteady(t, o)
        <3>1. ASSUME NEW o \in Operations \ {x} PROVE OpSteady(t, o)
            BY <2>2, <3>1, Known DEF OpSteady, QueueInv, ValueInv, DataTypes
        <3>2. OpSteady(t, x)
            BY <1>1, <1>2, <2>2 DEF OpSteady, QueueInv, ValueInv, DataTypes, Results, Done, Phases
        <3>3. QED
            BY <3>1, <3>2
    <2>4. ThreadSteady(t, th, new) /\ Gated(t)
        <3>1. \A o \in PopOps : op'[o].result = "Stopped" /\ ~op'[o].stop =>
                op[o].result = "Stopped" /\ ~op[o].stop
            BY <1>3, <2>2 DEF Operations
        <3>2. QED
            BY <1>1, <1>2, <2>1, <3>1, IdleSteady DEF Gated, Gauge
    <2>5. QED
        BY <1>1, <2>2, <2>3, <2>4, SameTypes DEF SteadyStep, Steady
<1>4. CASE ~op[x].stop
    <2>1. op' = op /\ new.pc = "register" /\ new.call = x /\ new.goal = "start" /\ new.position \in Nat
        BY <1>1, <1>4, Known, Fields DEF CheckToken, Goto
    <2>2. Apart(new) /\ Gauge(th, new) /\ ~Refusing(t, new) /\ ~Door(new)
        BY <1>1, <1>2, <2>1 DEF Apart, Transferring, Reserving, Entered, Opening, Placing, Gauge, Refusing, Door
    <2>3. ThreadSteady(t, th, new) /\ Gated(t)
        BY <1>1, <1>2, <2>1, <2>2, ApartSteady
    <2>4. QED
        BY <1>1, <2>1, <2>3, SameOpStep, SameTypes
<1>5. QED
    BY <1>3, <1>4

LEMMA RegisterCallbackSteady ==
    ASSUME QueueInv, NEW t \in Threads, RegisterCallback(t) PROVE SteadyStep(t)
<1> DEFINE th == thread[t]
           new == thread'[t]
           x == Call(t)
<1>1. /\ th.pc = "register" /\ th.goal = "start" /\ x \in Operations /\ th.call = x
      /\ th.position \in Nat /\ OnlyThread(t) /\ t \notin Stoppable
      /\ UNCHANGED <<topology, storageVars, lifecycle, active, buffer, calls>>
    <2>1. th.pc = "register" /\ OwnStart(t, th) /\ th.goal = "start" /\ x \in Operations /\ th.call = x
        BY Known DEF RegisterCallback, At, Shape, OwnStart, Call, Starting
    <2>2. t \notin Stoppable
        BY <2>1, Names DEF OwnStart, Users
    <2>3. QED
        BY <2>1, <2>2, Known DEF RegisterCallback, OnlyThread, queueVars, Goto
<1>2. ~Transferring(th) /\ ~Fronting(th) /\ ~Entered(th) /\ Undecided(t, th)
    BY <1>1 DEF Transferring, Fronting, Entered, Placing, Undecided, Starting
<1>3. CASE op[x].stop
    <2>1. op' = op /\ new.pc = "lock" /\ new.goal = "cancel" /\ new.call = x /\ new.position \in Nat
        BY <1>1, <1>3, Known, Fields DEF RegisterCallback
    <2>2. Apart(new) /\ Gauge(th, new) /\ ~Refusing(t, new) /\ ~Door(new)
        BY <1>1, <1>2, <2>1 DEF Apart, Transferring, Reserving, Entered, Opening, Placing, Gauge, Refusing, Door
    <2>3. ThreadSteady(t, th, new) /\ Gated(t)
        BY <1>1, <1>2, <1>3, <2>1, <2>2, ApartSteady
    <2>4. QED
        BY <1>1, <2>1, <2>3, SameOpStep, SameTypes
<1>4. CASE ~op[x].stop
    <2>1. /\ new.pc = "begin" /\ new.call = x /\ new.goal = "start" /\ new.position \in Nat
          /\ op' = [op EXCEPT ![x].registered = TRUE]
        BY <1>1, <1>4, Known, Fields DEF RegisterCallback, Goto
    <2>2. Apart(new) /\ Gauge(th, new) /\ ~Refusing(t, new) /\ ~Door(new)
        BY <1>1, <1>2, <2>1 DEF Apart, Transferring, Reserving, Entered, Opening, Placing, Gauge, Refusing, Door
    <2>3. /\ op'[x].phase = op[x].phase /\ op'[x].result = op[x].result /\ op'[x].stop = op[x].stop
          /\ op'[x].moved = op[x].moved /\ op'[x].budget = op[x].budget
          /\ op'[x].registered = TRUE /\ DOMAIN op'[x] = OpFields
          /\ DOMAIN op' = Operations /\ \A o \in Operations \ {x} : op'[o] = op[o]
        BY <1>1, <2>1, Known, Fields
    <2>4. \A o \in Operations : OpSteady(t, o)
        BY <2>3, Known, ZenonT(40) DEF OpSteady, QueueInv, ValueInv, DataTypes
    <2>5. ThreadSteady(t, th, new) /\ Gated(t)
        <3>1. \A o \in PopOps : op'[o].result = "Stopped" /\ ~op'[o].stop =>
                op[o].result = "Stopped" /\ ~op[o].stop
            BY <2>3 DEF Operations
        <3>2. QED
            BY <1>1, <1>2, <2>1, <2>2, <3>1, ApartSteady
    <2>6. QED
        BY <1>1, <2>3, <2>4, <2>5, SameTypes DEF SteadyStep, Steady
<1>5. QED
    BY <1>3, <1>4

LEMMA StartPhaseSteady ==
    ASSUME QueueInv, NEW t \in Threads, StartPhase(t) PROVE SteadyStep(t)
<1> DEFINE th == thread[t]
           new == thread'[t]
<1>1. /\ th.pc = "begin" /\ th.goal = "start" /\ th.call \in Operations
      /\ th.position \in Nat /\ OnlyThread(t)
      /\ UNCHANGED <<topology, storageVars, lifecycle, active, op, buffer, calls>>
      /\ new.pc \in {"admit.fast", "refused"} /\ new.goal = "start" /\ new.call = th.call
      /\ new.position \in Nat
    BY Known, Fields DEF StartPhase, OnlyThread, At, queueVars, Shape, OwnStart, Goto, Starting
<1>2. /\ ~Transferring(th) /\ ~Fronting(th) /\ ~Entered(th) /\ Undecided(t, th)
      /\ Apart(new) /\ ~Refusing(t, new) /\ ~Door(new)
    BY <1>1 DEF Transferring, Fronting, Entered, Placing, Undecided, Starting, Apart, Reserving,
       Opening, Refusing, Door
<1>3. ThreadSteady(t, th, new) /\ Gated(t)
    BY <1>1, <1>2, ApartSteady DEF Gauge, Apart
<1>4. QED
    BY <1>1, <1>3, SameOpStep, SameTypes

LEMMA StartLifecycleSteady ==
    ASSUME QueueInv, NEW t \in Threads, StartLifecycle(t) PROVE SteadyStep(t)
<1> DEFINE th == thread[t]
           new == thread'[t]
<1>1. /\ th.pc = "admit.fast" /\ th.goal = "start" /\ th.call \in Operations
      /\ th.position \in Nat /\ OnlyThread(t) /\ th.ok
      /\ UNCHANGED <<topology, storageVars, lifecycle, active, op, buffer, calls>>
      /\ \/ IsPush(th.call) /\ new.pc = "enter.fast"
         \/ IsPush(th.call) /\ new.pc = "lock" /\ NotOpen(t)
         \/ ~IsPush(th.call) /\ new.pc \in {"lock", "waiting"}
      /\ new.goal = "start" /\ new.call = th.call /\ new.position \in Nat /\ new.ok = th.ok
    BY Known, Fields DEF StartLifecycle, OnlyThread, At, queueVars, Shape, OwnStart, Goto, NotOpen,
       Call, Starting
<1>2. /\ ~Transferring(th) /\ ~Fronting(th) /\ ~Entered(th) /\ Undecided(t, th)
      /\ Apart(new) /\ (Refusing(t, new) => NotOpen(t)) /\ (Door(new) => IsPush(Call(t)))
    BY <1>1 DEF Transferring, Fronting, Entered, Placing, Undecided, Starting, Apart, Reserving,
       Opening, Refusing, Door, Call, IsPush
<1>3. ThreadSteady(t, th, new) /\ Gated(t)
    BY <1>1, <1>2, ApartSteady DEF Gauge, Apart
<1>4. QED
    BY <1>1, <1>3, SameOpStep, SameTypes

LEMMA EnterProducerSteady ==
    ASSUME QueueInv, NEW t \in Threads, EnterProducer(t) PROVE SteadyStep(t)
<1> DEFINE th == thread[t]
           new == thread'[t]
<1>1. /\ th.pc = "enter.fast" /\ th.goal = "start" /\ th.call \in Operations
      /\ th.position \in Nat /\ OnlyThread(t) /\ th.ok /\ active' = active + 1
      /\ UNCHANGED <<topology, storageVars, lifecycle, op, buffer, calls>>
      /\ new.pc = "enter" /\ IsPush(th.call)
      /\ new.goal = "start" /\ new.call = th.call /\ new.position \in Nat /\ new.ok = th.ok
    BY Known, Fields DEF EnterProducer, OnlyThread, At, Shape, OwnStart, Goto, Starting,
       QueueInv, GateInv, PushesPass, Door, Call
<1>2. /\ ~Transferring(th) /\ ~Fronting(th) /\ ~Entered(th) /\ Undecided(t, th) /\ Entered(new)
      /\ ~Refusing(t, new) /\ ~Opening(new) /\ ~Reserving(new) /\ new.call \notin TryValues
    BY <1>1, NamesAssumption DEF Transferring, Fronting, Entered, Placing, Undecided, Starting,
       Reserving, Opening, Refusing
<1>3. ThreadSteady(t, th, new) /\ Gated(t)
    BY <1>1, <1>2 DEF Gauge, ThreadSteady, Gated, Placing
<1>4. QED
    BY <1>1, <1>3, SameOpStep, SameTypes

LEMMA EnterOpenSteady ==
    ASSUME QueueInv, NEW t \in Threads, EnterOpen(t) PROVE SteadyStep(t)
<1> DEFINE th == thread[t]
           new == thread'[t]
<1>1. /\ th.pc = "enter" /\ OnlyThread(t) /\ th.position \in Nat
      /\ th.goal \in {"start", "service"} /\ th.call \in Calls
      /\ UNCHANGED <<topology, storageVars, lifecycle, active, op, buffer, calls>>
      /\ \/ new.pc = "waiting" /\ Lifecycle(t) = "Open" /\ new.ok = th.ok
         \/ new.pc = "leave" /\ NotOpen(t) /\ ~new.ok
      /\ new.goal = th.goal /\ new.call = th.call /\ new.position \in Nat
      /\ th.goal = "start" => th.ok
    BY Known, Fields DEF EnterOpen, OnlyThread, At, queueVars, Shape, OwnStart, OwnTry, NotOpen, Inside,
       Calls
<1>2. /\ ~Transferring(th) /\ ~Fronting(th) /\ Entered(th)
      /\ Undecided(t, new) => Undecided(t, th)
      /\ Refusing(t, new) => NotOpen(t)
      /\ ~Reserving(new) /\ ~Placing(new)
    BY <1>1 DEF Transferring, Fronting, Entered, Placing, Undecided, Starting, Reserving, Refusing
<1>3. Entered(new)
    <2>1. CASE new.pc = "leave"
        BY <2>1 DEF Entered
    <2>2. CASE new.pc = "waiting"
        <3>1. IsPush(th.call)
            BY <1>1 DEF QueueInv, GateInv, PushesPass, Door, Call
        <3>2. QED
            BY <1>1, <2>2, <3>1 DEF Entered
    <2>3. QED
        BY <1>1, <2>1, <2>2
<1>4. ThreadSteady(t, th, new) /\ Gated(t)
    <2>1. IsPush(th.call)
        BY <1>1 DEF QueueInv, GateInv, PushesPass, Door, Call
    <2>2. QED
        BY <1>1, <1>2, <1>3, <2>1 DEF Gauge, ThreadSteady, Gated, Opening
<1>5. QED
    BY <1>1, <1>4, SameOpStep, SameTypes

(* A step that says something of one operation. *)
Marked(x, phase, result) ==
    /\ DOMAIN op' = Operations /\ DOMAIN op'[x] = OpFields
    /\ op'[x].phase = phase /\ op'[x].result = result
    /\ op'[x].stop = op[x].stop /\ op'[x].moved = op[x].moved
    /\ op'[x].budget \in Nat /\ op'[x].registered \in BOOLEAN
    /\ \A o \in Operations \ {x} : op'[o] = op[o]

NewStop(o) == op'[o].result = "Stopped" /\ ~op'[o].stop

LEMMA MarkedSteady ==
    ASSUME QueueInv, NEW t \in Threads, NEW x \in Operations, NEW phase, NEW result,
           Marked(x, phase, result), phase \in {"Completing", "Completed", op[x].phase},
           \/ result = op[x].result
           \/ /\ op[x].result \notin Done /\ result \in Results \ Done
              /\ \/ x = Call(t) /\ Undecided(t, thread[t])
                 \/ op[x].phase = "Pending"
    PROVE  /\ DOMAIN op' = Operations /\ \A o \in Operations : OpSteady(t, o)
           /\ \A o \in PopOps : NewStop(o) =>
                \/ op[o].result = "Stopped" /\ ~op[o].stop
                \/ o = x /\ result = "Stopped" /\ ~op[x].stop
<1>1. ASSUME NEW o \in Operations \ {x} PROVE OpSteady(t, o)
    BY <1>1, Known DEF Marked, OpSteady, QueueInv, ValueInv, DataTypes
<1>2. OpSteady(t, x)
    BY Known DEF Marked, OpSteady, QueueInv, ValueInv, DataTypes, Phases
<1>3. \A o \in PopOps : NewStop(o) =>
         \/ op[o].result = "Stopped" /\ ~op[o].stop
         \/ o = x /\ result = "Stopped" /\ ~op[x].stop
    BY DEF Marked, NewStop, Operations
<1>4. QED
    BY <1>1, <1>2, <1>3 DEF Marked

LEMMA SteadyParts ==
    ASSUME NEW t \in Threads, OnlyThread(t), ThreadSteady(t, thread[t], thread'[t]), Gated(t),
           DOMAIN op' = Operations, \A o \in Operations : OpSteady(t, o),
           UNCHANGED <<topology, storageVars>>, SteadyTypes, StaysClosed
    PROVE  SteadyStep(t)
BY DEF SteadyStep, Steady

LEMMA FastPathSteady ==
    ASSUME QueueInv, NEW t \in Threads, FastPath(t) PROVE SteadyStep(t)
<1> DEFINE th == thread[t]
           new == thread'[t]
           x == Call(t)
           resolves == x \in PushOps /\ ~MaySuspend(x)
<1>1. /\ th.pc = "waiting" /\ OnlyThread(t) /\ th.position \in Nat /\ x = th.call
      /\ (OwnStart(t, th) /\ th.ok) \/ OwnTry(t, th)
      /\ UNCHANGED <<topology, storageVars, lifecycle, active, buffer, calls>>
      /\ new.goal = th.goal /\ new.call = x /\ new.position \in Nat
    BY Known, Fields DEF FastPath, OnlyThread, At, queueVars, Shape, Inside, Call, OwnStart, OwnTry
<1>2. /\ ~Transferring(th) /\ ~Fronting(th) /\ (Entered(th) <=> IsPush(x)) /\ (Opening(th) <=> IsPush(x))
      /\ OwnStart(t, th) => Undecided(t, th)
    BY <1>1 DEF Transferring, Fronting, Entered, Placing, Undecided, Opening, OwnStart, Call
<1>3. SteadyTypes /\ StaysClosed
    BY <1>1, SameTypes
<1>4. CASE Behind(x)
    <2>1. /\ new.pc = IF IsPush(x) THEN "leave" ELSE "lock"
          /\ new.ok = (resolves \/ ~IsPush(x))
          /\ op' = IF resolves THEN [op EXCEPT ![x].result = Policy[x], ![x].budget = 0] ELSE op
        BY <1>4, Known, Fields DEF FastPath
    <2>2. Gauge(th, new) /\ ~Opening(new) /\ ~Reserving(new) /\ (Door(new) => IsPush(x)) /\ ~Placing(new)
        BY <1>1, <1>2, <2>1 DEF Gauge, Entered, Placing, Opening, Reserving, Transferring, Door
    <2>3. ~Refusing(t, new)
        BY <1>1, <2>1 DEF Refusing, IsPush
    <2>4. Undecided(t, new) => Undecided(t, th)
        BY <1>1, <1>2, NamesAssumption DEF Undecided, OwnStart, OwnTry
    <2>5. ThreadSteady(t, th, new)
        BY <1>1, <1>2, <2>1, <2>2, <2>4 DEF ThreadSteady
    <2>6. CASE resolves
        <3>1. x \in Operations /\ OwnStart(t, th) /\ Undecided(t, th)
            BY <1>1, <1>2, <2>6, NamesAssumption DEF Operations, OwnTry
        <3>2. op[x].result \notin Done
            BY <3>1 DEF QueueInv, ValueInv, NotBefore
        <3>3. Policy[x] \in {"Reject", "Drop"}
            BY <2>6, QueueAssumption DEF MaySuspend
        <3>4. Marked(x, op[x].phase, Policy[x])
            BY <2>1, <2>6, <3>1, Known, Fields DEF Marked, QueueInv, ValueInv, DataTypes
        <3>5. Policy[x] \in Results \ Done
            BY <3>3 DEF Results, Done
        <3>6. /\ DOMAIN op' = Operations /\ \A o \in Operations : OpSteady(t, o)
              /\ \A o \in PopOps : NewStop(o) => op[o].result = "Stopped" /\ ~op[o].stop
            BY <3>1, <3>2, <3>3, <3>4, <3>5, MarkedSteady
        <3>7. Gated(t)
            BY <1>1, <2>1, <2>2, <2>3, <3>1, <3>6 DEF Gated, NewStop, OwnStart
        <3>8. QED
            BY <1>1, <1>3, <2>5, <3>6, <3>7, SteadyParts
    <2>7. CASE ~resolves
        <3>1. op' = op
            BY <2>1, <2>7
        <3>2. Gated(t)
            BY <1>1, <2>1, <2>2, <2>3, <3>1 DEF Gated, OwnStart, OwnTry
        <3>3. QED
            BY <1>1, <1>3, <2>5, <3>1, <3>2, SameOpStep
    <2>8. QED
        BY <2>6, <2>7
<1>5. CASE ~Behind(x)
    <2>1. new.pc = SideOf(x) /\ new.job = x /\ new.from = "fast" /\ new.ok = th.ok /\ op' = op
        BY <1>5, Known, Fields DEF FastPath
    <2>2. /\ Gauge(th, new) /\ (Opening(new) => Opening(th)) /\ ~Reserving(new) /\ ~Refusing(t, new)
          /\ ~Door(new)
        BY <1>1, <1>2, <2>1 DEF Gauge, Entered, Placing, Opening, Reserving, Transferring, Door, Refusing,
           SideOf
    <2>3. ~Undecided(t, new)
        BY <1>1, <2>1, NamesAssumption DEF Undecided, OwnStart, OwnTry, SideOf, Starting
    <2>4. Placing(new) => new.pc = "push" /\ Fresh(new.job)
        <3>1. ASSUME Placing(new) PROVE new.pc = "push" /\ IsPush(x)
            BY <2>1, <3>1 DEF Placing, SideOf
        <3>2. ASSUME IsPush(x) PROVE Fresh(x)
            BY <1>1, <2>1, <3>2, FreshCall
        <3>3. QED
            BY <2>1, <3>1, <3>2
    <2>5. ThreadSteady(t, th, new)
        BY <1>1, <1>2, <2>1, <2>3, <2>4 DEF ThreadSteady
    <2>6. Gated(t)
        BY <1>1, <2>1, <2>2 DEF Gated, OwnStart, OwnTry, SideOf
    <2>7. QED
        BY <1>1, <1>3, <2>1, <2>5, <2>6, SameOpStep
<1>6. QED
    BY <1>4, <1>5

(* Departing on success or after a failure, with or without serving others. *)
LEMMA DepartSteady ==
    ASSUME QueueInv, NEW t \in Threads, NEW service \in BOOLEAN, Depart(t, service),
           thread[t].pc \in {"leave", "left"},
           active' = IF thread[t].pc = "leave" THEN active - 1 ELSE active,
           UNCHANGED <<topology, storageVars, lifecycle, buffer, calls>>
    PROVE  SteadyStep(t)
<1> DEFINE th == thread[t]
           new == thread'[t]
           x == Call(t)
<1>1. /\ OnlyThread(t) /\ th.position \in Nat /\ x = th.call /\ x \in Calls
      /\ OwnStart(t, th) \/ OwnTry(t, th)
    BY Known DEF Depart, Finish, OnlyThread, Shape, Inside, Call, OwnStart, OwnTry, Calls
<1>2. /\ ~Transferring(th) /\ ~Fronting(th) /\ (Entered(th) <=> th.pc = "leave")
    BY DEF Transferring, Fronting, Entered, Placing
<1>3. SteadyTypes /\ StaysClosed
    BY SameTypes
<1>4. CASE th.goal = "start" /\ ~th.ok
    <2>1. /\ new.pc = "lock" /\ new.goal = "start" /\ new.call = x /\ new.position \in Nat /\ op' = op
        BY <1>1, <1>4, Known, Fields DEF Depart
    <2>2. Apart(new) /\ Gauge(th, new) /\ ~Door(new) /\ (Refusing(t, new) => Refusing(t, th))
        BY <1>1, <1>2, <1>4, <2>1 DEF Apart, Transferring, Reserving, Entered, Opening, Placing, Gauge,
           Refusing, Door
    <2>3. Undecided(t, new) => Undecided(t, th)
        BY <1>1, <1>4, <2>1 DEF Undecided
    <2>4. ThreadSteady(t, th, new) /\ Gated(t)
        BY <1>1, <1>2, <2>1, <2>2, <2>3, ApartSteady
    <2>5. QED
        BY <1>1, <1>3, <2>1, <2>4, SameOpStep
<1>5. CASE ~(th.goal = "start" /\ ~th.ok) /\ service
    <2>1. /\ new.pc = "lock" /\ new.goal = "service" /\ new.call = x /\ new.position \in Nat
          /\ op' = IF x \in Operations THEN [op EXCEPT ![x].phase = "Completing"] ELSE op
        <3> DEFINE listed == IF x \in Operations THEN <<x>> ELSE << >>
                   next == [th EXCEPT !.done = listed, !.goal = "service"]
        <3>1. /\ thread' = [thread EXCEPT ![t] = [next EXCEPT !.pc = "lock"]]
              /\ op' = IF x \in Operations THEN [op EXCEPT ![x].phase = "Completing"] ELSE op
            BY <1>5 DEF Depart, Finish
        <3>2. /\ DOMAIN next = ThreadFields /\ next.position = th.position /\ next.goal = "service"
              /\ next.call = x
            BY <1>1, Known, Fields
        <3> HIDE DEF next
        <3>3. QED
            BY <1>1, <3>1, <3>2, Known, Fields
    <2>2. Apart(new) /\ Gauge(th, new) /\ ~Door(new) /\ ~Refusing(t, new) /\ ~Undecided(t, new)
        BY <1>1, <1>2, <2>1 DEF Apart, Transferring, Reserving, Entered, Opening, Placing, Gauge,
           Refusing, Door, Undecided
    <2>3. CASE x \in Operations
        <3>1. Marked(x, "Completing", op[x].result)
            BY <2>1, <2>3, Known, Fields DEF Marked, QueueInv, ValueInv, DataTypes
        <3>2. /\ DOMAIN op' = Operations /\ \A o \in Operations : OpSteady(t, o)
              /\ \A o \in PopOps : NewStop(o) => op[o].result = "Stopped" /\ ~op[o].stop
            BY <2>3, <3>1, MarkedSteady
        <3>3. ThreadSteady(t, th, new) /\ Gated(t)
            BY <1>1, <1>2, <2>1, <2>2, <3>2, ApartSteady DEF NewStop
        <3>4. QED
            BY <1>1, <1>3, <3>2, <3>3, SteadyParts
    <2>4. CASE x \notin Operations
        <3>1. op' = op
            BY <2>1, <2>4
        <3>2. ThreadSteady(t, th, new) /\ Gated(t)
            BY <1>1, <1>2, <2>1, <2>2, <3>1, ApartSteady
        <3>3. QED
            BY <1>1, <1>3, <3>1, <3>2, SameOpStep
    <2>5. QED
        BY <2>3, <2>4
<1>6. CASE ~(th.goal = "start" /\ ~th.ok) /\ ~service /\ th.ok
    <2>1. new.pc = "wake" /\ new.goal = th.goal /\ new.call = x /\ new.position \in Nat /\ op' = op
          /\ new.ok
        BY <1>1, <1>6, Known, Fields DEF Depart
    <2>2. Apart(new) /\ Gauge(th, new) /\ ~Door(new) /\ ~Refusing(t, new) /\ ~Undecided(t, new)
        BY <1>1, <1>2, <2>1 DEF Apart, Transferring, Reserving, Entered, Opening, Placing, Gauge,
           Refusing, Door, Undecided, OwnStart, OwnTry, Starting
    <2>3. ThreadSteady(t, th, new) /\ Gated(t)
        BY <1>1, <1>2, <2>1, <2>2, ApartSteady DEF OwnStart, OwnTry
    <2>4. QED
        BY <1>1, <1>3, <2>1, <2>3, SameOpStep
<1>7. CASE ~(th.goal = "start" /\ ~th.ok) /\ ~service /\ ~th.ok
    <2>1. new = NewThread /\ op' = op
        BY <1>1, <1>7, Known, Fields DEF Depart
    <2>2. ThreadSteady(t, th, new) /\ Gated(t)
        BY <1>1, <1>2, <2>1, IdleSteady DEF Gated, Gauge
    <2>3. QED
        BY <1>1, <1>3, <2>1, <2>2, SameOpStep
<1>8. QED
    BY <1>4, <1>5, <1>6, <1>7

LEMMA LeaveProducerSteady ==
    ASSUME QueueInv, NEW t \in Threads, LeaveProducer(t) PROVE SteadyStep(t)
<1> DEFINE th == thread[t]
           new == thread'[t]
<1>1. CASE active = 1
    <2>1. /\ th.pc = "leave" /\ OnlyThread(t) /\ th.position \in Nat
          /\ OwnStart(t, th) \/ OwnTry(t, th)
          /\ UNCHANGED <<topology, storageVars, lifecycle, op, buffer, calls>> /\ active' = active - 1
          /\ new.pc = "left" /\ new.goal = th.goal /\ new.call = th.call /\ new.position \in Nat
          /\ new.ok = th.ok
        BY <1>1, Known, Fields DEF LeaveProducer, OnlyThread, At, Shape, Inside, Goto
    <2>2. /\ ~Transferring(th) /\ ~Fronting(th) /\ Apart(new) /\ Gauge(th, new)
          /\ Refusing(t, new) => Refusing(t, th)
          /\ Undecided(t, new) => Undecided(t, th)
        BY <2>1 DEF Apart, Transferring, Fronting, Reserving, Entered, Opening, Placing, Gauge,
           Refusing, Undecided, Starting
    <2>3. Door(new) => IsPush(Call(t))
        BY <2>1 DEF QueueInv, GateInv, PushesPass, Door
    <2>4. ThreadSteady(t, th, new) /\ Gated(t)
        BY <2>1, <2>2, <2>3, ApartSteady DEF OwnStart, OwnTry
    <2>5. QED
        BY <2>1, <2>4, SameOpStep, SameTypes
<1>2. CASE active # 1
    BY <1>2, DepartSteady DEF LeaveProducer, At
<1>3. QED
    BY <1>1, <1>2

LEMMA LastProducerLeftSteady ==
    ASSUME QueueInv, NEW t \in Threads, LastProducerLeft(t) PROVE SteadyStep(t)
<1>1. PICK service \in BOOLEAN : Depart(t, service)
    BY DEF LastProducerLeft
<1>2. QED
    BY <1>1, DepartSteady DEF LastProducerLeft, At, queueVars

(* What a thread may go on to when it returns. *)
LEMMA ReturnApart ==
    ASSUME NEW t, NEW th, DOMAIN th = ThreadFields, th.position \in Nat
    PROVE  LET new == Return(t, th) IN
           /\ Apart(new) /\ ~Refusing(t, new) /\ ~Door(new) /\ new.position \in Nat
           /\ \/ new = NewThread
              \/ /\ new.call = th.call
                 /\ new.goal = "cancel" => th.goal = "cancel"
                 /\ Undecided(t, new) => Undecided(t, th)
<1> DEFINE new == Return(t, th)
<1>1. CASE new = NewThread
    BY <1>1, IdleThread DEF Apart, Transferring, Reserving, Entered, Opening, Placing, Refusing, Door
<1>2. CASE new = [th EXCEPT !.pc = "complete"]
    <2>1. new.pc = "complete" /\ new.call = th.call /\ new.goal = th.goal /\ new.position = th.position
          /\ new.ok = th.ok
        BY <1>2, Fields
    <2>2. QED
        BY <2>1 DEF Apart, Transferring, Reserving, Entered, Opening, Placing, Refusing, Door, Undecided,
           Starting
<1>3. CASE th.goal = "start" /\ ~th.ok /\ new = [th EXCEPT !.pc = "refused"]
    <2>1. new.pc = "refused" /\ new.call = th.call /\ new.goal = th.goal /\ new.position = th.position
          /\ new.ok = th.ok
        BY <1>3, Fields
    <2>2. QED
        BY <1>3, <2>1 DEF Apart, Transferring, Reserving, Entered, Opening, Placing, Refusing, Door, Undecided
<1>4. CASE /\ th.goal = "cancel" /\ t \notin Stoppable
           /\ new = [th EXCEPT !.pc = "begin", !.goal = "start"]
    <2>1. new.pc = "begin" /\ new.call = th.call /\ new.goal = "start" /\ new.position = th.position
        BY <1>4, Fields
    <2>2. QED
        BY <1>4, <2>1 DEF Apart, Transferring, Reserving, Entered, Opening, Placing, Refusing, Door, Undecided
<1>5. QED
    BY <1>1, <1>2, <1>3, <1>4 DEF Return

LEMMA WakeSteady ==
    ASSUME QueueInv, NEW t \in Threads, Wake(t) PROVE SteadyStep(t)
<1> DEFINE th == thread[t]
           new == thread'[t]
           x == Call(t)
           listed == IF x \in Operations THEN <<x>> ELSE << >>
           next == [th EXCEPT !.done = listed, !.goal = "service"]
<1>1. /\ th.pc = "wake" /\ OnlyThread(t) /\ th.position \in Nat /\ x = th.call
      /\ UNCHANGED <<topology, storageVars, lifecycle, active, buffer, calls>>
    BY Known DEF Wake, At, Finish, OnlyThread, Call, queueVars
<1>2. /\ DOMAIN next = ThreadFields /\ next.position = th.position /\ next.goal = "service"
      /\ next.call = x
    BY <1>1, Known, Fields
<1>3. /\ new = [next EXCEPT !.pc = "lock"] \/ new = Return(t, next)
      /\ op' = IF x \in Operations THEN [op EXCEPT ![x].phase = "Completing"] ELSE op
    BY Known DEF Wake, Finish
<1> HIDE DEF next
<1>4. /\ Apart(new) /\ ~Refusing(t, new) /\ ~Door(new) /\ new.position \in Nat
      /\ \/ new = NewThread
         \/ new.call = x /\ new.goal # "cancel" /\ ~Undecided(t, new)
    <2>1. CASE new = [next EXCEPT !.pc = "lock"]
        <3>1. new.pc = "lock" /\ new.call = x /\ new.goal = "service" /\ new.position \in Nat
            BY <1>1, <1>2, <2>1, Fields
        <3>2. QED
            BY <3>1 DEF Apart, Transferring, Reserving, Entered, Opening, Placing, Refusing, Door, Undecided
    <2>2. CASE new = Return(t, next)
        BY <1>1, <1>2, <2>2, ReturnApart DEF Undecided
    <2>3. QED
        BY <1>3, <2>1, <2>2
<1>5. ~Transferring(th) /\ ~Fronting(th) /\ Gauge(th, new)
    BY <1>1, <1>4 DEF Transferring, Fronting, Gauge, Entered, Placing, Apart
<1>6. /\ DOMAIN op' = Operations /\ \A o \in Operations : OpSteady(t, o)
      /\ \A o \in PopOps : NewStop(o) => op[o].result = "Stopped" /\ ~op[o].stop
    <2>1. CASE x \in Operations
        <3>1. Marked(x, "Completing", op[x].result)
            BY <1>3, <2>1, Known, Fields DEF Marked, QueueInv, ValueInv, DataTypes
        <3>2. QED
            BY <2>1, <3>1, MarkedSteady
    <2>2. CASE x \notin Operations
        <3>1. op' = op
            BY <1>3, <2>2
        <3>2. QED
            BY <3>1, SameOpSteady DEF NewStop
    <2>3. QED
        BY <2>1, <2>2
<1>7. ThreadSteady(t, th, new) /\ Gated(t)
    <2>1. CASE new = NewThread
        BY <1>1, <1>5, <1>6, <2>1, IdleSteady DEF Gated, NewStop
    <2>2. CASE new.call = x /\ new.goal # "cancel" /\ ~Undecided(t, new)
        BY <1>1, <1>4, <1>5, <1>6, <2>2, ApartSteady DEF NewStop
    <2>3. QED
        BY <1>4, <2>1, <2>2
<1>8. QED
    BY <1>1, <1>6, <1>7, SteadyParts, SameTypes

LEMMA StartRefusedSteady ==
    ASSUME QueueInv, NEW t \in Threads, StartRefused(t) PROVE SteadyStep(t)
<1> DEFINE th == thread[t]
           new == thread'[t]
           x == Call(t)
<1>1. /\ th.pc = "refused" /\ OnlyThread(t) /\ th.goal = "start" /\ x = th.call /\ x \in Operations
      /\ UNCHANGED <<topology, storageVars, lifecycle, active, buffer, calls>>
      /\ new = NewThread
    BY Known DEF StartRefused, At, OnlyThread, Call, queueVars, Shape, OwnStart
<1>2. /\ ~Transferring(th) /\ ~Fronting(th) /\ ~Entered(th) /\ Undecided(t, th)
    BY <1>1 DEF Transferring, Fronting, Entered, Placing, Undecided
<1>3. /\ DOMAIN op' = Operations /\ \A o \in Operations : OpSteady(t, o)
      /\ \A o \in PopOps : NewStop(o) => op[o].result = "Stopped" /\ ~op[o].stop
    <2>1. CASE op[x].phase = "StopRequested"
        <3>1. op[x].stop /\ op[x].result \notin Done
            BY <1>1, <1>2, <2>1 DEF QueueInv, ValueInv, GateInv, StopsAsked, NotBefore
        <3>2. Marked(x, "Completed", "Stopped")
            <4>1. op' = [op EXCEPT ![x].phase = "Completed", ![x].result = "Stopped",
                                   ![x].registered = FALSE, ![x].signals = @ + 1]
                BY <2>1 DEF StartRefused, Signalled, Signal
            <4>2. QED
                BY <1>1, <4>1, Known, Fields, ZenonT(40) DEF Marked, QueueInv, ValueInv, DataTypes
        <3>3. QED
            BY <1>1, <1>2, <3>1, <3>2, MarkedSteady DEF Results, Done
    <2>2. CASE op[x].phase # "StopRequested"
        <3>1. op' = op
            BY <2>2 DEF StartRefused
        <3>2. QED
            BY <3>1, SameOpSteady DEF NewStop
    <2>3. QED
        BY <2>1, <2>2
<1>4. ThreadSteady(t, th, new) /\ Gated(t)
    BY <1>1, <1>2, <1>3, IdleSteady DEF Gated, Gauge, NewStop
<1>5. QED
    BY <1>1, <1>3, <1>4, SteadyParts, SameTypes

LEMMA CallStepSteady ==
    ASSUME QueueInv, NEW t \in Threads, CallStep(t) PROVE SteadyStep(t)
BY TryPopWaitingSteady, TryPopAfterSteady, CheckTokenSteady, RegisterCallbackSteady, StartPhaseSteady,
   StartLifecycleSteady, EnterProducerSteady, EnterOpenSteady, FastPathSteady, LeaveProducerSteady,
   LastProducerLeftSteady, WakeSteady, StartRefusedSteady DEF CallStep
-----------------------------------------------------------------------------
(* The steps under the lock.                                               *)
LEMMA OnwardApart ==
    ASSUME NEW t, NEW th, NEW lists, NEW new, Onward(new, th, lists)
    PROVE  /\ Apart(new) /\ ~Refusing(t, new) /\ ~Door(new) /\ new.call = th.call /\ new.goal = th.goal
           /\ Undecided(t, new) =>
                /\ th.call \in Operations
                /\ \/ th.goal = "start" /\ ~th.ok
                   \/ th.goal = "cancel" /\ t \notin Stoppable
BY DEF Onward, Apart, Transferring, Reserving, Entered, Opening, Placing, Refusing, Door, Undecided, Starting

LEMMA OnwardPosition ==
    ASSUME NEW th, DOMAIN th = ThreadFields, NEW side, NEW lists
    PROVE  Scan(th, lists).position = 0 /\ AfterFront(th, side, lists).position = 0
<1>1. ASSUME NEW r, DOMAIN r = ThreadFields PROVE Scan(r, lists).position = 0
    BY <1>1, Fields DEF Scan, Clear
<1>2. CASE side = "push" /\ lists.pop # << >>
    BY <1>1, <1>2, Fields DEF AfterFront, Clear
<1>3. CASE ~(side = "push" /\ lists.pop # << >>) /\ th.progress
    BY <1>1, <1>3 DEF AfterFront
<1>4. CASE ~(side = "push" /\ lists.pop # << >>) /\ ~th.progress
    BY <1>1, <1>4, Fields DEF AfterFront, Clear
<1>5. QED
    BY <1>1, <1>2, <1>3, <1>4

(* Under the lock nobody else is completing a waiter. *)
LEMMA WaiterUndecided ==
    ASSUME QueueInv, NEW t \in Threads, Holding(thread[t]), ~Fronting(thread[t]),
           NEW o \in Operations, op[o].phase = "Pending"
    PROVE  op[o].result \notin Done
<1>1. \A u \in Threads : ~Fronting(thread[u])
    BY HolderAlone DEF QueueInv
<1>2. QED
    BY <1>1 DEF QueueInv, ValueInv, NotBefore

LEMMA RefusalCases ==
    ASSUME NEW t, NEW x
    PROVE  /\ Refusal(t, x) \in {"Aborted", "Closed", "Stopped", "TooLarge", None}
           /\ Refusal(t, x) = "Stopped" => ClosedAndEmpty(t)
BY NamesAssumption DEF Refusal

LEMMA LifecycleType ==
    ASSUME QueueInv, NEW t \in Threads
    PROVE  Lifecycle(t) \in {"Open", "Closing", "Aborted"}
<1> DEFINE b == buffer[t]
           Late(i) == i \in 1 .. Len(b) /\ b[i].variable = "lifecycle"
<1>1. b \in Seq(Stores) /\ lifecycle \in {"Open", "Closing", "Aborted"}
    BY DEF QueueInv, ValueInv, DataTypes
<1>2. CASE \E i : Late(i)
    <2>1. PICK k : k = (CHOOSE i \in 1 .. Len(b) : b[i].variable = "lifecycle")
        OBVIOUS
    <2>2. Late(k)
        BY <1>2, <2>1
    <2>3. b[k] \in Stores
        BY <1>1, <2>2, ElementOfSeq
    <2>4. b[k].value \in {"Closing", "Aborted"}
        BY <2>2, <2>3 DEF Stores
    <2>5. Lifecycle(t) = b[k].value
        BY <1>2, <2>1 DEF Lifecycle
    <2>6. QED
        BY <2>4, <2>5
<1>3. CASE ~\E i : Late(i)
    BY <1>1, <1>3 DEF Lifecycle
<1>4. QED
    BY <1>2, <1>3

(* A push that is not refused finds the queue open. *)
LEMMA NotRefused ==
    ASSUME QueueInv, NEW t \in Threads, NEW x, IsPush(x), Refusal(t, x) = None
    PROVE  Lifecycle(t) = "Open" /\ op[x].result # "TooLarge"
BY LifecycleType, NamesAssumption DEF Refusal

LEMMA AdmitStoppedSteady ==
    ASSUME QueueInv, NEW t \in Threads, AdmitStopped(t) PROVE SteadyStep(t)
<1> DEFINE th == thread[t]
           new == thread'[t]
           mid == [th EXCEPT !.ok = FALSE]
<1>1. /\ th.pc = "admit" /\ OnlyThread(t) /\ OwnStart(t, th)
      /\ UNCHANGED <<topology, storageVars, lifecycle, active, op, buffer, calls>>
      /\ new = Scan(mid, pending)
    BY Known DEF AdmitStopped, At, OnlyThread, queueVars, Shape
<1>2. DOMAIN mid = ThreadFields /\ mid.goal = th.goal /\ mid.call = th.call
    BY Known, Fields
<1> HIDE DEF mid
<1>3. Onward(new, mid, pending) /\ new.position = 0
    BY <1>1, <1>2, ScanOnward, OnwardPosition
<1>4. ~Transferring(th) /\ ~Fronting(th) /\ ~Entered(th) /\ Undecided(t, th)
    BY <1>1 DEF Transferring, Fronting, Entered, Placing, Undecided, OwnStart
<1>5. /\ Apart(new) /\ ~Refusing(t, new) /\ ~Door(new) /\ new.call = th.call /\ new.goal = th.goal
    BY <1>2, <1>3, OnwardApart
<1>6. ThreadSteady(t, th, new) /\ Gated(t)
    BY <1>1, <1>3, <1>4, <1>5, ApartSteady DEF Gauge, Apart, OwnStart
<1>7. QED
    BY <1>1, <1>6, SameOpStep, SameTypes

(* The thread's own operation is settled, without a transfer or after it. *)
LEMMA SettledSteady ==
    ASSUME QueueInv, NEW t \in Threads, thread[t].pc \in {"admit", "settle"}, NEW result,
           Settled(t, Call(t), result),
           UNCHANGED <<topology, storageVars, lifecycle, active, buffer, calls>>,
           \/ result = op[Call(t)].result
           \/ /\ At(t, "admit") /\ result \in Results \ Done
              /\ result = "Stopped" => ClosedAndEmpty(t)
    PROVE  SteadyStep(t)
<1> DEFINE th == thread[t]
           new == thread'[t]
           x == Call(t)
           mid == [th EXCEPT !.done = Append(thread[t].done, x)]
<1>1. /\ OnlyThread(t) /\ OwnStart(t, th) /\ x \in Operations /\ th.call = x /\ th.ok
      /\ new = Scan(mid, pending)
      /\ op' = [op EXCEPT ![x].phase = "Completing", ![x].result = result]
    BY Known DEF Settled, MarkCompleting, OnlyThread, Shape, OwnStart, Call
<1>2. DOMAIN mid = ThreadFields /\ mid.goal = th.goal /\ mid.call = th.call /\ mid.ok = th.ok
    BY Known, Fields
<1> HIDE DEF mid
<1>3. Onward(new, mid, pending) /\ new.position = 0
    BY <1>1, <1>2, ScanOnward, OnwardPosition
<1>4. /\ ~Transferring(th) /\ ~Fronting(th) /\ ~Entered(th)
      /\ At(t, "admit") => Undecided(t, th)
    BY <1>1 DEF Transferring, Fronting, Entered, Placing, Undecided, OwnStart, At, Call
<1>5. /\ Apart(new) /\ ~Refusing(t, new) /\ ~Door(new) /\ new.call = th.call /\ new.goal = th.goal
      /\ ~Undecided(t, new)
    BY <1>1, <1>2, <1>3, OnwardApart DEF OwnStart
<1>6. At(t, "admit") => op[x].result \notin Done
    BY <1>4 DEF QueueInv, ValueInv, NotBefore
<1>7. Marked(x, "Completing", result)
    BY <1>1, Known, Fields DEF Marked, QueueInv, ValueInv, DataTypes
<1>8. /\ DOMAIN op' = Operations /\ \A o \in Operations : OpSteady(t, o)
      /\ \A o \in PopOps : NewStop(o) =>
           \/ op[o].result = "Stopped" /\ ~op[o].stop
           \/ o = x /\ result = "Stopped" /\ ~op[x].stop
    <2>1. \/ result = op[x].result
          \/ /\ op[x].result \notin Done /\ result \in Results \ Done
             /\ x = Call(t) /\ Undecided(t, th)
        BY <1>4, <1>6
    <2> HIDE DEF x
    <2>2. QED
        BY <1>1, <1>7, <2>1, MarkedSteady
<1>9. \A o \in PopOps : NewStop(o) =>
        \/ op[o].result = "Stopped" /\ ~op[o].stop
        \/ ClosedAndEmpty(t) /\ th.pc = "admit"
    BY <1>8 DEF At
<1>10. ThreadSteady(t, th, new) /\ Gated(t)
    <2>1. Gauge(th, new) /\ new.position \in Nat /\ new.goal # "cancel"
        BY <1>1, <1>3, <1>4, <1>5 DEF Gauge, Apart, OwnStart
    <2>2. QED
        BY <1>1, <1>4, <1>5, <1>9, <2>1, ApartSteady DEF NewStop
<1>11. QED
    BY <1>1, <1>8, <1>10, SteadyParts, SameTypes

LEMMA AdmitRefusedSteady ==
    ASSUME QueueInv, NEW t \in Threads, AdmitRefused(t) PROVE SteadyStep(t)
<1>1. /\ Refusal(t, Call(t)) \in Results \ Done
      /\ Refusal(t, Call(t)) = "Stopped" => ClosedAndEmpty(t)
    BY RefusalCases, NamesAssumption DEF AdmitRefused, Results, Errors, Done
<1>2. QED
    BY <1>1, SettledSteady DEF AdmitRefused, At, queueVars

LEMMA SettleSteady ==
    ASSUME QueueInv, NEW t \in Threads, Settle(t) PROVE SteadyStep(t)
BY SettledSteady DEF Settle, At

LEMMA AdmitReservedSteady ==
    ASSUME QueueInv, NEW t \in Threads, AdmitReserved(t) PROVE SteadyStep(t)
<1> DEFINE th == thread[t]
           new == thread'[t]
           x == Call(t)
<1>1. /\ th.pc = "admit" /\ OnlyThread(t) /\ OwnStart(t, th) /\ th.position \in Nat
      /\ UNCHANGED <<topology, storageVars, lifecycle, active, op, buffer, calls>>
      /\ Refusal(t, x) = None /\ th.call = x /\ x \in Operations /\ th.ok
    BY Known DEF AdmitReserved, At, OnlyThread, Shape, OwnStart, Call, Goto, Transfer
<1>2. /\ ~Transferring(th) /\ ~Fronting(th) /\ ~Entered(th) /\ Undecided(t, th)
    BY <1>1 DEF Transferring, Fronting, Entered, Placing, Undecided, OwnStart, Call
<1>3. /\ new.call = x /\ new.goal = th.goal /\ new.position \in Nat /\ new.ok = th.ok
      /\ \/ new.pc = "park"
         \/ new.pc = SideOf(x) /\ new.job = x /\ new.from = "reserved"
    <2>1. CASE HasOlder(x)
        <3>1. thread' = [thread EXCEPT ![t].pc = "park"]
            BY <2>1 DEF AdmitReserved, Goto
        <3>2. QED
            BY <1>1, <3>1, Known, Fields
    <2>2. CASE ~HasOlder(x)
        <3>1. thread' = [thread EXCEPT ![t].pc = SideOf(x), ![t].job = x, ![t].from = "reserved"]
            BY <2>2 DEF AdmitReserved, Transfer
        <3>2. QED
            BY <1>1, <3>1, Known, Fields
    <2>3. QED
        BY <2>1, <2>2
<1>4. MaySuspend(x)
    <2>1. CASE x \in PushOps
        <3>1. IsPush(x)
            BY <2>1 DEF IsPush
        <3>2. Lifecycle(t) = "Open" /\ op[x].result # "TooLarge"
            BY <1>1, <3>1, NotRefused
        <3>3. ~Refusing(t, th)
            BY <1>1, <3>2 DEF QueueInv, GateInv, NeverParked, NotOpen
        <3>4. QED
            BY <1>1, <2>1, <3>3 DEF Refusing, OwnStart
    <2>2. CASE x \in PopOps
        BY <2>2 DEF MaySuspend
    <2>3. QED
        BY <1>1, <2>1, <2>2 DEF Operations
<1>5. Placing(new) => new.pc = "push" /\ Fresh(new.job) /\ Lifecycle(t) = "Open"
    <2>1. ASSUME Placing(new) PROVE IsPush(x) /\ new.pc = "push" /\ new.job = x
        BY <1>3, <2>1 DEF Placing, SideOf
    <2>2. ASSUME IsPush(x) PROVE Fresh(x) /\ Lifecycle(t) = "Open"
        BY <1>1, <2>2, FreshCall, NotRefused
    <2>3. QED
        BY <2>1, <2>2
<1>6. ThreadSteady(t, th, new)
    <2>1. x \notin TryValues
        BY <1>1, NamesAssumption
    <2>2. QED
        BY <1>1, <1>2, <1>3, <1>5, <2>1 DEF ThreadSteady
<1>7. Gated(t)
    <2>1. Gauge(th, new) /\ ~Refusing(t, new) /\ ~Door(new)
        BY <1>1, <1>2, <1>3 DEF Gauge, Entered, Placing, Refusing, Door, SideOf
    <2>2. Opening(new) => Lifecycle(t) = "Open"
        BY <1>3, <1>5 DEF Opening, SideOf
    <2>3. QED
        BY <1>1, <1>3, <1>4, <2>1, <2>2 DEF Gated, OwnStart, SideOf
<1>8. QED
    BY <1>1, <1>6, <1>7, SameOpStep, SameTypes

LEMMA ParkSteady ==
    ASSUME QueueInv, NEW t \in Threads, Park(t) PROVE SteadyStep(t)
<1> DEFINE th == thread[t]
           new == thread'[t]
           x == Call(t)
<1>1. /\ th.pc = "park" /\ OnlyThread(t) /\ OwnStart(t, th) /\ th.ok
      /\ UNCHANGED <<topology, storageVars, lifecycle, active, buffer, calls>>
      /\ th.call = x /\ x \in Operations
      /\ op' = [op EXCEPT ![x].phase = "Pending"] /\ new = Scan(th, pending')
    BY Known DEF Park, At, OnlyThread, Shape, OwnStart, Call
<1>2. /\ ~Transferring(th) /\ ~Fronting(th) /\ ~Entered(th) /\ Undecided(t, th) /\ Reserving(th)
    BY <1>1 DEF Transferring, Fronting, Entered, Placing, Undecided, OwnStart, Call, Reserving
<1>3. Onward(new, th, pending') /\ new.position = 0
    BY <1>1, Known, ScanOnward, OnwardPosition
<1>4. /\ Apart(new) /\ ~Refusing(t, new) /\ ~Door(new) /\ new.call = th.call /\ new.goal = th.goal
      /\ ~Undecided(t, new)
    BY <1>1, <1>3, OnwardApart DEF OwnStart
<1>5. /\ op'[x].phase = "Pending" /\ op'[x].result = op[x].result /\ op'[x].stop = op[x].stop
      /\ op'[x].moved = op[x].moved /\ op'[x].budget = op[x].budget
      /\ op'[x].registered = op[x].registered /\ DOMAIN op'[x] = OpFields
      /\ DOMAIN op' = Operations /\ \A o \in Operations \ {x} : op'[o] = op[o]
    BY <1>1, Known, Fields
<1>6. op[x].result \notin Done /\ MaySuspend(x)
    BY <1>1, <1>2 DEF QueueInv, ValueInv, NotBefore, GateInv, NeverParked
<1>7. \A o \in Operations : OpSteady(t, o)
    BY <1>5, <1>6, Known DEF OpSteady, QueueInv, ValueInv, DataTypes, Phases
<1>8. \A o \in PopOps : op'[o].result = "Stopped" /\ ~op'[o].stop =>
                op[o].result = "Stopped" /\ ~op[o].stop
    BY <1>5 DEF Operations
<1>9. ThreadSteady(t, th, new) /\ Gated(t)
    <2>1. Gauge(th, new) /\ new.position \in Nat /\ new.goal # "cancel"
        BY <1>1, <1>2, <1>3, <1>4 DEF Gauge, Apart, OwnStart
    <2>2. QED
        BY <1>1, <1>2, <1>4, <1>8, <2>1, ApartSteady
<1>10. QED
    BY <1>1, <1>5, <1>7, <1>9, SteadyParts, SameTypes

(* A push that waits and has values in the ring is being served. *)
LEMMA AttendedPush ==
    ASSUME QueueInv, NEW x \in PushOps, op[x].phase = "Pending", Pushed(x) # 0
    PROVE  \E u \in Threads : Fronting(thread[u]) /\ thread[u].job = x
<1>0. x \in Operations
    BY DEF Operations
<1>1. CASE op[x].result = "Enqueued"
    BY <1>0, <1>1 DEF QueueInv, ValueInv, NotBefore, Done
<1>2. CASE op[x].result # "Enqueued"
    <2>1. PICK u \in Threads : Placing(thread[u]) /\ thread[u].job = x
        BY <1>2 DEF QueueInv, ValueInv, Placed
    <2>2. /\ Transferring(thread[u]) /\ thread[u].from \in {"fast", "poll", "reserved", "front"}
          /\ x # None /\ x \notin TryValues
        BY <1>0, <2>1, Known, NamesAssumption DEF Placing, Transferring, Jobs, Calls
    <2>3. ~Carrying(u, thread[u]) \/ Call(u) # x
        BY DEF QueueInv, BaseInv, CarriedPhase
    <2>4. thread[u].from # "poll"
        BY <2>1, <2>2, Known DEF Jobs
    <2>5. ASSUME thread[u].from \in {"fast", "reserved"} PROVE FALSE
        <3>1. thread[u].call = x /\ (OwnStart(u, thread[u]) \/ OwnTry(u, thread[u]))
            BY <2>1, <2>2, <2>5, Known DEF Jobs
        <3>2. thread[u].goal = "start"
            BY <2>2, <3>1 DEF OwnStart, OwnTry
        <3>3. QED
            BY <1>0, <2>2, <2>3, <2>5, <3>1, <3>2 DEF Carrying, Call
    <2>6. QED
        BY <2>1, <2>2, <2>4, <2>5 DEF Fronting
<1>3. QED
    BY <1>1, <1>2

(* ... and while the lock holder is elsewhere, none has. *)
LEMMA StillWaiting ==
    ASSUME QueueInv, NEW t \in Threads, Holding(thread[t]), ~Fronting(thread[t]), ~Transferring(thread[t]),
           NEW x \in PushOps, op[x].phase = "Pending"
    PROVE  Pushed(x) = 0
<1>1. \A u \in Threads : ~Fronting(thread[u])
    BY HolderAlone DEF QueueInv
<1>2. QED
    BY <1>1, AttendedPush

LEMMA WaiterFresh ==
    ASSUME QueueInv, NEW t \in Threads, Holding(thread[t]), ~Fronting(thread[t]), ~Transferring(thread[t]),
           NEW x \in PushOps, op[x].phase = "Pending", op'[x].result = op[x].result
    PROVE  Fresh(x)
<1>1. Pushed(x) = 0
    BY StillWaiting
<1>2. op[x].result \notin Done
    BY WaiterUndecided DEF Operations
<1>3. QED
    BY <1>1, <1>2 DEF Fresh, Done

LEMMA FrontSteady ==
    ASSUME QueueInv, NEW t \in Threads, NEW side \in Sides, Front(t, side) PROVE SteadyStep(t)
<1> DEFINE th == thread[t]
           new == thread'[t]
           x == Head(pending[side])
           refusal == Refusal(t, x)
<1>1. /\ th.pc = (IF side = "push" THEN "front.push" ELSE "front.pop") /\ OnlyThread(t)
      /\ th.position \in Nat
      /\ UNCHANGED <<topology, storageVars, lifecycle, active, buffer, calls>>
    BY Known DEF Front, At, OnlyThread, queueVars, Transfer
<1>2. /\ ~Transferring(th) /\ ~Fronting(th) /\ ~Entered(th) /\ Holding(th) /\ th.goal # "cancel"
      /\ ~(t \in Stoppable /\ th.pc # "idle")
    BY <1>1, Known DEF Transferring, Fronting, Entered, Placing, Holding, Locked, Served, Shape
<1>3. /\ x \in Operations /\ SideOf(x) = side /\ op[x].phase = "Pending"
    <2>1. pending[side] # << >>
        BY <1>1 DEF QueueInv, BaseInv, Heads, At, Sides
    <2>2. x \in Operations /\ SideOf(x) = side /\ ListedIn(pending[side], x)
        BY <2>1, PendingTypes DEF QueueInv
    <2>3. QED
        BY <2>2 DEF QueueInv, BaseInv, PendingPhase
<1>4. op[x].result \notin Done
    BY <1>2, <1>3, WaiterUndecided
<1>5. CASE refusal = None
    <2>1. thread' = [thread EXCEPT ![t].pc = SideOf(x), ![t].job = x, ![t].from = "front"] /\ op' = op
        BY <1>5 DEF Front, Transfer
    <2>2. /\ new.pc = side /\ new.job = x /\ new.from = "front" /\ new.call = th.call
          /\ new.goal = th.goal /\ new.position = th.position /\ new.ok = th.ok
        BY <1>3, <2>1, Known, Fields
    <2>3. Placing(new) => new.pc = "push" /\ Fresh(new.job) /\ Lifecycle(t) = "Open"
        <3>1. ASSUME Placing(new) PROVE IsPush(x) /\ new.pc = "push" /\ x \in PushOps
            BY <1>3, <2>2, <3>1, NamesAssumption DEF Placing, SideOf, Sides, IsPush
        <3>2. ASSUME x \in PushOps PROVE Fresh(x)
            BY <1>2, <1>3, <2>1, <3>2, WaiterFresh
        <3>3. ASSUME IsPush(x) PROVE Lifecycle(t) = "Open"
            BY <1>5, <3>3, NotRefused
        <3>4. QED
            BY <2>2, <3>1, <3>2, <3>3
    <2>4. Undecided(t, new) => Undecided(t, th)
        BY <1>1, <1>2, <2>2 DEF Undecided, Starting, Sides
    <2>5. ThreadSteady(t, th, new)
        BY <1>1, <1>2, <2>2, <2>3, <2>4 DEF ThreadSteady, Sides
    <2>6. Gated(t)
        <3>1. /\ Gauge(th, new) /\ ~Refusing(t, new) /\ ~Door(new) /\ ~Reserving(new)
              /\ new.pc # "sweep.all"
            BY <1>1, <1>2, <2>2 DEF Gauge, Entered, Placing, Refusing, Door, Sides, Reserving, Transferring
        <3>2. Opening(new) => Lifecycle(t) = "Open"
            BY <2>2, <2>3 DEF Opening, Sides
        <3>3. QED
            BY <1>1, <1>2, <2>1, <2>2, <3>1, <3>2 DEF Gated
    <2>7. QED
        BY <1>1, <2>1, <2>5, <2>6, SameOpStep, SameTypes
<1>6. CASE refusal # None
    <2>1. /\ thread' = [thread EXCEPT ![t].pc = "drop", ![t].job = x]
          /\ op' = [op EXCEPT ![x].result = refusal]
        BY <1>6 DEF Front
    <2>2. /\ new.pc = "drop" /\ new.job = x /\ new.call = th.call
          /\ new.goal = th.goal /\ new.position = th.position /\ new.ok = th.ok
        BY <2>1, Known, Fields
    <2>3. /\ Apart(new) /\ Gauge(th, new) /\ ~Door(new) /\ ~Refusing(t, new)
          /\ Undecided(t, new) => Undecided(t, th)
        BY <1>1, <1>2, <2>2 DEF Apart, Transferring, Reserving, Entered, Opening, Placing, Gauge,
           Refusing, Door, Undecided, Starting
    <2>4. refusal \in Results \ Done /\ (refusal = "Stopped" => ClosedAndEmpty(t))
        BY <1>6, RefusalCases, NamesAssumption DEF Results, Errors, Done
    <2>5. Marked(x, op[x].phase, refusal)
        <3> HIDE DEF x, refusal
        <3>1. QED
            BY <1>3, <2>1, Known, Fields DEF Marked, QueueInv, ValueInv, DataTypes
    <2>6. /\ DOMAIN op' = Operations /\ \A o \in Operations : OpSteady(t, o)
          /\ \A o \in PopOps : NewStop(o) =>
               \/ op[o].result = "Stopped" /\ ~op[o].stop
               \/ o = x /\ refusal = "Stopped" /\ ~op[x].stop
        <3> HIDE DEF x, refusal
        <3>1. QED
            BY <1>3, <1>4, <2>4, <2>5, MarkedSteady
    <2>7. ThreadSteady(t, th, new) /\ Gated(t)
        <3>1. \A o \in PopOps : NewStop(o) =>
                \/ op[o].result = "Stopped" /\ ~op[o].stop
                \/ ClosedAndEmpty(t) /\ th.pc \in {"admit", "front.push", "front.pop"}
            BY <1>1, <2>4, <2>6
        <3> HIDE DEF x, refusal
        <3>2. QED
            BY <1>1, <1>2, <2>2, <2>3, <3>1, ApartSteady DEF NewStop
    <2>8. QED
        BY <1>1, <2>6, <2>7, SteadyParts, SameTypes
<1>7. QED
    BY <1>5, <1>6

LEMMA DropSteady ==
    ASSUME QueueInv, NEW t \in Threads, Drop(t) PROVE SteadyStep(t)
<1> DEFINE th == thread[t]
           new == thread'[t]
           x == thread[t].job
           mid == [th EXCEPT !.progress = TRUE, !.done = Append(thread[t].done, x)]
<1>1. /\ th.pc = "drop" /\ OnlyThread(t) /\ x \in Operations
      /\ UNCHANGED <<topology, storageVars, lifecycle, active, buffer, calls>>
      /\ op' = [op EXCEPT ![x].phase = "Completing", ![x].result = op[x].result]
      /\ new = AfterFront(mid, SideOf(x), pending')
    BY Known DEF Drop, At, OnlyThread, MarkCompleting, Jobs
<1>2. DOMAIN mid = ThreadFields /\ mid.goal = th.goal /\ mid.call = th.call /\ mid.ok = th.ok
    BY Known, Fields
<1> HIDE DEF mid
<1>3. Onward(new, mid, pending') /\ new.position = 0
    BY <1>1, <1>2, AfterFrontOnward, OnwardPosition
<1>4. ~Transferring(th) /\ ~Entered(th) /\ th.goal # "cancel"
    BY <1>1, Known DEF Transferring, Entered, Placing, Shape, Served
<1>5. /\ Apart(new) /\ ~Refusing(t, new) /\ ~Door(new) /\ new.call = th.call /\ new.goal = th.goal
      /\ Undecided(t, new) => Undecided(t, th)
    <2>1. /\ Apart(new) /\ ~Refusing(t, new) /\ ~Door(new) /\ new.call = th.call /\ new.goal = th.goal
          /\ Undecided(t, new) => th.call \in Operations /\ th.goal = "start" /\ ~th.ok
        BY <1>2, <1>3, <1>4, OnwardApart, SMTT(30)
    <2>2. th.call \in Operations /\ th.goal = "start" /\ ~th.ok => Undecided(t, th)
        BY DEF Undecided
    <2>3. QED
        BY <2>1, <2>2
<1>6. Marked(x, "Completing", op[x].result)
    BY <1>1, Known, Fields DEF Marked, QueueInv, ValueInv, DataTypes
<1>7. /\ DOMAIN op' = Operations /\ \A o \in Operations : OpSteady(t, o)
      /\ \A o \in PopOps : NewStop(o) => op[o].result = "Stopped" /\ ~op[o].stop
    <2> HIDE DEF x
    <2>1. QED
        BY <1>1, <1>6, MarkedSteady
<1>8. ThreadSteady(t, th, new) /\ Gated(t)
    <2>1. Gauge(th, new) /\ new.position \in Nat /\ op'[x].phase # "Pending"
        BY <1>1, <1>3, <1>4, <1>5, <1>6 DEF Gauge, Apart, Marked
    <2>2. QED
        BY <1>1, <1>4, <1>5, <1>7, <2>1, ApartSteady DEF NewStop
<1>9. QED
    BY <1>1, <1>7, <1>8, SteadyParts, SameTypes

LEMMA SweepSteady ==
    ASSUME QueueInv, NEW t \in Threads, Sweep(t) PROVE SteadyStep(t)
<1> DEFINE th == thread[t]
           new == thread'[t]
<1>1. /\ th.pc = "sweep" /\ OnlyThread(t) /\ th.position \in Nat /\ th.goal # "cancel"
      /\ UNCHANGED <<topology, storageVars, lifecycle, active, op, buffer, calls>>
      /\ (new.pc = "sweep.all" /\ ClosedAndEmpty(t)) \/ new.pc = "unlock"
      /\ new.goal = th.goal /\ new.call = th.call /\ new.position \in Nat /\ new.ok = th.ok
    BY Known, Fields DEF Sweep, At, OnlyThread, queueVars, Goto, Shape, Served
<1>2. /\ ~Transferring(th) /\ ~Fronting(th) /\ Gauge(th, new) /\ ~Door(new) /\ ~Opening(new)
      /\ ~Reserving(new) /\ ~Refusing(t, new) /\ ~Placing(new)
      /\ Undecided(t, new) => Undecided(t, th)
    BY <1>1 DEF Transferring, Fronting, Gauge, Entered, Placing, Door, Opening, Reserving, Refusing,
       Undecided, Starting
<1>3. ThreadSteady(t, th, new) /\ Gated(t)
    BY <1>1, <1>2 DEF ThreadSteady, Gated
<1>4. QED
    BY <1>1, <1>3, SameOpStep, SameTypes

LEMMA ScanApart ==
    ASSUME NEW t, NEW th, NEW mid, DOMAIN mid = ThreadFields, NEW lists, NEW new, new = Scan(mid, lists),
           mid.call = th.call, mid.goal = th.goal, mid.ok = th.ok, th.goal # "cancel"
    PROVE  /\ Apart(new) /\ ~Refusing(t, new) /\ ~Door(new) /\ new.call = th.call /\ new.goal = th.goal
           /\ new.position \in Nat
           /\ Undecided(t, new) => Undecided(t, th)
<1>1. Onward(new, mid, lists) /\ new.position = 0
    BY ScanOnward, OnwardPosition
<1>2. /\ Apart(new) /\ ~Refusing(t, new) /\ ~Door(new) /\ new.call = th.call /\ new.goal = th.goal
      /\ Undecided(t, new) => th.call \in Operations /\ th.goal = "start" /\ ~th.ok
    BY <1>1, OnwardApart
<1>3. th.call \in Operations /\ th.goal = "start" /\ ~th.ok => Undecided(t, th)
    BY DEF Undecided
<1>4. QED
    BY <1>1, <1>2, <1>3

LEMMA DrainAllSteady ==
    ASSUME QueueInv, NEW t \in Threads, NEW sides \in SUBSET Sides, NEW result \in Errors \cup {"Stopped"},
           DrainAll(t, sides, result),
           (At(t, "sweep.all") /\ result = "Stopped") \/ (At(t, "fail") /\ result # "Stopped")
    PROVE  SteadyStep(t)
<1> DEFINE th == thread[t]
           new == thread'[t]
           drained(side) == IF side \in sides THEN pending[side] ELSE << >>
           all == drained("push") \o drained("pop")
           listed == th.done \o all
           mid == [th EXCEPT !.done = listed]
           ends == [th EXCEPT !.done = listed, !.pc = "unlock"]
<1>1. /\ th.pc \in {"sweep.all", "fail"} /\ OnlyThread(t) /\ th.position \in Nat /\ th.goal # "cancel"
      /\ UNCHANGED <<topology, storageVars, lifecycle, active, buffer, calls>>
      /\ new = IF "pop" \in sides THEN ends ELSE Scan(mid, pending')
      /\ op' = [x \in Operations |->
                IF ListedIn(all, x) THEN [op[x] EXCEPT !.phase = "Completing", !.result = result]
                             ELSE op[x]]
    <2>1. th.pc \in {"sweep.all", "fail"} /\ th.position \in Nat /\ th.goal # "cancel"
        BY Known DEF At, Shape, Served
    <2>2. /\ UNCHANGED <<topology, storageVars, lifecycle, active, buffer, calls>>
          /\ thread' = [thread EXCEPT ![t] = IF "pop" \in sides THEN ends ELSE Scan(mid, pending')]
          /\ op' = [x \in Operations |->
                IF ListedIn(all, x) THEN [op[x] EXCEPT !.phase = "Completing", !.result = result]
                             ELSE op[x]]
        BY DEF DrainAll, ListedIn
    <2> HIDE DEF mid, ends, all
    <2>3. QED
        BY <2>1, <2>2, Known DEF OnlyThread
<1>2. \A x : ListedIn(all, x) => x \in Operations /\ op[x].phase = "Pending"
    <2>1. /\ drained("push") \in Seq(Operations) /\ drained("pop") \in Seq(Operations)
          /\ \A side \in Sides : \A x : ListedIn(drained(side), x) => ListedIn(pending[side], x)
        BY PendingTypes, EmptySeq, ListedFew DEF QueueInv, Sides
    <2> HIDE DEF drained
    <2>2. \A x : ListedIn(all, x) <=> ListedIn(drained("push"), x) \/ ListedIn(drained("pop"), x)
        BY <2>1, ListedConcat
    <2> HIDE DEF all
    <2>3. QED
        BY <2>1, <2>2, PendingTypes DEF QueueInv, BaseInv, PendingPhase, Sides
<1> HIDE DEF all
<1>3. /\ DOMAIN mid = ThreadFields /\ mid.call = th.call /\ mid.goal = th.goal /\ mid.ok = th.ok
      /\ ends.pc = "unlock" /\ ends.call = th.call /\ ends.goal = th.goal /\ ends.ok = th.ok
      /\ ends.position = th.position
    BY Known, Fields
<1> HIDE DEF mid, ends
<1>4. /\ ~Transferring(th) /\ ~Fronting(th) /\ ~Entered(th) /\ Holding(th)
    BY <1>1 DEF Transferring, Fronting, Entered, Placing, Holding, Locked, Served
<1>5. /\ Apart(new) /\ ~Refusing(t, new) /\ ~Door(new) /\ new.call = th.call /\ new.goal = th.goal
      /\ new.position \in Nat
      /\ Undecided(t, new) => Undecided(t, th)
    <2>1. CASE "pop" \in sides
        <3>1. new = ends
            BY <1>1, <2>1
        <3>2. QED
            BY <1>1, <1>3, <3>1 DEF Apart, Transferring, Reserving, Entered, Opening, Placing, Refusing, Door,
               Undecided, Starting
    <2>2. CASE "pop" \notin sides
        <3>1. new = Scan(mid, pending') /\ th.goal # "cancel"
            BY <1>1, <2>2
        <3>2. QED
            BY <1>3, <3>1, ScanApart
    <2>3. QED
        BY <2>1, <2>2
<1>6. \A x \in Operations : ListedIn(all, x) => op[x].result \notin Done
    BY <1>2, <1>4, WaiterUndecided
<1>7. /\ DOMAIN op' = Operations
      /\ \A x \in Operations :
           IF ListedIn(all, x)
           THEN /\ DOMAIN op'[x] = OpFields /\ op'[x].phase = "Completing" /\ op'[x].result = result
                /\ op'[x].stop = op[x].stop /\ op'[x].moved = op[x].moved
                /\ op'[x].budget = op[x].budget /\ op'[x].registered = op[x].registered
           ELSE op'[x] = op[x]
    BY <1>1, Known, Fields
<1>8. \A o \in Operations : OpSteady(t, o)
    <2>1. result \in Results \ Done
        BY DEF Results, Errors, Done
    <2>2. QED
        BY <1>2, <1>6, <1>7, <2>1, Known DEF OpSteady, QueueInv, ValueInv, DataTypes, Phases
<1>9. \A o \in PopOps : op'[o].result = "Stopped" /\ ~op'[o].stop =>
             \/ op[o].result = "Stopped" /\ ~op[o].stop
             \/ th.pc = "sweep.all"
    BY <1>7 DEF Operations, At
<1>10. ThreadSteady(t, th, new) /\ Gated(t)
    BY <1>1, <1>4, <1>5, <1>9, ApartSteady DEF Gauge, Apart
<1>11. QED
    BY <1>1, <1>7, <1>8, <1>10, SteadyParts, SameTypes

LEMMA DrainingSteady ==
    ASSUME QueueInv, NEW t \in Threads, StopConsumers(t) \/ FailPending(t) PROVE SteadyStep(t)
<1>1. CASE StopConsumers(t)
    BY <1>1, DrainAllSteady DEF StopConsumers, Sides
<1>2. CASE FailPending(t)
    BY <1>2, DrainAllSteady DEF FailPending, Sides, Errors
<1>3. QED
    BY <1>1, <1>2

(* The lifecycle as a thread sees it through its delayed stores. *)
LifeOf(l, b) ==
    IF \E i \in 1 .. Len(b) : b[i].variable = "lifecycle"
    THEN b[CHOOSE i \in 1 .. Len(b) : b[i].variable = "lifecycle"].value ELSE l
ClosedBy(l, b) == l # "Open" \/ \E i \in 1 .. Len(b) : b[i].variable = "lifecycle"

LEMMA LifeOfClosed ==
    ASSUME NEW l, NEW b \in Seq(Stores) PROVE LifeOf(l, b) # "Open" <=> ClosedBy(l, b)
<1> DEFINE Late(i) == i \in 1 .. Len(b) /\ b[i].variable = "lifecycle"
<1>1. CASE \E i : Late(i)
    <2>1. PICK k : k = (CHOOSE i \in 1 .. Len(b) : b[i].variable = "lifecycle")
        OBVIOUS
    <2>2. Late(k)
        BY <1>1, <2>1
    <2>3. b[k] \in Stores
        BY <2>2, ElementOfSeq
    <2>4. b[k].value # "Open"
        BY <2>2, <2>3 DEF Stores
    <2>5. LifeOf(l, b) = b[k].value
        BY <1>1, <2>1 DEF LifeOf
    <2>6. ClosedBy(l, b)
        BY <1>1 DEF ClosedBy
    <2>7. QED
        BY <2>4, <2>5, <2>6
<1>2. CASE ~\E i : Late(i)
    BY <1>2 DEF LifeOf, ClosedBy
<1>3. QED
    BY <1>1, <1>2

LEMMA ClosedKept ==
    ASSUME QueueInv, \A u \in Threads : buffer'[u] \in Seq(Stores),
           \A u \in Threads : ClosedBy(lifecycle, buffer[u]) => ClosedBy(lifecycle', buffer'[u])
    PROVE  StaysClosed
<1>1. ASSUME NEW u \in Threads, NotOpen(u) PROVE NotOpen(u)'
    <2>1. NotOpen(u) <=> LifeOf(lifecycle, buffer[u]) # "Open"
        BY DEF NotOpen, Lifecycle, LifeOf
    <2>2. NotOpen(u)' <=> LifeOf(lifecycle', buffer'[u]) # "Open"
        BY DEF NotOpen, Lifecycle, LifeOf
    <2>3. buffer[u] \in Seq(Stores)
        BY DEF QueueInv, ValueInv, DataTypes
    <2>4. QED
        BY <1>1, <2>1, <2>2, <2>3, LifeOfClosed
<1>2. QED
    BY <1>1 DEF StaysClosed

LEMMA SetLifecycleSteady ==
    ASSUME QueueInv, NEW t \in Threads, SetLifecycle(t) PROVE SteadyStep(t)
<1> DEFINE th == thread[t]
           new == thread'[t]
           target == IF th.goal = "close" THEN "Closing" ELSE "Aborted"
           store == [variable |-> "lifecycle", value |-> target]
<1>1. /\ th.pc \in {"close", "abort"} /\ OnlyThread(t) /\ th.position \in Nat
      /\ th.goal \in {"close", "abort"}
      /\ UNCHANGED <<topology, storageVars, active, op, calls>>
      /\ new.pc \in {"unlock", "fail"} /\ new.goal = th.goal /\ new.call = th.call
      /\ new.position = th.position
    BY Known, Fields DEF SetLifecycle, At, OnlyThread, Goto, Shape
<1>2. \/ UNCHANGED <<lifecycle, buffer>>
      \/ lifecycle' = target /\ buffer' = buffer
      \/ /\ StoreBuffers /\ lifecycle' = lifecycle
         /\ buffer' = [buffer EXCEPT ![t] = Append(@, store)]
    BY DEF SetLifecycle, Delay
<1>3. SteadyTypes /\ StaysClosed
    <2>1. CASE UNCHANGED <<lifecycle, buffer>>
        BY <1>1, <2>1, SameTypes
    <2>2. CASE lifecycle' = target /\ buffer' = buffer
        <3>1. lifecycle' \in {"Closing", "Aborted"}
            BY <2>2
        <3>2. StaysClosed
            BY <2>2, <3>1, ClosedKept DEF ClosedBy, QueueInv, ValueInv, DataTypes
        <3>3. QED
            BY <1>1, <2>2, <3>1, <3>2 DEF SteadyTypes, QueueInv, ValueInv, DataTypes
    <2>3. CASE /\ StoreBuffers /\ lifecycle' = lifecycle
               /\ buffer' = [buffer EXCEPT ![t] = Append(@, store)]
        <3>1. store \in Stores
            BY DEF Stores
        <3> HIDE DEF store
        <3>2. /\ buffer[t] \in Seq(Stores) /\ Append(buffer[t], store) \in Seq(Stores)
              /\ \A i \in 1 .. Len(buffer[t]) : /\ i \in 1 .. Len(Append(buffer[t], store))
                                                /\ Append(buffer[t], store)[i] = buffer[t][i]
            BY <3>1, AppendProperties, LenProperties DEF QueueInv, ValueInv, DataTypes
        <3>3. /\ DOMAIN buffer' = Threads /\ buffer'[t] = Append(buffer[t], store)
              /\ \A u \in Threads \ {t} : buffer'[u] = buffer[u]
            BY <2>3 DEF QueueInv, ValueInv, DataTypes
        <3>4. \A u \in Threads : buffer'[u] \in Seq(Stores)
            BY <3>2, <3>3 DEF QueueInv, ValueInv, DataTypes
        <3>5. ASSUME NEW u \in Threads, ClosedBy(lifecycle, buffer[u])
              PROVE  ClosedBy(lifecycle', buffer'[u])
            <4>1. CASE u = t
                BY <2>3, <3>2, <3>3, <3>5, <4>1 DEF ClosedBy
            <4>2. CASE u # t
                BY <2>3, <3>3, <3>5, <4>2
            <4>3. QED
                BY <4>1, <4>2
        <3>6. StaysClosed
            BY <3>4, <3>5, ClosedKept
        <3>7. QED
            BY <1>1, <2>3, <3>3, <3>4, <3>6 DEF SteadyTypes, QueueInv, ValueInv, DataTypes
    <2>4. QED
        BY <1>2, <2>1, <2>2, <2>3
<1>4. /\ ~Transferring(th) /\ ~Fronting(th) /\ Gauge(th, new) /\ Apart(new) /\ ~Door(new)
      /\ ~Refusing(t, new) /\ ~Undecided(t, new)
    BY <1>1 DEF Transferring, Fronting, Gauge, Entered, Placing, Apart, Opening, Reserving, Door, Refusing,
       Undecided
<1>5. ThreadSteady(t, th, new) /\ Gated(t)
    BY <1>1, <1>4, ApartSteady
<1>6. QED
    BY <1>1, <1>3, <1>5, SameOpStep

LEMMA CancelOperationSteady ==
    ASSUME QueueInv, NEW t \in Threads, CancelOperation(t) PROVE SteadyStep(t)
<1> DEFINE th == thread[t]
           new == thread'[t]
           x == Call(t)
<1>1. /\ th.pc = "cancel" /\ OnlyThread(t) /\ th.position \in Nat /\ th.goal = "cancel"
      /\ x = th.call /\ x \in Operations
      /\ UNCHANGED <<topology, storageVars, lifecycle, active, buffer, calls>>
    BY Known, Names DEF CancelOperation, At, OnlyThread, Shape, Call, Goto
<1>2. /\ new.pc \in {"unlock", "mark"} /\ new.call = x /\ new.goal = "cancel" /\ new.position \in Nat
    BY <1>1, Known, Fields DEF CancelOperation, Goto
<1>3. /\ ~Transferring(th) /\ ~Fronting(th) /\ Gauge(th, new) /\ Apart(new) /\ ~Door(new)
      /\ ~Refusing(t, new) /\ (Undecided(t, new) => Undecided(t, th)) /\ Holding(th)
    BY <1>1, <1>2 DEF Transferring, Fronting, Gauge, Entered, Placing, Apart, Opening, Reserving, Door,
       Refusing, Undecided, Holding, Locked
<1>4. /\ DOMAIN op' = Operations /\ \A o \in Operations : OpSteady(t, o)
      /\ \A o \in PopOps : NewStop(o) => op[o].result = "Stopped" /\ ~op[o].stop
    <2>1. CASE Cancellable(x)
        <3>1. op' = [op EXCEPT ![x].phase = "Completing", ![x].result = "Stopped"]
            BY <2>1 DEF CancelOperation, MarkCompleting
        <3>2. Marked(x, "Completing", "Stopped")
            BY <1>1, <3>1, Known, Fields DEF Marked, QueueInv, ValueInv, DataTypes
        <3>3. op[x].phase = "Pending" /\ op[x].result \notin Done /\ op[x].stop
            BY <1>1, <1>3, <2>1, WaiterUndecided DEF Cancellable, QueueInv, GateInv, StopsAsked
        <3>4. QED
            BY <1>1, <3>2, <3>3, MarkedSteady DEF Results, Done
    <2>2. CASE ~Cancellable(x)
        <3>1. op' = op
            BY <2>2 DEF CancelOperation
        <3>2. QED
            BY <3>1, SameOpSteady DEF NewStop
    <2>3. QED
        BY <2>1, <2>2
<1>5. ThreadSteady(t, th, new) /\ Gated(t)
    BY <1>1, <1>2, <1>3, <1>4, ApartSteady DEF NewStop
<1>6. QED
    BY <1>1, <1>4, <1>5, SteadyParts, SameTypes

LEMMA MarkSteady ==
    ASSUME QueueInv, NEW t \in Threads, MarkStopRequested(t) PROVE SteadyStep(t)
<1> DEFINE th == thread[t]
           new == thread'[t]
           x == Call(t)
<1>1. /\ th.pc = "mark" /\ OnlyThread(t) /\ th.position \in Nat /\ th.goal = "cancel"
      /\ x = th.call /\ x \in Operations
      /\ UNCHANGED <<topology, storageVars, lifecycle, active, buffer, calls>>
      /\ op' = [op EXCEPT ![x].phase = "StopRequested"]
      /\ new.pc = "unlock" /\ new.call = x /\ new.goal = "cancel" /\ new.position \in Nat
    BY Known, Names, Fields DEF MarkStopRequested, At, OnlyThread, Shape, Call, Goto, queueVars
<1>2. /\ ~Transferring(th) /\ ~Fronting(th) /\ Gauge(th, new) /\ Apart(new) /\ ~Door(new)
      /\ ~Refusing(t, new) /\ (Undecided(t, new) => Undecided(t, th))
    BY <1>1 DEF Transferring, Fronting, Gauge, Entered, Placing, Apart, Opening, Reserving, Door,
       Refusing, Undecided
<1>3. /\ op'[x].phase = "StopRequested" /\ op'[x].result = op[x].result /\ op'[x].stop = op[x].stop
      /\ op'[x].moved = op[x].moved /\ op'[x].budget = op[x].budget
      /\ op'[x].registered = op[x].registered /\ DOMAIN op'[x] = OpFields
      /\ DOMAIN op' = Operations /\ \A o \in Operations \ {x} : op'[o] = op[o]
    BY <1>1, Known, Fields
<1>4. op[x].stop
    BY <1>1 DEF QueueInv, GateInv, StopsAsked
<1>5. \A o \in Operations : OpSteady(t, o)
    BY <1>3, <1>4, Known, ZenonT(40) DEF OpSteady, QueueInv, ValueInv, DataTypes, Phases
<1>6. \A o \in PopOps : op'[o].result = "Stopped" /\ ~op'[o].stop =>
                op[o].result = "Stopped" /\ ~op[o].stop
    BY <1>3 DEF Operations
<1>7. ThreadSteady(t, th, new) /\ Gated(t)
    BY <1>1, <1>2, <1>6, ApartSteady
<1>8. QED
    BY <1>1, <1>3, <1>5, <1>7, SteadyParts, SameTypes

(* Returning to the caller, from the lock or after a completion. *)
LEMMA ReturnSteady ==
    ASSUME QueueInv, NEW t \in Threads, OnlyThread(t), thread[t].pc \in {"unlock", "complete"},
           NEW mid, DOMAIN mid = ThreadFields, mid.call = thread[t].call, mid.goal = thread[t].goal,
           mid.ok = thread[t].ok, mid.position = thread[t].position, mid.pc = thread[t].pc,
           thread'[t] = Return(t, mid), active' = active,
           \A o \in PopOps : NewStop(o) => op[o].result = "Stopped" /\ ~op[o].stop
    PROVE  ThreadSteady(t, thread[t], thread'[t]) /\ Gated(t)
<1> DEFINE th == thread[t]
           new == thread'[t]
<1>1. /\ ~Transferring(th) /\ ~Fronting(th) /\ ~Entered(th)
    BY DEF Transferring, Fronting, Entered, Placing
<1>2. /\ Apart(new) /\ ~Refusing(t, new) /\ ~Door(new) /\ new.position \in Nat
      /\ \/ new = NewThread
         \/ /\ new.call = mid.call
            /\ new.goal = "cancel" => mid.goal = "cancel"
            /\ Undecided(t, new) => Undecided(t, mid)
    BY Known, ReturnApart
<1>3. Undecided(t, mid) => Undecided(t, th)
    BY DEF Undecided
<1>4. CASE new = NewThread
    BY <1>1, <1>4, IdleSteady DEF Gated, Gauge, NewStop
<1>5. CASE new # NewThread
    <2>1. Gauge(th, new)
        BY <1>1, <1>2 DEF Gauge, Apart
    <2>2. new.goal = "cancel" => th.goal = "cancel" /\ Call(t) \in Operations
        BY <1>2, <1>5, Known, Names DEF Shape, Call
    <2>3. QED
        BY <1>1, <1>2, <1>3, <1>5, <2>1, <2>2, ApartSteady DEF NewStop
<1>6. QED
    BY <1>4, <1>5

LEMMA UnlockSteady ==
    ASSUME QueueInv, NEW t \in Threads, Unlock(t) PROVE SteadyStep(t)
<1>1. /\ OnlyThread(t) /\ thread[t].pc = "unlock" /\ thread'[t] = Return(t, thread[t])
      /\ UNCHANGED <<topology, storageVars, lifecycle, active, op, buffer, calls>>
    BY Known DEF Unlock, At, OnlyThread
<1>2. ThreadSteady(t, thread[t], thread'[t]) /\ Gated(t)
    BY <1>1, Known, ReturnSteady DEF NewStop
<1>3. QED
    BY <1>1, <1>2, SameOpStep, SameTypes

LEMMA CompleteSteady ==
    ASSUME QueueInv, NEW t \in Threads, Complete(t) PROVE SteadyStep(t)
<1> DEFINE th == thread[t]
           x == Head(th.done)
           mid == [th EXCEPT !.done = Tail(thread[t].done)]
<1>1. /\ OnlyThread(t) /\ th.pc = "complete" /\ thread'[t] = Return(t, mid)
      /\ UNCHANGED <<topology, storageVars, lifecycle, active, buffer, calls>>
      /\ op' = [op EXCEPT ![x].phase = "Completed", ![x].result = op[x].result,
                          ![x].registered = FALSE, ![x].signals = @ + 1]
    BY Known DEF Complete, At, OnlyThread, queueVars, Signalled, Signal
<1>2. /\ DOMAIN mid = ThreadFields /\ mid.call = th.call /\ mid.goal = th.goal
      /\ mid.ok = th.ok /\ mid.position = th.position /\ mid.pc = th.pc
    BY Known, Fields
<1> HIDE DEF mid
<1>3. x \in Operations
    <2>1. th.done \in Seq(Operations) /\ th.done # << >>
        BY <1>1, Known DEF Shape
    <2>2. QED
        BY <2>1, HeadTailProperties
<1> HIDE DEF x
<1>4. Marked(x, "Completed", op[x].result)
    BY <1>1, <1>3, Known, Fields, ZenonT(40) DEF Marked, QueueInv, ValueInv, DataTypes
<1>5. /\ DOMAIN op' = Operations /\ \A o \in Operations : OpSteady(t, o)
      /\ \A o \in PopOps : NewStop(o) => op[o].result = "Stopped" /\ ~op[o].stop
    BY <1>3, <1>4, MarkedSteady
<1>6. ThreadSteady(t, th, thread'[t]) /\ Gated(t)
    BY <1>1, <1>2, <1>5, ReturnSteady
<1>7. QED
    BY <1>1, <1>5, <1>6, SteadyParts, SameTypes

LEMMA LockSteady ==
    ASSUME QueueInv, NEW t \in Threads, Lock(t) PROVE SteadyStep(t)
<1> DEFINE th == thread[t]
           new == thread'[t]
<1>1. /\ th.pc = "lock" /\ OnlyThread(t) /\ th.position \in Nat
      /\ UNCHANGED <<topology, storageVars, lifecycle, active, op, buffer, calls>>
      /\ new = IF th.goal = "service" THEN Scan(th, pending)
               ELSE [th EXCEPT !.pc = Entrance[th.goal]]
    BY Known DEF Lock, At, OnlyThread
<1>2. ~Transferring(th) /\ ~Fronting(th) /\ ~Entered(th)
    BY <1>1 DEF Transferring, Fronting, Entered, Placing
<1>3. CASE th.goal = "service"
    <2>1. Onward(new, th, pending) /\ new.position = 0
        BY <1>1, <1>3, Known, ScanOnward, OnwardPosition
    <2>2. /\ Apart(new) /\ ~Refusing(t, new) /\ ~Door(new) /\ new.call = th.call /\ new.goal = th.goal
          /\ ~Undecided(t, new)
        BY <1>3, <2>1, OnwardApart
    <2>3. ThreadSteady(t, th, new) /\ Gated(t)
        BY <1>1, <1>2, <1>3, <2>1, <2>2, ApartSteady DEF Gauge, Apart
    <2>4. QED
        BY <1>1, <2>3, SameOpStep, SameTypes
<1>4. CASE th.goal # "service"
    <2>1. th.goal \in {"start", "close", "abort", "cancel"}
        BY <1>1, <1>4, Known DEF Shape
    <2>2. new = [th EXCEPT !.pc = Entrance[th.goal]]
        BY <1>1, <1>4
    <2>3. new.pc = Entrance[th.goal] /\ new.goal = th.goal /\ new.call = th.call /\ new.ok = th.ok
          /\ new.position = th.position
        BY <2>2, Known, Fields
    <2>4. /\ Entrance[th.goal] \in {"admit", "close", "abort", "cancel"}
          /\ Entrance[th.goal] = "admit" => th.goal = "start"
        BY <2>1 DEF Entrance
    <2>5. /\ Apart(new) /\ ~Door(new) /\ Gauge(th, new)
          /\ Refusing(t, new) => Refusing(t, th)
          /\ Undecided(t, new) => Undecided(t, th)
        BY <1>1, <1>2, <2>3, <2>4 DEF Apart, Transferring, Reserving, Entered, Opening, Placing, Door, Gauge,
           Refusing, Undecided
    <2>6. new.goal = "cancel" => th.goal = "cancel" /\ Call(t) \in Operations
        BY <2>3, Known, Names, ZenonT(40) DEF Shape, Call
    <2>7. ThreadSteady(t, th, new) /\ Gated(t)
        BY <1>1, <1>2, <2>3, <2>5, <2>6, ApartSteady
    <2>8. QED
        BY <1>1, <2>7, SameOpStep, SameTypes
<1>5. QED
    BY <1>3, <1>4

LEMMA LockedStepSteady ==
    ASSUME QueueInv, NEW t \in Threads, LockedStep(t) PROVE SteadyStep(t)
BY AdmitStoppedSteady, AdmitRefusedSteady, AdmitReservedSteady, SettleSteady, ParkSteady, FrontSteady,
   DropSteady, SweepSteady, DrainingSteady, SetLifecycleSteady, CancelOperationSteady, MarkSteady,
   UnlockSteady DEF LockedStep, Sides
-----------------------------------------------------------------------------
(* Steps into a call.                                                      *)
LEMMA IdleAt ==
    ASSUME QueueInv, NEW t \in Threads, At(t, "idle")
    PROVE  /\ thread[t] = NewThread /\ ~Transferring(thread[t]) /\ ~Fronting(thread[t])
           /\ ~Entered(thread[t]) /\ thread[t].call = None
BY Known, IdleThread DEF At, Shape, Transferring, Fronting, Entered, Placing

LEMMA TryPushSteady ==
    ASSUME QueueInv, NEW p \in Producers, NEW v \in TryValues, TryPush(p, v) PROVE SteadyStep(p)
<1> DEFINE th == thread[p]
           new == thread'[p]
<1>1. /\ p \in Threads /\ OnlyThread(p) /\ At(p, "idle")
      /\ UNCHANGED <<topology, storageVars, lifecycle, op, buffer, calls>> /\ active' = active + 1
      /\ new = [NewThread EXCEPT !.pc = "enter", !.goal = "service", !.call = v]
    BY Known, Names DEF TryPush, OnlyThread
<1>2. /\ new.pc = "enter" /\ new.goal = "service" /\ new.call = v /\ new.position = 0
    BY <1>1, IdleThread, Fields DEF ThreadFields
<1>3. Pushed(v) = 0 /\ \A u \in Threads : Call(u) # v
    <2>1. {i \in 1 .. Len(log) : log[i][1] = v} = {}
        BY DEF TryPush, Committed
    <2>2. QED
        BY <2>1, FS_EmptySet DEF Pushed, TryPush
<1>4. v \notin Operations /\ IsPush(v)
    BY NamesAssumption DEF IsPush
<1>5. ThreadSteady(p, th, new)
    BY <1>1, <1>2, <1>3, <1>4, IdleAt DEF ThreadSteady, Undecided, Placing
<1>6. Gated(p)
    BY <1>1, <1>2, <1>4, IdleAt DEF Gated, Gauge, Entered, Refusing, Reserving, Transferring, Door, Opening,
       Placing
<1>7. QED
    BY <1>1, <1>5, <1>6, SameOpStep, SameTypes

LEMMA TryPopSteady ==
    ASSUME QueueInv, NEW c \in Consumers, TryPop(c) PROVE SteadyStep(c)
<1> DEFINE th == thread[c]
           new == thread'[c]
<1>1. /\ c \in Threads /\ OnlyThread(c) /\ At(c, "idle")
      /\ UNCHANGED <<topology, storageVars, lifecycle, active, op, buffer, calls>>
      /\ new = [NewThread EXCEPT !.pc = "poll", !.goal = "service"]
    BY Known, Names DEF TryPop, OnlyThread, queueVars
<1>2. /\ new.pc = "poll" /\ new.goal = "service" /\ new.call = None /\ new.position = 0
    BY <1>1, IdleThread, Fields DEF ThreadFields
<1>3. Apart(new) /\ ~Refusing(c, new) /\ ~Door(new) /\ ~Undecided(c, new)
    BY <1>2 DEF Apart, Transferring, Reserving, Entered, Opening, Placing, Refusing, Door, Undecided
<1>4. ThreadSteady(c, th, new) /\ Gated(c)
    <2>1. new.call = th.call /\ new.goal # "cancel" /\ ~Entered(th) /\ ~Transferring(th) /\ ~Fronting(th)
        BY <1>1, <1>2, IdleAt
    <2>2. Gauge(th, new)
        BY <1>1, <1>3, <2>1 DEF Gauge, Apart
    <2>3. new.position \in Nat
        BY <1>2
    <2>4. QED
        BY <1>1, <1>3, <2>1, <2>2, <2>3, ApartSteady
<1>5. QED
    BY <1>1, <1>4, SameOpStep, SameTypes

LEMMA StartSteady ==
    ASSUME QueueInv, NEW t \in Producers \cup Consumers, NEW o \in Operations, Start(t, o)
    PROVE  SteadyStep(t)
<1> DEFINE th == thread[t]
           new == thread'[t]
<1>1. /\ t \in Threads /\ OnlyThread(t) /\ At(t, "idle") /\ op[o].phase = "Constructed"
      /\ UNCHANGED <<topology, storageVars, lifecycle, active, buffer>>
      /\ calls' = [calls EXCEPT ![t] = Append(@, o)]
      /\ op' = [op EXCEPT ![o].phase = "Starting"]
      /\ new = [NewThread EXCEPT !.call = o, !.goal = "start", !.ok = TRUE,
                  !.pc = IF o \in Stoppable THEN "token" ELSE "admit.fast"]
    BY Known, Names DEF Start, OnlyThread, queueVars
<1>2. /\ new.pc \in {"token", "admit.fast"} /\ new.goal = "start" /\ new.call = o /\ new.position = 0
    BY <1>1, IdleThread, Fields DEF ThreadFields
<1>3. /\ op'[o].phase = "Starting" /\ op'[o].result = op[o].result /\ op'[o].stop = op[o].stop
      /\ op'[o].moved = op[o].moved /\ op'[o].budget = op[o].budget
      /\ op'[o].registered = op[o].registered /\ DOMAIN op'[o] = OpFields
      /\ DOMAIN op' = Operations /\ \A x \in Operations \ {o} : op'[x] = op[x]
    BY <1>1, Known, Fields
<1>4. ASSUME NEW x \in Operations PROVE OpSteady(t, x)
    <2>1. /\ op[x].phase \in Phases /\ op[x].budget \in Nat /\ op[x].stop \in BOOLEAN
          /\ op[x].registered \in BOOLEAN /\ DOMAIN op[x] = OpFields /\ "Starting" \in Phases
        <3>1. DOMAIN op[x] = OpFields
            BY <1>1, Known
        <3>2. QED
            BY <3>1 DEF QueueInv, ValueInv, DataTypes, Phases
    <2>2. CASE x = o
        BY <1>3, <2>1, <2>2 DEF OpSteady
    <2>3. CASE x # o
        BY <1>3, <2>1, <2>3 DEF OpSteady
    <2>4. QED
        BY <2>2, <2>3
<1>5. \A x \in PopOps : op'[x].result = "Stopped" /\ ~op'[x].stop =>
                op[x].result = "Stopped" /\ ~op[x].stop
    BY <1>3 DEF Operations
<1>6. op'[o].result \notin Done
    BY <1>1, <1>3 DEF QueueInv, ValueInv, NotBefore
<1>7. o \notin TryValues /\ o # None
    BY NamesAssumption DEF Calls
<1>8. ThreadSteady(t, th, new)
    BY <1>1, <1>2, <1>6, <1>7, IdleAt DEF ThreadSteady, Placing
<1>9. Gated(t)
    BY <1>1, <1>2, <1>5, IdleAt DEF Gated, Gauge, Entered, Refusing, Reserving, Transferring, Door, Opening,
       Placing
<1>10. SteadyTypes /\ StaysClosed
    <2>1. o \in Calls \cup Elements
        BY DEF Calls
    <2>2. QED
        BY <1>1, <2>1, SameTypes
<1>11. QED
    BY <1>1, <1>3, <1>4, <1>8, <1>9, <1>10, SteadyParts

LEMMA EndQueueSteady ==
    ASSUME QueueInv, NEW k \in Controllers, NEW goal \in {"close", "abort"}, EndQueue(k, goal)
    PROVE  SteadyStep(k)
<1> DEFINE th == thread[k]
           new == thread'[k]
<1>1. /\ k \in Threads /\ OnlyThread(k) /\ At(k, "idle")
      /\ UNCHANGED <<topology, storageVars, lifecycle, active, op, buffer, calls>>
      /\ new = [NewThread EXCEPT !.pc = "lock", !.goal = goal]
    BY Known, Names DEF EndQueue, OnlyThread, queueVars
<1>2. /\ new.pc = "lock" /\ new.goal = goal /\ new.call = None /\ new.position = 0
    BY <1>1, IdleThread, Fields DEF ThreadFields
<1>3. Apart(new) /\ ~Refusing(k, new) /\ ~Door(new) /\ ~Undecided(k, new)
    BY <1>2 DEF Apart, Transferring, Reserving, Entered, Opening, Placing, Refusing, Door, Undecided
<1>4. ThreadSteady(k, th, new) /\ Gated(k)
    <2>1. new.call = th.call /\ new.goal # "cancel" /\ ~Entered(th) /\ ~Transferring(th) /\ ~Fronting(th)
        BY <1>1, <1>2, IdleAt
    <2>2. Gauge(th, new)
        BY <1>1, <1>3, <2>1 DEF Gauge, Apart
    <2>3. new.position \in Nat
        BY <1>2
    <2>4. QED
        BY <1>1, <1>3, <2>1, <2>2, <2>3, ApartSteady
<1>5. QED
    BY <1>1, <1>4, SameOpStep, SameTypes

LEMMA RequestStopSteady ==
    ASSUME QueueInv, NEW x \in Stoppable, RequestStop(x) PROVE SteadyStep(x)
<1> DEFINE th == thread[x]
           new == thread'[x]
<1>1. /\ x \in Threads /\ x \in Operations /\ OnlyThread(x) /\ At(x, "idle")
      /\ UNCHANGED <<topology, storageVars, lifecycle, active, buffer, calls>>
      /\ op' = [op EXCEPT ![x].stop = TRUE]
    BY Known, Names DEF RequestStop, OnlyThread, queueVars
<1>2. /\ op'[x].phase = op[x].phase /\ op'[x].result = op[x].result /\ op'[x].stop = TRUE
      /\ op'[x].moved = op[x].moved /\ op'[x].budget = op[x].budget
      /\ op'[x].registered = op[x].registered /\ DOMAIN op'[x] = OpFields
      /\ DOMAIN op' = Operations /\ \A o \in Operations \ {x} : op'[o] = op[o]
    BY <1>1, Known, Fields
<1>3. ASSUME NEW o \in Operations PROVE OpSteady(x, o)
    <2>1. /\ op[o].phase \in Phases /\ op[o].budget \in Nat /\ op[o].stop \in BOOLEAN
          /\ op[o].registered \in BOOLEAN /\ DOMAIN op[o] = OpFields
        <3>1. DOMAIN op[o] = OpFields
            BY <1>1, Known
        <3>2. QED
            BY <3>1 DEF QueueInv, ValueInv, DataTypes, Phases
    <2>2. CASE o = x
        BY <1>2, <2>1, <2>2 DEF OpSteady
    <2>3. CASE o # x
        BY <1>2, <2>1, <2>3 DEF OpSteady
    <2>4. QED
        BY <2>2, <2>3
<1>4. \A o \in PopOps : op'[o].result = "Stopped" /\ ~op'[o].stop =>
                op[o].result = "Stopped" /\ ~op[o].stop
    BY <1>2 DEF Operations
<1>5. /\ new.pc \in {"idle", "lock"} /\ new.position \in Nat /\ new.call \notin TryValues
      /\ \/ new = NewThread
         \/ new.goal = "cancel" /\ new.call = x
    <2>1. CASE op[x].registered
        <3>1. new = [NewThread EXCEPT !.pc = "lock", !.goal = "cancel", !.call = x]
            BY <1>1, <2>1, Known DEF RequestStop
        <3>2. new.pc = "lock" /\ new.goal = "cancel" /\ new.call = x /\ new.position = 0
            BY <3>1, IdleThread, Fields DEF ThreadFields
        <3>3. QED
            BY <1>1, <3>2, NamesAssumption
    <2>2. CASE ~op[x].registered
        <3>1. new = NewThread
            BY <1>1, <2>2, IdleAt DEF RequestStop
        <3>2. QED
            BY <3>1, IdleThread, NamesAssumption DEF Calls
    <2>3. QED
        BY <2>1, <2>2
<1>6. ThreadSteady(x, th, new) /\ Gated(x)
    <2>1. CASE new = NewThread
        BY <1>1, <1>4, <2>1, IdleAt, IdleSteady DEF Gated, Gauge
    <2>2. CASE new.goal = "cancel" /\ new.call = x
        <3>1. ~Undecided(x, new) /\ ~Placing(new)
            BY <1>5, <2>2 DEF Undecided, Placing
        <3>2. ThreadSteady(x, th, new)
            BY <1>1, <1>5, <3>1, IdleAt DEF ThreadSteady
        <3>3. QED
            BY <1>1, <1>2, <1>4, <1>5, <2>2, <3>2, IdleAt DEF Gated, Gauge, Entered, Refusing, Reserving,
               Transferring, Door, Opening, Placing
    <2>3. QED
        BY <1>5, <2>1, <2>2
<1>7. QED
    BY <1>1, <1>2, <1>3, <1>6, SteadyParts, SameTypes

LEMMA NextSteady ==
    ASSUME QueueInv, Next,
           ~\E t \in Threads : TransferStep(t) \/ Flush(t)
    PROVE  \E t \in Threads : SteadyStep(t)
<1>1. ASSUME NEW t \in Producers \cup Consumers, Begin(t) PROVE SteadyStep(t)
    BY <1>1, TryPushSteady, TryPopSteady, StartSteady DEF Begin
<1>2. ASSUME NEW k \in Controllers, Close(k) \/ Abort(k) PROVE SteadyStep(k)
    BY <1>2, EndQueueSteady DEF Close, Abort
<1>3. ASSUME NEW t \in Threads, CallStep(t) \/ Lock(t) \/ LockedStep(t) \/ Complete(t)
      PROVE  SteadyStep(t)
    BY <1>3, CallStepSteady, LockSteady, LockedStepSteady, CompleteSteady
<1>4. QED
    BY <1>1, <1>2, <1>3, RequestStopSteady, Names DEF Next
-----------------------------------------------------------------------------
(* What the gates keep: for any step of one thread, a transfer included.   *)
GateOps(t) ==
    /\ DOMAIN op' = Operations
    /\ \A o \in Operations :
         /\ op[o].stop => op'[o].stop
         /\ op'[o].phase = "Pending" =>
              op[o].phase = "Pending" \/ (o \in PushOps => MaySuspend(o))
         /\ op'[o].phase = "StopRequested" => op[o].phase = "StopRequested" \/ op[o].stop
    /\ \A u \in Threads \ {t} :
         Refusing(u, thread[u]) => op'[Call(u)].result = op[Call(u)].result

LEMMA RefusingCarries ==
    ASSUME NEW t, NEW th, Refusing(t, th)
    PROVE  Carrying(t, th) /\ th.call \in Operations
BY DEF Refusing, Carrying, Operations, Inside

LEMMA GatesKept ==
    ASSUME QueueInv, NEW t \in Threads, OnlyThread(t), Gated(t), GateOps(t), StaysClosed
    PROVE  GateInv'
<1> USE DEF QueueInv, GateInv
<1>1. PushesPass'
    BY DEF PushesPass, Gated, OnlyThread, Call
<1>2. NeverParked'
    <2>1. ASSUME NEW u \in Threads, Refusing(u, thread'[u])
          PROVE  NotOpen(u)' \/ op'[thread'[u].call].result = "TooLarge"
        <3>1. CASE u # t
            BY <2>1, <3>1 DEF NeverParked, OnlyThread, GateOps, StaysClosed, Call
        <3>2. CASE u = t
            BY <2>1, <3>2 DEF NeverParked, Gated, StaysClosed
        <3>3. QED
            BY <3>1, <3>2
    <2>2. ASSUME NEW u \in Threads, Reserving(thread'[u]) PROVE MaySuspend(thread'[u].call)
        BY <2>2 DEF NeverParked, OnlyThread, Gated
    <2>3. ASSUME NEW x \in PushOps, op'[x].phase = "Pending" PROVE MaySuspend(x)
        BY <2>3 DEF NeverParked, GateOps, Operations
    <2>4. QED
        BY <2>1, <2>2, <2>3 DEF NeverParked
<1>3. Insiders'
    <2> DEFINE S == {u \in Threads : Entered(thread[u])}
               T == {u \in Threads : Entered(thread'[u])}
    <2>1. IsFiniteSet(S) /\ active = Cardinality(S)
        BY FiniteAssumption, FS_Subset DEF Insiders
    <2>2. CASE Entered(thread'[t]) <=> Entered(thread[t])
        <3>1. T = S
            BY <2>2 DEF OnlyThread
        <3>2. active' = active
            BY <2>2 DEF Gated, Gauge
        <3>3. QED
            BY <2>1, <3>1, <3>2 DEF Insiders
    <2>3. CASE Entered(thread'[t]) /\ ~Entered(thread[t])
        <3>1. T = S \cup {t} /\ t \notin S
            BY <2>3 DEF OnlyThread
        <3>2. active' = active + 1
            BY <2>3 DEF Gated, Gauge
        <3>3. Cardinality(T) = Cardinality(S) + 1
            BY <2>1, <3>1, FS_AddElement
        <3>4. QED
            BY <2>1, <3>2, <3>3 DEF Insiders
    <2>4. CASE ~Entered(thread'[t]) /\ Entered(thread[t])
        <3>1. T = S \ {t} /\ t \in S
            BY <2>4 DEF OnlyThread
        <3>2. active' = active - 1
            BY <2>4 DEF Gated, Gauge
        <3>3. Cardinality(T) = Cardinality(S) - 1
            BY <2>1, <3>1, FS_RemoveElement
        <3>4. QED
            BY <2>1, <3>2, <3>3 DEF Insiders
    <2>5. QED
        BY <2>2, <2>3, <2>4
<1>4. StopsAsked'
    <2>1. ASSUME NEW u \in Threads, thread'[u].goal = "cancel" PROVE op'[thread'[u].call].stop
        <3>1. CASE u # t
            <4>1. thread[u].goal = "cancel" /\ thread'[u].call = thread[u].call
                BY <2>1, <3>1 DEF OnlyThread
            <4>2. thread[u].call \in Operations
                BY <4>1, Known, Names DEF Shape
            <4>3. QED
                BY <4>1, <4>2 DEF StopsAsked, GateOps, Call
        <3>2. CASE u = t
            BY <2>1, <3>2 DEF StopsAsked, Gated, GateOps, Call
        <3>3. QED
            BY <3>1, <3>2
    <2>2. ASSUME NEW o \in Operations, op'[o].phase = "StopRequested" PROVE op'[o].stop
        BY <2>2 DEF StopsAsked, GateOps
    <2>3. QED
        BY <2>1, <2>2 DEF StopsAsked, Call
<1>5. QED
    BY <1>1, <1>2, <1>3, <1>4

LEMMA SteadyGates ==
    ASSUME QueueInv, NEW t \in Threads, SteadyStep(t) PROVE GateInv'
<1>1. ASSUME NEW u \in Threads \ {t}, Refusing(u, thread[u])
      PROVE  op'[Call(u)].result = op[Call(u)].result
    <2>1. Carrying(u, thread[u]) /\ Call(u) \in Operations
        BY <1>1, RefusingCarries DEF Call
    <2>2. op[Call(u)].phase \in {"Starting", "StopRequested"}
        BY <2>1 DEF QueueInv, BaseInv, CarriedPhase
    <2>3. ASSUME Call(u) = Call(t), Undecided(t, thread[t]) PROVE FALSE
        <3>1. Carrying(t, thread[t])
            BY <2>3 DEF Undecided, Carrying, Inside
        <3>2. QED
            BY <1>1, <2>1, <2>3, <3>1 DEF QueueInv, BaseInv, CarriedOnce
    <2>4. QED
        BY <2>1, <2>2, <2>3 DEF SteadyStep, Steady, OpSteady
<1>2. GateOps(t)
    BY <1>1 DEF GateOps, SteadyStep, Steady, OpSteady
<1>3. QED
    BY <1>2, GatesKept DEF SteadyStep, Steady
-----------------------------------------------------------------------------
(* A delayed store that becomes visible.                                   *)
LEMMA FlushShown ==
    ASSUME QueueInv, NEW t \in Threads, Flush(t)
    PROVE  /\ UNCHANGED <<topology, log, active, op, thread, calls>> /\ freed \subseteq freed'
           /\ [StorageNext]_storageVars /\ lifecycle' \in {"Open", "Closing", "Aborted"}
           /\ DOMAIN buffer' = Threads /\ \A u \in Threads : buffer'[u] \in Seq(Stores)
           /\ StaysClosed
<1> DEFINE b == buffer[t]
           store == Head(b)
<1>1. /\ UNCHANGED <<topology, active, op, thread, calls>> /\ b # << >>
      /\ buffer' = [buffer EXCEPT ![t] = Tail(b)]
      /\ \/ /\ store.variable = "lifecycle" /\ lifecycle' = store.value
            /\ UNCHANGED storageVars
         \/ /\ store.variable # "lifecycle" /\ Free(store.value) /\ lifecycle' = lifecycle
    BY DEF Flush, queueVars
<1>2. /\ \A u \in Threads : buffer[u] \in Seq(Stores)
      /\ DOMAIN buffer = Threads /\ lifecycle \in {"Open", "Closing", "Aborted"}
    BY DEF QueueInv, ValueInv, DataTypes
<1>3. /\ b \in Seq(Stores) /\ store = b[1] /\ Tail(b) \in Seq(Stores) /\ Len(b) \in Nat \ {0}
      /\ Len(Tail(b)) = Len(b) - 1 /\ \A i \in 1 .. Len(Tail(b)) : Tail(b)[i] = b[i + 1]
    BY <1>1, <1>2, HeadTailProperties, EmptySeq
<1>4. store \in Stores
    BY <1>3, ElementOfSeq
<1>5. /\ buffer'[t] = Tail(b) /\ DOMAIN buffer' = Threads
      /\ \A u \in Threads \ {t} : buffer'[u] = buffer[u]
    BY <1>1, <1>2
<1>6. lifecycle' \in {"Open", "Closing", "Aborted"}
    BY <1>1, <1>2, <1>4 DEF Stores
<1>7. UNCHANGED log /\ freed \subseteq freed' /\ [StorageNext]_storageVars
    <2>1. CASE UNCHANGED storageVars
        BY <2>1 DEF storageVars
    <2>2. CASE Free(store.value)
        <3>1. store.value \in 0 .. Claimed - 1
            BY <2>2 DEF Free, QueueInv, ValueInv, IInv, StorageTypeOK
        <3>2. QED
            BY <2>2, <3>1 DEF StorageNext, Free
    <2>3. QED
        BY <1>1, <2>1, <2>2
<1>8. StaysClosed
    <2>1. ASSUME NEW u \in Threads, ClosedBy(lifecycle, buffer[u])
          PROVE  ClosedBy(lifecycle', buffer'[u])
        <3>1. CASE store.variable = "lifecycle"
            <4>1. lifecycle' # "Open"
                BY <1>1, <1>4, <3>1 DEF Stores
            <4>2. QED
                BY <4>1 DEF ClosedBy
        <3>2. CASE store.variable # "lifecycle" /\ u # t
            BY <1>1, <1>5, <2>1, <3>2 DEF ClosedBy
        <3>3. CASE store.variable # "lifecycle" /\ u = t
            <4>1. lifecycle' = lifecycle
                BY <1>1, <3>3
            <4>2. CASE lifecycle # "Open"
                BY <4>1, <4>2 DEF ClosedBy
            <4>3. CASE lifecycle = "Open"
                <5>1. PICK i \in 1 .. Len(b) : b[i].variable = "lifecycle"
                    BY <2>1, <3>3, <4>3 DEF ClosedBy
                <5>2. i # 1
                    BY <1>3, <3>3, <5>1
                <5>3. i - 1 \in 1 .. Len(Tail(b)) /\ Tail(b)[i - 1] = b[i]
                    BY <1>3, <5>1, <5>2
                <5>4. QED
                    BY <1>5, <3>3, <5>1, <5>3 DEF ClosedBy
            <4>4. QED
                BY <4>2, <4>3
        <3>4. QED
            BY <3>1, <3>2, <3>3
    <2>2. \A u \in Threads : buffer'[u] \in Seq(Stores)
        BY <1>2, <1>3, <1>5
    <2>3. QED
        BY <2>1, <2>2, ClosedKept
<1>9. QED
    BY <1>1, <1>2, <1>3, <1>5, <1>6, <1>7, <1>8

LEMMA FlushValues ==
    ASSUME QueueInv, NEW t \in Threads, Flush(t) PROVE ValueInv' /\ GateInv'
<1> USE FlushShown
<1>1. IInv'
    BY NextIInv DEF QueueInv, ValueInv
<1>2. DataTypes'
    BY DEF DataTypes, QueueInv, ValueInv
<1>3. NotBefore'
    BY DEF NotBefore, QueueInv, ValueInv, Call
<1>4. Together' /\ TriedOnce'
    <2>1. \A x : Pushed(x)' = Pushed(x)
        BY SamePushed
    <2>2. TriedOnce'
        BY <2>1 DEF TriedOnce, Call, QueueInv, ValueInv
    <2>3. log' = log /\ Together
        BY DEF QueueInv, ValueInv
    <2>4. QED
        BY <2>2, <2>3, ZenonT(40) DEF Together, Stands
<1>5. Placed'
    <2>1. \A x : Pushed(x)' = Pushed(x) /\ (Midway(x) => Midway(x)')
        BY SamePushed
    <2>2. QED
        BY <2>1 DEF Placed, QueueInv, ValueInv
<1>6. PushesPass' /\ Insiders' /\ StopsAsked'
    BY DEF QueueInv, GateInv, PushesPass, Insiders, StopsAsked, Call
<1>7. NeverParked'
    BY DEF QueueInv, GateInv, NeverParked, StaysClosed
<1>8. QED
    BY <1>1, <1>2, <1>3, <1>4, <1>5, <1>6, <1>7 DEF ValueInv, GateInv
-----------------------------------------------------------------------------
(* The steps of a transfer.  The values of a push in any sequence s.       *)
Block(s, x, b, n) ==
    /\ b + n <= Len(s)
    /\ \A i \in 1 .. Len(s) : s[i][1] = x <=> b < i /\ i <= b + n
    /\ \A k \in 1 .. n : s[b + k] = <<x, k>>

LEMMA BlockCount ==
    ASSUME NEW S, NEW s \in Seq(S), NEW x, NEW b \in Nat, NEW n \in Nat, Block(s, x, b, n)
    PROVE  Cardinality({i \in 1 .. Len(s) : s[i][1] = x}) = n
<1>1. {i \in 1 .. Len(s) : s[i][1] = x} = (b + 1) .. (b + n)
    BY DEF Block
<1>2. Cardinality((b + 1) .. (b + n)) = IF b + 1 > b + n THEN 0 ELSE (b + n) - (b + 1) + 1
    BY FS_Interval
<1>3. (IF b + 1 > b + n THEN 0 ELSE (b + n) - (b + 1) + 1) = n
    OBVIOUS
<1>4. Cardinality((b + 1) .. (b + n)) = n
    BY <1>2, <1>3
<1>5. QED
    BY <1>1, <1>4

LEMMA BlockOther ==
    ASSUME NEW S, NEW s \in Seq(S), NEW e \in S, NEW y, e[1] # y,
           NEW b \in Nat, NEW m \in Nat, Block(s, y, b, m)
    PROVE  Block(Append(s, e), y, b, m)
<1> DEFINE u == Append(s, e)
           L == Len(s)
<1>1. /\ L \in Nat /\ Len(u) = L + 1 /\ u[L + 1] = e /\ \A i \in 1 .. L : u[i] = s[i]
    BY AppendProperties
<1>2. b + m <= L
    BY DEF Block
<1> HIDE DEF u
<1>3. ASSUME NEW i \in 1 .. L + 1 PROVE u[i][1] = y <=> b < i /\ i <= b + m
    <2>1. CASE i \in 1 .. L
        BY <1>1, <2>1 DEF Block
    <2>2. CASE i = L + 1
        BY <1>1, <1>2, <2>2
    <2>3. QED
        BY <1>1, <2>1, <2>2
<1>4. ASSUME NEW k \in 1 .. m PROVE u[b + k] = <<y, k>>
    <2>1. b + k \in 1 .. L
        BY <1>1, <1>2
    <2>2. QED
        BY <1>1, <2>1 DEF Block
<1>5. Block(u, y, b, m)
    <2>1. b + m <= Len(u) /\ \A i \in 1 .. Len(u) : u[i][1] = y <=> b < i /\ i <= b + m
        BY <1>1, <1>2, <1>3
    <2>2. QED
        BY <1>4, <2>1 DEF Block
<1>6. QED
    BY <1>5 DEF u

LEMMA BlockOwn ==
    ASSUME NEW S, NEW s \in Seq(S), NEW x, NEW b \in Nat, NEW n \in Nat, <<x, n + 1>> \in S,
           Block(s, x, b, n), n = 0 \/ s[Len(s)][1] = x
    PROVE  \E a \in Nat : Block(Append(s, <<x, n + 1>>), x, a, n + 1)
<1> DEFINE e == <<x, n + 1>>
           u == Append(s, e)
           L == Len(s)
<1>1. /\ L \in Nat /\ Len(u) = L + 1 /\ u[L + 1] = e /\ \A i \in 1 .. L : u[i] = s[i]
    BY AppendProperties
<1>2. \E a \in Nat : a + n = L /\ Block(s, x, a, n)
    <2>1. CASE n = 0
        <3>1. L + n = L /\ Block(s, x, L, n)
            BY <1>1, <2>1 DEF Block
        <3>2. QED
            BY <1>1, <3>1
    <2>2. CASE n # 0
        <3>1. L \in 1 .. L /\ b + n <= L
            BY <1>1, <2>2 DEF Block
        <3>2. L <= b + n
            BY <2>2, <3>1 DEF Block
        <3>3. QED
            BY <1>1, <3>1, <3>2
    <2>3. QED
        BY <2>1, <2>2
<1>3. PICK a \in Nat : a + n = L /\ Block(s, x, a, n)
    BY <1>2
<1>4. e[1] = x
    OBVIOUS
<1> HIDE DEF u, e
<1>5. ASSUME NEW i \in 1 .. L + 1 PROVE u[i][1] = x <=> a < i /\ i <= a + (n + 1)
    <2>1. CASE i \in 1 .. L
        BY <1>1, <1>3, <2>1 DEF Block
    <2>2. CASE i = L + 1
        BY <1>1, <1>3, <1>4, <2>2
    <2>3. QED
        BY <1>1, <2>1, <2>2
<1>6. ASSUME NEW k \in 1 .. n + 1 PROVE u[a + k] = <<x, k>>
    <2>1. CASE k \in 1 .. n
        <3>1. a + k \in 1 .. L
            BY <1>1, <1>3, <2>1
        <3>2. QED
            BY <1>1, <1>3, <2>1, <3>1 DEF Block
    <2>2. CASE k = n + 1
        <3>1. a + k = L + 1
            BY <1>3, <2>2
        <3>2. QED
            BY <1>1, <2>2, <3>1 DEF e
    <2>3. QED
        BY <2>1, <2>2
<1>7. Block(u, x, a, n + 1)
    <2>1. a + (n + 1) <= Len(u) /\ \A i \in 1 .. Len(u) : u[i][1] = x <=> a < i /\ i <= a + (n + 1)
        BY <1>1, <1>3, <1>5
    <2>2. QED
        BY <1>6, <2>1 DEF Block
<1>8. QED
    BY <1>7 DEF u, e

LEMMA PushedCounts ==
    ASSUME QueueInv, NEW x \in Pushes
    PROVE  /\ Pushed(x) \in Nat /\ SizeOf(x) \in Nat
           /\ \E b \in Nat : Block(log, x, b, Pushed(x))
<1>1. log \in Seq(Values)
    BY DEF QueueInv, ValueInv, IInv, StorageTypeOK
<1>2. PICK b \in Nat, n \in Nat : Block(log, x, b, n)
    BY DEF QueueInv, ValueInv, Together, Stands, Block
<1>3. Pushed(x) = n
    BY <1>1, <1>2, BlockCount DEF Pushed
<1>4. SizeOf(x) \in Nat
    BY QueueAssumption DEF SizeOf, Pushes
<1>5. QED
    BY <1>2, <1>3, <1>4

(* The next value of a push goes to the end of its others. *)
LEMMA AppendTogether ==
    ASSUME QueueInv, NEW x \in Pushes, Pushed(x) = 0 \/ log[Len(log)][1] = x,
           log' = Append(log, <<x, Pushed(x) + 1>>), <<x, Pushed(x) + 1>> \in Values
    PROVE  /\ Together' /\ Pushed(x)' = Pushed(x) + 1
           /\ \A y \in Pushes \ {x} : Pushed(y)' = Pushed(y)
<1>1. log \in Seq(Values) /\ log' \in Seq(Values)
    <2>1. log \in Seq(Values)
        BY DEF QueueInv, ValueInv, IInv, StorageTypeOK
    <2>2. QED
        BY <2>1, AppendProperties
<1>2. ASSUME NEW y \in Pushes
      PROVE  \E m \in Nat : /\ m = Pushed(y) + (IF y = x THEN 1 ELSE 0)
                            /\ \E a \in Nat : Block(log', y, a, m)
    <2>1. PICK n \in Nat : n = Pushed(y)
        BY PushedCounts
    <2>2. PICK b \in Nat : Block(log, y, b, n)
        BY <2>1, PushedCounts
    <2>3. CASE y = x
        BY <1>1, <2>1, <2>2, <2>3, BlockOwn
    <2>4. CASE y # x
        BY <1>1, <2>1, <2>2, <2>4, BlockOther
    <2>5. QED
        BY <2>3, <2>4
<1>3. ASSUME NEW y \in Pushes
      PROVE  /\ Pushed(y)' = Pushed(y) + (IF y = x THEN 1 ELSE 0)
             /\ (\E b \in Nat, m \in Nat : Stands(y, b, m))'
    <2>1. PICK m \in Nat, a \in Nat : /\ m = Pushed(y) + (IF y = x THEN 1 ELSE 0)
                                      /\ Block(log', y, a, m)
        BY <1>2
    <2>2. Cardinality({i \in 1 .. Len(log') : log'[i][1] = y}) = m
        <3>1. ASSUME NEW s \in Seq(Values), s = log'
              PROVE  Cardinality({i \in 1 .. Len(s) : s[i][1] = y}) = m
            <4>1. Block(s, y, a, m)
                BY <2>1, <3>1 DEF Block
            <4>2. QED
                BY <4>1, BlockCount
        <3>2. QED
            BY <1>1, <3>1
    <2>3. Pushed(y)' = m
        BY <2>2 DEF Pushed
    <2>4. Stands(y, a, m)'
        BY <2>1 DEF Stands, Block
    <2>5. QED
        BY <2>1, <2>3, <2>4
<1>4. Pushed(x) \in Nat /\ \A y \in Pushes : Pushed(y) \in Nat
    BY PushedCounts
<1>5. Together'
    BY <1>3 DEF Together
<1>6. QED
    BY <1>3, <1>4, <1>5
-----------------------------------------------------------------------------
(* Whose transfer it is.                                                   *)
LEMMA JobPlace ==
    ASSUME BaseInv, NEW t \in Threads, Transferring(thread[t]), thread[t].job \in Operations
    PROVE  \/ /\ thread[t].from \in {"fast", "reserved"} /\ Carrying(t, thread[t])
              /\ thread[t].call = thread[t].job
              /\ thread[t].goal = "start" /\ thread[t].ok
              /\ op[thread[t].job].phase \in {"Starting", "StopRequested"}
           \/ /\ thread[t].from = "front" /\ Fronting(thread[t]) /\ Holding(thread[t])
              /\ op[thread[t].job].phase = "Pending"
<1> DEFINE th == thread[t]
           x == th.job
<1>1. th.from \in {"fast", "poll", "reserved", "front"}
    BY Shaped DEF Jobs
<1>2. CASE th.from \in {"fast", "reserved"}
    <2>1. x = th.call /\ (OwnStart(t, th) \/ OwnTry(t, th))
        BY <1>2, Shaped DEF Jobs
    <2>2. OwnStart(t, th)
        BY <2>1, NamesAssumption DEF OwnTry
    <2>3. th.goal = "start" /\ Carrying(t, th)
        BY <1>2, <2>1, <2>2 DEF OwnStart, Carrying
    <2>4. th.ok
        BY <1>2, <2>3, Shaped DEF Jobs
    <2>5. QED
        BY <1>2, <2>1, <2>3, <2>4 DEF BaseInv, CarriedPhase, Call
<1>3. CASE th.from = "poll"
    BY <1>3, Shaped, NamesAssumption DEF Jobs, Calls
<1>4. CASE th.from = "front"
    <2>1. Fronting(th) /\ Holding(th)
        BY <1>4 DEF Fronting, Holding
    <2>2. pending[SideOf(x)] # << >> /\ Head(pending[SideOf(x)]) = x
        BY <2>1 DEF BaseInv, Heads
    <2>3. SideOf(x) \in Sides
        BY DEF SideOf, Sides
    <2>4. ListedIn(pending[SideOf(x)], x)
        BY <2>2, <2>3, PendingTypes
    <2>5. QED
        BY <1>4, <2>1, <2>4 DEF BaseInv, PendingPhase
<1>5. QED
    BY <1>1, <1>2, <1>3, <1>4

LEMMA UndecidedApart ==
    ASSUME BaseInv, NEW u \in Threads, Undecided(u, thread[u]),
           NEW t \in Threads, Transferring(thread[t])
    PROVE  thread[t].job # Call(u)
<1> SUFFICES ASSUME thread[t].job = Call(u) PROVE FALSE
    OBVIOUS
<1>1. Carrying(u, thread[u]) /\ Call(u) \in Operations
    BY DEF Undecided, Carrying, Inside, Call
<1>2. op[Call(u)].phase \in {"Starting", "StopRequested"}
    BY <1>1 DEF BaseInv, CarriedPhase
<1>3. /\ thread[t].from \in {"fast", "reserved"} /\ Carrying(t, thread[t])
      /\ thread[t].call = thread[t].job /\ thread[t].goal = "start" /\ thread[t].ok
    BY <1>1, <1>2, JobPlace
<1>4. u = t
    BY <1>1, <1>3 DEF BaseInv, CarriedOnce, Call
<1>5. QED
    BY <1>3, <1>4 DEF Undecided, Transferring, Starting

LEMMA TriedFast ==
    ASSUME BaseInv, NEW t \in Threads, Transferring(thread[t]), thread[t].job \in TryValues
    PROVE  thread[t].from = "fast" /\ thread[t].call = thread[t].job /\ t \in Producers
<1>1. thread[t].from = "fast"
    <2>1. thread[t].from \in {"fast", "poll", "reserved", "front"}
        BY Shaped DEF Jobs
    <2>2. thread[t].job \notin Operations /\ thread[t].job # None
        BY NamesAssumption DEF Calls
    <2>3. QED
        BY <2>1, <2>2, Shaped DEF Jobs, OwnStart
<1>2. thread[t].call = thread[t].job /\ (OwnStart(t, thread[t]) \/ OwnTry(t, thread[t]))
    BY <1>1, Shaped DEF Jobs
<1>3. QED
    BY <1>1, <1>2, NamesAssumption DEF OwnStart, OwnTry

LEMMA JobsApart ==
    ASSUME QueueInv, NEW t \in Threads, Transferring(thread[t]),
           NEW u \in Threads, Transferring(thread[u]), u # t, thread[u].job # None
    PROVE  thread[u].job # thread[t].job
<1> SUFFICES ASSUME thread[u].job = thread[t].job PROVE FALSE
    OBVIOUS
<1>1. CASE thread[t].job \in Operations
    <2>1. CASE Holding(thread[t]) /\ Holding(thread[u])
        BY <2>1 DEF QueueInv, BaseInv, LockHeld
    <2>2. CASE Carrying(t, thread[t]) /\ Carrying(u, thread[u])
        <3>1. Call(t) = Call(u)
            BY <1>1, JobPlace, <2>2, <2>1 DEF Call, QueueInv
        <3>2. QED
            BY <2>2, <3>1 DEF QueueInv, BaseInv, CarriedOnce
    <2>3. QED
        BY <1>1, <2>1, <2>2, JobPlace DEF QueueInv
<1>2. CASE thread[t].job \in TryValues
    <2>1. thread[t].call = thread[t].job /\ thread[u].call = thread[u].job
        BY <1>2, TriedFast DEF QueueInv
    <2>2. QED
        BY <1>2, <2>1 DEF QueueInv, ValueInv, TriedOnce, Call
<1>3. CASE thread[t].job = None
    BY <1>3
<1>4. QED
    BY <1>1, <1>2, <1>3, Shaped DEF QueueInv, Jobs, Transferring, IsPush, Operations

(* The storage of one thread: who moves on the side of a push in a Spsc    *)
(* ring has it for itself.                                                 *)
LEMMA PushesAlone ==
    ASSUME QueueInv, topology = "Spsc", NEW t \in Threads, Placing(thread[t]),
           NEW u \in Threads, Placing(thread[u])
    PROVE  u = t
<1>1. ASSUME NEW v \in Threads, Placing(thread[v])
      PROVE  Transferring(thread[v]) /\ SideOf(thread[v].job) = "push"
    BY <1>1, Shaped DEF QueueInv, Placing, Transferring, Jobs, SideOf
<1>2. "push" \in Sides /\ ~Multiple("push")
    BY DEF Sides, Multiple, MultipleProducers
<1>3. QED
    BY <1>1, <1>2, TransferringAlone DEF QueueInv
-----------------------------------------------------------------------------
(* What a step of a transfer does to its operation, ...                    *)
JobMoved(x) ==
    /\ DOMAIN op' = Operations /\ \A o \in Operations \ {x} : op'[o] = op[o]
    /\ x \in Operations =>
         /\ DOMAIN op'[x] = OpFields
         /\ op'[x].phase = op[x].phase /\ op'[x].stop = op[x].stop
         /\ op'[x].registered = op[x].registered
         /\ op'[x].budget \in Nat /\ op'[x].moved \in Seq(Elements)
         /\ op'[x].result = op[x].result \/ op'[x].result \in Results \ {"Stopped"}
         /\ x \in PushOps => op'[x].result # "Popped"
         /\ x \in PopOps => /\ op'[x].result # "Enqueued"
                            /\ op'[x].result = "Popped" <=> op'[x].moved # << >>

(* ... to what of it is in the ring, ...                                   *)
Appends(x) ==
    /\ Pushed(x) = 0 \/ log[Len(log)][1] = x
    /\ log' = Append(log, <<x, Pushed(x) + 1>>) /\ <<x, Pushed(x) + 1>> \in Values

PlacedAt(x, new) ==
    /\ Placing(new) /\ x \in PushOps => op'[x].result # "Enqueued"
    /\ new.pc = "push" => Pushed(x)' = 0 \/ Midway(x)'
    /\ new.pc = "publish" => Pushed(x)' = 1 /\ SizeOf(x) = 1
    /\ x \in PushOps =>
         IF op'[x].result = "Enqueued" THEN Pushed(x)' = Size[x]
         ELSE Pushed(x)' # 0 => Placing(new)

(* ... and to its thread.                                                  *)
Over(th, new, result) ==
    /\ new = Back(th, result)
    /\ result \in {None, "TooLarge"} /\ th.job \in Operations => op'[th.job].result \notin Done
    /\ th.job \in PushOps => /\ result = None => MaySuspend(th.job)
                             /\ result = "TooLarge" => op'[th.job].result = "TooLarge"

Continues(th, new) ==
    /\ Transferring(new) /\ new.job = th.job /\ new.from = th.from
    /\ new.call = th.call /\ new.goal = th.goal /\ new.ok = th.ok /\ new.position \in Nat
    /\ Placing(new) <=> Placing(th)

Moved(t) ==
    LET th == thread[t]
        new == thread'[t] IN
    /\ Transferring(th) /\ OnlyThread(t) /\ JobMoved(th.job)
    /\ UNCHANGED <<topology, lifecycle, active>> /\ SteadyTypes /\ StaysClosed
    /\ [StorageNext]_storageVars /\ freed \subseteq freed'
    /\ log' = log \/ (Placing(th) /\ Appends(th.job))
    /\ \A x \in {th.job} : PlacedAt(x, new)
    /\ Continues(th, new) \/ \E result : Over(th, new, result)

(* Where a transfer leads when it is over. *)
LEMMA BackOver ==
    ASSUME BaseInv, NEW t \in Threads, Transferring(thread[t]), thread[t].position \in Nat,
           NEW result, NEW new, new = Back(thread[t], result)
    PROVE  LET th == thread[t] IN
           /\ new.call = th.call /\ new.goal = th.goal /\ new.position \in Nat
           /\ ~Transferring(new) /\ ~Opening(new) /\ ~Placing(new)
           /\ new.pc \notin {"enter", "waiting", "sweep.all", "push", "publish"}
           /\ Entered(new) <=> Entered(th)
           /\ Door(new) => IsPush(new.call)
           /\ Reserving(new) => Reserving(th)
           /\ Refusing(t, new) => th.job = th.call /\ result \in {None, "TooLarge"}
           /\ Undecided(t, new) =>
                Undecided(t, th) \/ (th.job = th.call /\ result \in {None, "TooLarge"})
           /\ th.from = "front" => (Fronting(new) /\ new.job = th.job) \/ result = None
<1> DEFINE th == thread[t]
<1> USE DEF Opening, Placing, Door, Entered, Transferring
<1>0. th.from \in {"fast", "poll", "reserved", "front"} /\ th.goal # "cancel"
    BY Shaped DEF Jobs
<1>1. CASE th.from = "fast" /\ IsPush(th.job)
    <2>1. PICK b \in BOOLEAN : /\ b <=> result \notin {None, "TooLarge"}
                               /\ new = [Clear(th) EXCEPT !.pc = "leave", !.ok = b]
        BY <1>1 DEF Back
    <2>2. /\ new.pc = "leave" /\ new.ok = b /\ new.goal = th.goal
          /\ new.call = th.call /\ new.position = 0
        BY <2>1, Shaped, Fields DEF Clear
    <2>3. th.job = th.call /\ th.pc \in {"push", "publish"}
        BY <1>1, Shaped, NamesAssumption DEF Jobs, IsPush, Calls, Operations
    <2>4. QED
        BY <1>0, <1>1, <2>1, <2>2, <2>3 DEF Reserving, Refusing, Undecided, Fronting, Starting
<1>2. CASE th.from = "fast" /\ ~IsPush(th.job)
    <2>1. new = [Clear(th) EXCEPT !.pc = IF result \notin {None, "TooLarge"} THEN "wake" ELSE "lock"]
        BY <1>2 DEF Back
    <2>2. /\ new.pc = IF result \notin {None, "TooLarge"} THEN "wake" ELSE "lock"
          /\ new.ok = th.ok /\ new.goal = th.goal
          /\ new.call = th.call /\ new.position = 0
        BY <2>1, Shaped, Fields DEF Clear
    <2>3. th.job = th.call /\ th.pc \notin {"push", "publish"} /\ th.call \notin PushOps
        BY <1>2, Shaped DEF Jobs, IsPush
    <2>4. th.goal = "start" => th.ok
        BY <1>2, Shaped DEF Jobs
    <2>5. QED
        BY <1>0, <1>2, <2>2, <2>3, <2>4 DEF Reserving, Refusing, Undecided, Fronting, Starting
<1>3. CASE th.from = "poll"
    <2>1. new = [Clear(th) EXCEPT !.pc = "polled", !.ok = result \notin {None, "TooLarge"}]
        BY <1>3 DEF Back
    <2>2. /\ new.pc = "polled" /\ new.goal = th.goal /\ new.call = th.call /\ new.position = 0
        BY <2>1, Shaped, Fields DEF Clear
    <2>3. th.goal = "service" /\ th.call = None
        BY <1>3, Shaped DEF Jobs, OwnPoll
    <2>4. QED
        BY <1>0, <1>3, <2>2, <2>3 DEF Reserving, Refusing, Undecided, Fronting
<1>4. CASE th.from = "reserved"
    <2>1. new = [th EXCEPT !.pc = IF result # None THEN "settle" ELSE "park"]
        BY <1>4 DEF Back
    <2>2. /\ new.pc = IF result # None THEN "settle" ELSE "park"
          /\ new.ok = th.ok /\ new.goal = th.goal
          /\ new.call = th.call /\ new.position = th.position
        BY <2>1, Shaped, Fields
    <2>3. th.job = th.call /\ th.ok
        BY <1>4, Shaped DEF Jobs
    <2>4. QED
        BY <1>0, <1>4, <2>2, <2>3 DEF Reserving, Refusing, Undecided, Fronting, Starting
<1>5. CASE th.from = "front" /\ result # None
    <2>1. new = [th EXCEPT !.pc = "drop"]
        BY <1>5 DEF Back
    <2>2. /\ new.pc = "drop" /\ new.ok = th.ok /\ new.goal = th.goal
          /\ new.call = th.call /\ new.position = th.position /\ new.job = th.job
        BY <2>1, Shaped, Fields
    <2>3. QED
        BY <1>0, <1>5, <2>2 DEF Reserving, Refusing, Undecided, Fronting, Starting
<1>6. CASE th.from = "front" /\ result = None
    <2>1. new = AfterFront(th, SideOf(th.job), pending)
        BY <1>6 DEF Back
    <2>2. Onward(new, th, pending) /\ new.position = 0
        BY <2>1, Shaped, AfterFrontOnward, OnwardPosition
    <2>3. QED
        BY <1>0, <1>6, <2>2 DEF Onward, Reserving, Refusing, Undecided, Fronting, Starting
<1>7. QED
    BY <1>0, <1>1, <1>2, <1>3, <1>4, <1>5, <1>6
LEMMA MovedNotBefore ==
    ASSUME QueueInv, NEW t \in Threads, Moved(t) PROVE NotBefore'
<1> DEFINE th == thread[t]
           new == thread'[t]
           x == th.job
<1>0. NotBefore /\ BaseInv /\ th.position \in Nat /\ Transferring(th)
    BY Known DEF QueueInv, ValueInv, Moved
<1>1. /\ OnlyThread(t) /\ \A o \in Operations \ {x} : op'[o] = op[o]
      /\ x \in Operations => op'[x].phase = op[x].phase
    BY DEF Moved, JobMoved
<1>2. \/ Continues(th, new)
      \/ \E result : Over(th, new, result)
    BY DEF Moved
<1>3. ASSUME NEW u \in Threads, Undecided(u, thread'[u])
      PROVE  op'[thread'[u].call].result \notin Done
    <2>1. CASE Undecided(u, thread[u]) /\ thread'[u].call = thread[u].call
        <3>1. thread[u].call \in Operations /\ x # thread[u].call
            BY <1>0, <2>1, UndecidedApart DEF Undecided, Call
        <3>2. op[thread[u].call].result \notin Done
            BY <1>0, <2>1 DEF NotBefore, Call
        <3>3. QED
            BY <1>1, <2>1, <3>1, <3>2
    <2>2. CASE u # t
        BY <1>1, <1>3, <2>1, <2>2 DEF OnlyThread
    <2>3. CASE u = t /\ Continues(th, new)
        <3>1. new.call = th.call /\ new.goal = th.goal /\ new.ok = th.ok /\ Transferring(new)
            BY <2>3 DEF Continues
        <3>2. Undecided(t, th)
            BY <1>0, <1>3, <2>3, <3>1 DEF Undecided, Transferring, Starting
        <3>3. QED
            BY <2>1, <2>3, <3>1, <3>2
    <2>4. ASSUME u = t, NEW result, Over(th, new, result)
          PROVE  op'[thread'[u].call].result \notin Done
        <3>1. /\ new.call = th.call
              /\ Undecided(t, th) \/ (x = th.call /\ result \in {None, "TooLarge"})
            <4>1. PICK r : r = new
                OBVIOUS
            <4>2. Undecided(t, r) /\ r = Back(th, result)
                BY <1>3, <2>4, <4>1 DEF Over, Undecided
            <4>3. /\ r.call = th.call
                  /\ Undecided(t, th) \/ (x = th.call /\ result \in {None, "TooLarge"})
                BY <1>0, <4>2, BackOver, ZenonT(40)
            <4>4. QED
                BY <4>1, <4>3
        <3>2. new.call \in Operations
            BY <1>3, <2>4 DEF Undecided
        <3>3. CASE Undecided(t, th)
            BY <2>1, <2>4, <3>1, <3>3
        <3>4. CASE x = th.call /\ result \in {None, "TooLarge"}
            BY <2>4, <3>1, <3>2, <3>4 DEF Over
        <3>5. QED
            BY <3>1, <3>3, <3>4
    <2>5. QED
        BY <1>2, <2>2, <2>3, <2>4
<1>4. ASSUME NEW o \in Operations, op'[o].phase = "Constructed" PROVE op'[o].result \notin Done
    <2>1. o # x
        BY <1>0, <1>1, <1>4, JobPlace
    <2>2. QED
        BY <1>0, <1>1, <1>4, <2>1 DEF NotBefore
<1>5. ASSUME NEW o \in Operations, op'[o].phase = "Pending", op'[o].result \in Done
      PROVE  \E u \in Threads : Fronting(thread'[u]) /\ thread'[u].job = o
    <2>1. CASE o # x
        <3>1. PICK u \in Threads : Fronting(thread[u]) /\ thread[u].job = o
            BY <1>0, <1>1, <1>5, <2>1 DEF NotBefore
        <3>2. u # t
            BY <2>1, <3>1
        <3>3. QED
            BY <1>1, <3>1, <3>2 DEF OnlyThread
    <2>2. CASE o = x
        <3>1. th.from = "front"
            BY <1>0, <1>1, <1>5, <2>2, JobPlace
        <3>2. CASE Continues(th, new)
            BY <2>2, <3>1, <3>2 DEF Continues, Fronting
        <3>3. ASSUME NEW result, Over(th, new, result)
              PROVE  Fronting(new) /\ new.job = x
            <4>1. (Fronting(new) /\ new.job = x) \/ result = None
                BY <1>0, <3>1, <3>3, BackOver, ZenonT(40) DEF Over
            <4>2. result # None
                BY <1>5, <2>2, <3>3 DEF Over
            <4>3. QED
                BY <4>1, <4>2
        <3>4. QED
            BY <1>2, <2>2, <3>2, <3>3
    <2>3. QED
        BY <2>1, <2>2
<1>6. QED
    BY <1>3, <1>4, <1>5 DEF NotBefore, Call

LEMMA MovedTogether ==
    ASSUME QueueInv, NEW t \in Threads, Moved(t)
    PROVE  /\ Together' /\ \A y \in Pushes \ {thread[t].job} : Pushed(y)' = Pushed(y)
           /\ log' # log => Placing(thread[t])
           /\ log' = log => \A y : Pushed(y)' = Pushed(y) /\ (Midway(y) => Midway(y)')
<1>1. CASE log' = log
    <2>1. \A y : Pushed(y)' = Pushed(y) /\ (Midway(y) => Midway(y)')
        BY <1>1, SamePushed DEF Moved
    <2>2. Together'
        BY <1>1, ZenonT(40) DEF Together, Stands, QueueInv, ValueInv
    <2>3. QED
        BY <1>1, <2>1, <2>2
<1>2. CASE log' # log
    <2>1. Placing(thread[t]) /\ Appends(thread[t].job)
        BY <1>2 DEF Moved
    <2>2. thread[t].job \in Pushes
        BY <2>1, Shaped DEF QueueInv, Placing, Jobs, Transferring, IsPush, Pushes
    <2>3. QED
        BY <1>2, <2>1, <2>2, AppendTogether DEF Appends
<1>3. QED
    BY <1>1, <1>2

LEMMA MovedPlaced ==
    ASSUME QueueInv, NEW t \in Threads, Moved(t) PROVE Placed'
<1> DEFINE th == thread[t]
           new == thread'[t]
<1> PICK x : x = th.job
    OBVIOUS
<1>0. Placed /\ Transferring(th)
    BY DEF QueueInv, ValueInv, Moved
<1>1. /\ OnlyThread(t) /\ \A o \in Operations \ {x} : op'[o] = op[o]
      /\ PlacedAt(x, new) /\ topology' = topology
    BY DEF Moved, JobMoved
<1>2. PushOps \subseteq Operations /\ PopOps \subseteq Operations /\ PushOps \subseteq Pushes
    BY DEF Operations, Pushes
<1>3. Placing(new) => new.job = x
    <2>1. CASE Continues(th, new)
        BY <2>1 DEF Continues
    <2>2. ASSUME NEW result, Over(th, new, result) PROVE ~Placing(new)
        BY <1>0, <2>2, Known, BackOver DEF Over, QueueInv
    <2>3. QED
        BY <2>1, <2>2 DEF Moved
<1>4. ASSUME NEW u \in Threads, NEW y, thread'[u].job = y
      PROVE  /\ Placing(thread'[u]) /\ y \in PushOps => op'[y].result # "Enqueued"
             /\ thread'[u].pc = "push" => Pushed(y)' = 0 \/ Midway(y)'
             /\ thread'[u].pc = "publish" => Pushed(y)' = 1 /\ SizeOf(y) = 1
    <2>1. CASE ~Placing(thread'[u])
        BY <2>1 DEF Placing
    <2>2. CASE Placing(thread'[u]) /\ u = t
        BY <1>1, <1>3, <1>4, <2>2 DEF PlacedAt
    <2>3. CASE Placing(thread'[u]) /\ u # t
        <3>1. thread'[u] = thread[u] /\ Transferring(thread[u])
            BY <1>1, <1>4, <2>3 DEF OnlyThread, Placing, Transferring
        <3>2. IsPush(y)
            BY <1>4, <2>3, <3>1, Shaped DEF QueueInv, Placing, Jobs
        <3>3. y \in Pushes /\ y # None
            BY <3>2, NamesAssumption DEF IsPush, Pushes, Calls, Operations
        <3>4. y # x
            BY <1>0, <1>4, <2>3, <3>1, <3>3, JobsApart
        <3>5. Pushed(y)' = Pushed(y)
            BY <3>3, <3>4, MovedTogether
        <3>6. Midway(y) => Midway(y)'
            <4>1. CASE log' = log
                BY <4>1, MovedTogether
            <4>2. CASE log' # log
                <5>1. Placing(th)
                    BY <4>2, MovedTogether
                <5>2. topology # "Spsc"
                    BY <1>4, <2>3, <3>1, <5>1, PushesAlone
                <5>3. QED
                    BY <5>2 DEF Midway
            <4>3. QED
                BY <4>1, <4>2
        <3>7. y \in PushOps => op'[y] = op[y]
            BY <1>1, <1>2, <3>4
        <3>8. QED
            BY <1>0, <1>4, <2>3, <3>1, <3>5, <3>6, <3>7 DEF Placed
    <2>4. QED
        BY <2>1, <2>2, <2>3
<1>5. ASSUME NEW y \in PushOps
      PROVE  IF op'[y].result = "Enqueued" THEN Pushed(y)' = Size[y]
             ELSE Pushed(y)' # 0 =>
                    \E u \in Threads : Placing(thread'[u]) /\ thread'[u].job = y
    <2>1. CASE y = x
        BY <1>1, <1>3, <2>1 DEF PlacedAt
    <2>2. CASE y # x
        <3>1. Pushed(y)' = Pushed(y) /\ op'[y] = op[y]
            BY <1>1, <1>2, <2>2, MovedTogether
        <3>2. ASSUME NEW u \in Threads, thread[u].job = y PROVE thread'[u] = thread[u]
            BY <1>1, <2>2, <3>2 DEF OnlyThread
        <3>3. QED
            BY <1>0, <3>1, <3>2 DEF Placed
    <2>3. QED
        BY <2>1, <2>2
<1>6. ASSUME NEW y \in Operations
      PROVE  /\ y \in PopOps => (op'[y].result = "Popped" <=> op'[y].moved # << >>)
             /\ y \in PushOps => op'[y].result # "Popped"
             /\ y \in PopOps => op'[y].result # "Enqueued"
    <2>1. CASE y = x
        BY <1>6, <2>1 DEF Moved, JobMoved
    <2>2. CASE y # x
        BY <1>0, <1>1, <1>6, <2>2 DEF Placed
    <2>3. QED
        BY <2>1, <2>2
<1>7. QED
    BY <1>2, <1>4, <1>5, <1>6 DEF Placed
LEMMA MovedTried ==
    ASSUME QueueInv, NEW t \in Threads, Moved(t) PROVE TriedOnce'
<1> DEFINE th == thread[t]
           new == thread'[t]
<1>0. TriedOnce /\ OnlyThread(t) /\ Transferring(th)
    BY DEF QueueInv, ValueInv, Moved
<1>1. new.call = th.call /\ new.pc \notin {"enter", "waiting"}
    <2>1. CASE Continues(th, new)
        BY <2>1 DEF Continues, Transferring
    <2>2. ASSUME NEW result, Over(th, new, result)
          PROVE  new.call = th.call /\ new.pc \notin {"enter", "waiting"}
        <3>1. new = Back(th, result) /\ th.position \in Nat /\ BaseInv
            BY <2>2, Known DEF Over, QueueInv
        <3>2. ASSUME NEW r, r = Back(th, result)
              PROVE  r.call = th.call /\ r.pc \notin {"enter", "waiting"}
            BY <1>0, <3>1, <3>2, BackOver, ZenonT(40)
        <3>3. QED
            BY <3>1, <3>2
    <2>3. QED
        BY <2>1, <2>2 DEF Moved
<1>2. \A u \in Threads : thread'[u].call = thread[u].call
    BY <1>0, <1>1 DEF OnlyThread
<1>3. ASSUME NEW u \in Threads, NEW v \in TryValues, thread'[u].call = v
      PROVE  /\ \A w \in Threads : thread'[w].call = v => w = u
             /\ thread'[u].pc \in {"enter", "waiting"} => Pushed(v)' = 0
    <2>1. thread[u].call = v /\ \A w \in Threads : thread[w].call = v => w = u
        BY <1>0, <1>2, <1>3 DEF TriedOnce, Call
    <2>2. ASSUME thread'[u].pc \in {"enter", "waiting"} PROVE Pushed(v)' = 0
        <3>1. u # t /\ thread'[u] = thread[u]
            BY <1>0, <1>1, <2>2 DEF OnlyThread
        <3>2. Pushed(v) = 0
            BY <1>0, <2>1, <2>2, <3>1 DEF TriedOnce, Call
        <3>3. v # th.job
            BY <1>0, <2>1, <3>1, TriedFast DEF QueueInv
        <3>4. QED
            BY <3>2, <3>3, MovedTogether DEF Pushes
    <2>3. QED
        BY <1>2, <2>1, <2>2
<1>4. QED
    BY <1>3 DEF TriedOnce, Call

LEMMA MovedValues ==
    ASSUME QueueInv, NEW t \in Threads, Moved(t) PROVE ValueInv'
<1> DEFINE th == thread[t]
           new == thread'[t]
<1>1. IInv'
    BY NextIInv DEF QueueInv, ValueInv, Moved
<1>2. DataTypes'
    <2>1. new.position \in Nat
        <3>1. CASE Continues(th, new)
            BY <3>1 DEF Continues
        <3>2. ASSUME NEW result, Over(th, new, result) PROVE new.position \in Nat
            BY <3>2, Known, BackOver DEF Over, QueueInv, Moved
        <3>3. QED
            BY <3>1, <3>2 DEF Moved
    <2>2. \A u \in Threads : thread'[u].position \in Nat
        BY <2>1 DEF QueueInv, ValueInv, DataTypes, Moved, OnlyThread
    <2>3. ASSUME NEW o \in Operations
          PROVE  /\ op'[o].phase \in Phases /\ op'[o].result \in Results
                 /\ op'[o].moved \in Seq(Elements)
                 /\ op'[o].budget \in Nat /\ op'[o].stop \in BOOLEAN /\ op'[o].registered \in BOOLEAN
        BY DEF QueueInv, ValueInv, DataTypes, Moved, JobMoved
    <2>4. topology' \in Topologies
        BY DEF QueueInv, ValueInv, DataTypes, Moved
    <2>5. QED
        BY <2>2, <2>3, <2>4 DEF DataTypes, Moved, SteadyTypes
<1>3. QED
    BY <1>1, <1>2, MovedNotBefore, MovedTogether, MovedPlaced, MovedTried DEF ValueInv

LEMMA MovedGates ==
    ASSUME QueueInv, NEW t \in Threads, Moved(t) PROVE GateInv'
<1> DEFINE th == thread[t]
           new == thread'[t]
<1> PICK x : x = th.job
    OBVIOUS
<1>0. /\ BaseInv /\ GateInv /\ th.position \in Nat /\ Transferring(th) /\ OnlyThread(t) /\ StaysClosed
      /\ active' = active /\ th.goal # "cancel"
    BY Known, Shaped DEF QueueInv, Moved, Jobs
<1>1. /\ DOMAIN op' = Operations /\ \A o \in Operations \ {x} : op'[o] = op[o]
      /\ x \in Operations =>
           /\ op'[x].phase = op[x].phase /\ op'[x].stop = op[x].stop
           /\ op'[x].result = op[x].result \/ op'[x].result # "Stopped"
    BY DEF Moved, JobMoved
<1>2. GateOps(t)
    <2>1. ASSUME NEW u \in Threads \ {t}, Refusing(u, thread[u])
          PROVE  op'[Call(u)].result = op[Call(u)].result
        <3>1. Carrying(u, thread[u]) /\ Call(u) \in Operations
            BY <2>1, RefusingCarries DEF Call
        <3>2. ~Transferring(thread[u])
            BY <2>1 DEF Refusing, Transferring
        <3>3. x # Call(u)
            BY <1>0, <3>1, <3>2, NotInTransfer
        <3>4. QED
            BY <1>1, <3>1, <3>3
    <2>2. ASSUME NEW o \in Operations
          PROVE  op'[o].phase = op[o].phase /\ op'[o].stop = op[o].stop
        BY <1>1
    <2>3. QED
        BY <1>1, <2>1, <2>2 DEF GateOps
<1>3. \A o \in PopOps : op'[o].result = "Stopped" /\ ~op'[o].stop =>
            op[o].result = "Stopped" /\ ~op[o].stop
    BY <1>1 DEF Operations
<1>4. Gated(t)
    <2>1. CASE Continues(th, new)
        <3>1. /\ Entered(new) <=> Entered(th)
              /\ ~Refusing(t, new) /\ ~Door(new) /\ new.pc # "sweep.all"
              /\ Reserving(new) => Reserving(th)
              /\ Opening(new) => Opening(th)
              /\ new.call = th.call /\ new.goal # "cancel"
            BY <1>0, <2>1 DEF Continues, Entered, Placing, Refusing, Door, Reserving, Opening, Transferring
        <3>2. QED
            BY <1>0, <1>3, <3>1 DEF Gated, Gauge
    <2>2. ASSUME NEW result, Over(th, new, result) PROVE Gated(t)
        <3>1. PICK r : r = new
            OBVIOUS
        <3>2. r = Back(th, result)
            BY <2>2, <3>1 DEF Over
        <3>3. /\ r.call = th.call /\ r.goal = th.goal
              /\ ~Opening(r) /\ r.pc # "sweep.all"
              /\ Entered(r) <=> Entered(th)
              /\ Door(r) => IsPush(r.call)
              /\ Reserving(r) => Reserving(th)
              /\ Refusing(t, r) => th.job = th.call /\ result \in {None, "TooLarge"}
            <4>1. BaseInv /\ th.position \in Nat /\ Transferring(th)
                BY <1>0
            <4>2. QED
                BY <3>2, <4>1, BackOver, ZenonT(40)
        <3>4. Refusing(t, r) => op'[r.call].result = "TooLarge"
            <4>1. SUFFICES ASSUME Refusing(t, r) PROVE op'[r.call].result = "TooLarge"
                OBVIOUS
            <4>2. x = r.call /\ x \in PushOps /\ ~MaySuspend(x) /\ result \in {None, "TooLarge"}
                BY <3>3, <4>1 DEF Refusing
            <4>3. QED
                BY <2>2, <4>2 DEF Over
        <3>5. Gauge(th, r)
            BY <1>0, <3>3 DEF Gauge
        <3>6. QED
            BY <1>0, <1>3, <3>1, <3>3, <3>4, <3>5 DEF Gated, Gauge, Entered, Refusing, Reserving, Door,
               Opening, Placing, Transferring
    <2>3. QED
        BY <2>1, <2>2 DEF Moved
<1>5. QED
    BY <1>0, <1>2, <1>4, GatesKept
-----------------------------------------------------------------------------
(* The steps themselves.                                                   *)
LEMMA SameOpMoved ==
    ASSUME QueueInv, NEW t \in Threads, Transferring(thread[t]), op' = op
    PROVE  JobMoved(thread[t].job)
<1>1. \A o \in Operations : DOMAIN op[o] = OpFields
    BY Known
<1>2. QED
    BY <1>1, Known DEF JobMoved, QueueInv, ValueInv, DataTypes, Placed, Operations

LEMMA ConcludeMoved ==
    ASSUME QueueInv, NEW t \in Threads, Transferring(thread[t]),
           NEW result \in Results \ {"Stopped"}, Conclude(t, result),
           NEW x, x = thread[t].job,
           x \in PushOps => result # "Popped",
           x \in PopOps => result = None \/ (result = "Popped" /\ op[x].moved # << >>)
    PROVE  /\ JobMoved(x) /\ OnlyThread(t) /\ thread'[t] = Back(thread[t], result)
           /\ x \in Operations => op'[x].result = IF result = None THEN op[x].result ELSE result
<1>1. /\ thread' = [thread EXCEPT ![t] = Back(thread[t], result)]
      /\ op' = IF x \in Operations /\ result # None THEN [op EXCEPT ![x].result = result] ELSE op
    BY Known DEF Conclude
<1>2. OnlyThread(t) /\ thread'[t] = Back(thread[t], result)
    BY <1>1, Known DEF OnlyThread
<1>3. CASE ~(x \in Operations /\ result # None)
    <2>1. op' = op
        BY <1>1, <1>3
    <2>2. QED
        BY <1>2, <1>3, <2>1, SameOpMoved
<1>4. CASE x \in Operations /\ result # None
    <2>1. /\ op'[x].result = result /\ op'[x].phase = op[x].phase /\ op'[x].stop = op[x].stop
          /\ op'[x].registered = op[x].registered /\ op'[x].budget = op[x].budget
          /\ op'[x].moved = op[x].moved /\ DOMAIN op'[x] = OpFields
          /\ DOMAIN op' = Operations /\ \A o \in Operations \ {x} : op'[o] = op[o]
        BY <1>1, <1>4, Known, Fields
    <2>2. op[x].budget \in Nat /\ op[x].moved \in Seq(Elements)
        BY <1>4 DEF QueueInv, ValueInv, DataTypes
    <2>3. JobMoved(x)
        BY <1>4, <2>1, <2>2 DEF JobMoved
    <2>4. QED
        BY <1>2, <1>4, <2>1, <2>3
<1>5. QED
    BY <1>3, <1>4

(* What a thread at a push knows of it. *)
LEMMA Pusher ==
    ASSUME QueueInv, NEW t \in Threads, Placing(thread[t]), NEW x, x = thread[t].job
    PROVE  /\ Transferring(thread[t]) /\ IsPush(x) /\ x \in Pushes /\ x \in Calls /\ x \notin PopOps
           /\ x \in TryValues => t \in Producers \cup Consumers
           /\ x \in PushOps => x \notin TryValues /\ op[x].result # "Enqueued" /\ op[x].result # "Popped"
           /\ thread[t].pc = "push" => Pushed(x) = 0 \/ Midway(x)
           /\ thread[t].pc = "publish" => Pushed(x) = 1 /\ SizeOf(x) = 1
           /\ Pushed(x) \in Nat /\ SizeOf(x) \in Nat /\ (x \in PushOps => SizeOf(x) = Size[x])
<1>1. Transferring(thread[t]) /\ IsPush(x)
    BY Shaped DEF QueueInv, Placing, Transferring, Jobs
<1>2. x \in Pushes /\ x \in Calls /\ x \notin PopOps /\ (x \in PushOps => x \notin TryValues)
    BY <1>1, NamesAssumption DEF IsPush, Pushes, Calls, Operations
<1>3. x \in TryValues => t \in Producers \cup Consumers
    BY <1>1, TriedFast DEF QueueInv
<1>4. /\ x \in PushOps => op[x].result # "Enqueued" /\ op[x].result # "Popped"
      /\ thread[t].pc = "push" => Pushed(x) = 0 \/ Midway(x)
      /\ thread[t].pc = "publish" => Pushed(x) = 1 /\ SizeOf(x) = 1
    BY DEF QueueInv, ValueInv, Placed
<1>5. QED
    BY <1>1, <1>2, <1>3, <1>4, PushedCounts DEF SizeOf

(* A push that is concluded. *)
LEMMA PushConcluded ==
    ASSUME QueueInv, NEW t \in Threads, Placing(thread[t]), NEW x, x = thread[t].job,
           NEW result \in Results \ {"Stopped", "Popped"}, Conclude(t, result),
           UNCHANGED <<topology, lifecycle, active>>, SteadyTypes, StaysClosed,
           [StorageNext]_storageVars, freed \subseteq freed', log' = log \/ Appends(x),
           x \in PushOps => /\ result = None => MaySuspend(x)
                            /\ Pushed(x)' = IF result = "Enqueued" THEN Size[x] ELSE 0
    PROVE  Moved(t)
<1> DEFINE th == thread[t]
           new == thread'[t]
<1>1. /\ Transferring(th) /\ x \notin PopOps
      /\ x \in PushOps => op[x].result # "Enqueued" /\ op[x].result # "Popped"
    BY Pusher
<1>2. /\ JobMoved(x) /\ OnlyThread(t) /\ new = Back(th, result)
      /\ x \in Operations => op'[x].result = IF result = None THEN op[x].result ELSE result
    BY <1>1, ConcludeMoved
<1>3. Over(th, new, result)
    BY <1>1, <1>2, NamesAssumption DEF Over, Done, Operations
<1>4. ~Placing(new)
    <2>1. ASSUME NEW r, r = Back(th, result) PROVE ~Placing(r)
        BY <1>1, <2>1, Known, BackOver
    <2>2. QED
        BY <1>2, <2>1
<1>5. PlacedAt(x, new)
    <2>1. x \in PushOps => (op'[x].result = "Enqueued" <=> result = "Enqueued")
        BY <1>1, <1>2, NamesAssumption DEF Operations
    <2>2. QED
        BY <1>4, <2>1 DEF PlacedAt, Placing
<1>6. QED
    BY <1>1, <1>2, <1>3, <1>5 DEF Moved
(* The place of a push's last value stays when one of its values goes in. *)
LEMMA SameLast == \A a, b, c \in Int : a + 1 + b - (c + 1) - 1 = a + b - c - 1
OBVIOUS

LEMMA PushElementMoved ==
    ASSUME QueueInv, NEW t \in Threads, PushElement(t) PROVE Moved(t)
<1> DEFINE th == thread[t]
           new == thread'[t]
<1> PICK x : x = th.job
    OBVIOUS
<1> PICK n : n = Pushed(x)
    OBVIOUS
<1>1. /\ th.pc = "push" /\ Topology = "PublishedCursor" /\ ~Oversized(x) /\ SizeOf(x) > 0
      /\ RoomFor(x) /\ PushAtOnce(<<x, n + 1>>)
      /\ IF n + 1 = SizeOf(x) THEN Conclude(t, "Enqueued") ELSE UNCHANGED <<thread, op>>
      /\ UNCHANGED <<topology, lifecycle, active, buffer>>
      /\ calls' = IF x \in TryValues THEN [calls EXCEPT ![t] = Append(@, x)] ELSE calls
    BY DEF PushElement, At, queueVars
<1>2. Placing(th)
    BY <1>1 DEF Placing
<1>3. /\ Transferring(th) /\ x \in Pushes /\ x \in Calls /\ x \notin PopOps
      /\ x \in TryValues => t \in Producers \cup Consumers
      /\ x \in PushOps => op[x].result # "Enqueued"
      /\ Pushed(x) = 0 \/ Midway(x)
      /\ n \in Nat /\ SizeOf(x) \in Nat /\ (x \in PushOps => SizeOf(x) = Size[x])
    BY <1>1, <1>2, Pusher
<1>4. topology = "Spsc"
    BY <1>1 DEF Topology
<1>5. n + 1 <= SizeOf(x) /\ n + 1 \in 1 .. Capacity
    <2>1. n = 0 \/ n < SizeOf(x)
        BY <1>3 DEF Midway
    <2>2. SizeOf(x) <= Capacity /\ Capacity \in Nat
        BY <1>1, <1>3, CapacityAssumption DEF Oversized
    <2>3. QED
        BY <1>1, <1>3, <2>1, <2>2
<1>6. <<x, n + 1>> \in Values
    BY <1>3, <1>5, QueueAssumption DEF Elements
<1>7. /\ [StorageNext]_storageVars /\ freed' = freed /\ log' = Append(log, <<x, n + 1>>)
    BY <1>1, <1>6 DEF StorageNext, PushAtOnce
<1>8. Appends(x)
    BY <1>3, <1>6, <1>7 DEF Appends, Midway
<1>9. Pushed(x)' = n + 1
    BY <1>3, <1>8, AppendTogether DEF Appends
<1>10. SteadyTypes /\ StaysClosed
    BY <1>1, <1>3, SameTypes
<1>11. CASE n + 1 = SizeOf(x)
    <2>1. Conclude(t, "Enqueued") /\ "Enqueued" \in Results \ {"Stopped", "Popped"} /\ "Enqueued" # None
        BY <1>1, <1>11, NamesAssumption DEF Results
    <2>2. x \in PushOps => Pushed(x)' = Size[x]
        BY <1>3, <1>9, <1>11
    <2>3. QED
        BY <1>1, <1>2, <1>7, <1>8, <1>10, <2>1, <2>2, PushConcluded
<1>12. CASE n + 1 # SizeOf(x)
    <2>1. UNCHANGED <<thread, op>>
        BY <1>1, <1>12
    <2>2. JobMoved(x) /\ OnlyThread(t) /\ new = th /\ new.position \in Nat
        BY <1>3, <2>1, SameOpMoved, Known DEF OnlyThread
    <2>3. Continues(th, new)
        BY <1>3, <2>2 DEF Continues
    <2>4. log \in Seq(Values) /\ Len(log') = Len(log) + 1 /\ log'[Len(log')] = <<x, n + 1>>
        BY <1>6, <1>7, AppendProperties DEF QueueInv, ValueInv, IInv, StorageTypeOK
    <2>5. Midway(x)'
        <3>1. /\ topology' = "Spsc" /\ ~Oversized(x)' /\ Pushed(x)' < SizeOf(x)
            BY <1>1, <1>3, <1>4, <1>5, <1>9, <1>12 DEF Oversized
        <3>2. RoomFor(x)'
            <4>1. Len(log) \in Int /\ SizeOf(x) \in Int /\ n \in Int
                BY <1>3, <2>4, LenProperties
            <4>2. Len(log) + 1 + SizeOf(x) - (n + 1) - 1 = Len(log) + SizeOf(x) - n - 1
                BY <4>1, SameLast
            <4>3. Len(log') + SizeOf(x) - Pushed(x)' - 1 = Len(log) + SizeOf(x) - Pushed(x) - 1
                BY <1>9, <2>4, <4>2
            <4>4. QED
                BY <1>1, <1>7, <4>3 DEF RoomFor, Claimed
        <3>3. log'[Len(log')][1] = x
            BY <2>4
        <3>4. QED
            BY <3>1, <3>2, <3>3 DEF Midway
    <2>6. PlacedAt(x, new)
        BY <1>1, <1>3, <2>1, <2>2, <2>5, <1>2 DEF PlacedAt
    <2>7. QED
        BY <1>1, <1>2, <1>3, <1>7, <1>8, <1>10, <2>2, <2>3, <2>6 DEF Moved
<1>13. QED
    BY <1>11, <1>12

LEMMA PushClaimMoved ==
    ASSUME QueueInv, NEW t \in Threads, PushClaim(t) PROVE Moved(t)
<1> DEFINE th == thread[t]
           new == thread'[t]
<1> PICK x : x = th.job
    OBVIOUS
<1>1. /\ th.pc = "push" /\ Topology = "SequenceCell" /\ Claim(<<x, 1>>)
      /\ thread' = [thread EXCEPT ![t] = [th EXCEPT !.pc = "publish", !.position = Claimed]]
      /\ UNCHANGED <<topology, lifecycle, active, op, buffer>>
      /\ calls' = IF x \in TryValues THEN [calls EXCEPT ![t] = Append(@, x)] ELSE calls
    BY Known DEF PushClaim, At, queueVars
<1>2. Placing(th)
    BY <1>1 DEF Placing
<1>3. /\ Transferring(th) /\ x \in Pushes /\ x \in Calls /\ x \notin PopOps
      /\ x \in TryValues => t \in Producers \cup Consumers
      /\ x \in PushOps => op[x].result # "Enqueued"
      /\ Pushed(x) = 0 \/ Midway(x)
    BY <1>1, <1>2, Pusher
<1>4. topology # "Spsc" /\ topology \in Topologies
    BY <1>1 DEF Topology, QueueInv, ValueInv, DataTypes
<1>5. Pushed(x) = 0
    BY <1>3, <1>4 DEF Midway
<1>6. SizeOf(x) = 1
    <2>1. Topologies # {"Spsc"}
        BY <1>4
    <2>2. QED
        BY <1>3, <2>1, TopologyAssumption DEF SizeOf, Pushes
<1>7. <<x, 1>> \in Values
    BY <1>3, QueueAssumption, CapacityAssumption DEF Elements
<1>8. [StorageNext]_storageVars /\ freed' = freed /\ log' = Append(log, <<x, 1>>)
    BY <1>1, <1>7 DEF StorageNext, Claim
<1>9. Appends(x)
    <2>1. Pushed(x) + 1 = 1
        BY <1>5
    <2>2. QED
        BY <1>5, <1>7, <1>8, <2>1 DEF Appends
<1>10. Pushed(x)' = 1
    BY <1>3, <1>5, <1>9, AppendTogether DEF Appends
<1>11. SteadyTypes /\ StaysClosed
    BY <1>1, <1>3, SameTypes
<1>12. /\ OnlyThread(t) /\ new.pc = "publish" /\ new.position = Len(log) /\ new.job = x
       /\ new.from = th.from /\ new.call = th.call /\ new.goal = th.goal /\ new.ok = th.ok
    BY <1>1, Known, Fields DEF OnlyThread, Claimed
<1>13. Len(log) \in Nat
    BY LenProperties DEF QueueInv, ValueInv, IInv, StorageTypeOK
<1>14. Continues(th, new)
    BY <1>2, <1>12, <1>13 DEF Continues, Transferring, Placing
<1>15. PlacedAt(x, new)
    BY <1>1, <1>3, <1>6, <1>10, <1>12 DEF PlacedAt, Placing
<1>16. JobMoved(x)
    BY <1>1, <1>3, SameOpMoved
<1>17. QED
    BY <1>1, <1>2, <1>3, <1>8, <1>9, <1>11, <1>12, <1>14, <1>15, <1>16 DEF Moved

LEMMA PushPublishMoved ==
    ASSUME QueueInv, NEW t \in Threads, PushPublish(t) PROVE Moved(t)
<1> DEFINE th == thread[t]
<1> PICK x : x = th.job
    OBVIOUS
<1>1. /\ th.pc = "publish" /\ Publish(th.position) /\ Conclude(t, "Enqueued")
      /\ UNCHANGED <<topology, lifecycle, active, buffer, calls>>
    BY DEF PushPublish, At, queueVars
<1>2. Placing(th)
    BY <1>1 DEF Placing
<1>3. /\ Transferring(th) /\ Pushed(x) = 1 /\ SizeOf(x) = 1
      /\ x \in PushOps => SizeOf(x) = Size[x]
    BY <1>1, <1>2, Pusher
<1>4. [StorageNext]_storageVars /\ freed' = freed /\ log' = log
    <2>1. th.position \in 0 .. Claimed - 1
        <3>1. Claimed \in Nat
            BY LenProperties DEF QueueInv, ValueInv, IInv, StorageTypeOK, Claimed
        <3>2. QED
            BY <1>1, <3>1, Known DEF Publish
    <2>2. QED
        BY <1>1, <2>1 DEF StorageNext, Publish
<1>5. Pushed(x)' = Pushed(x)
    BY <1>1, <1>4, SamePushed
<1>6. "Enqueued" \in Results \ {"Stopped", "Popped"} /\ "Enqueued" # None
    BY NamesAssumption DEF Results
<1>7. QED
    BY <1>1, <1>2, <1>3, <1>4, <1>5, <1>6, SameTypes, PushConcluded

LEMMA PushUnplacedMoved ==
    ASSUME QueueInv, NEW t \in Threads, PushUnplaced(t) PROVE Moved(t)
<1> DEFINE th == thread[t]
           new == thread'[t]
<1> PICK x : x = th.job
    OBVIOUS
<1>1. /\ th.pc = "push" /\ UNCHANGED <<topology, lifecycle, active, storageVars, buffer, calls>>
      /\ \/ Oversized(x) /\ Conclude(t, "TooLarge")
         \/ SizeOf(x) = 0 /\ Conclude(t, "Enqueued")
         \/ /\ ~RoomFor(x)
            /\ \/ /\ x \in PushOps /\ op[x].budget > 0
                  /\ op' = [op EXCEPT ![x].budget = @ - 1] /\ UNCHANGED thread
               \/ Conclude(t, IF x \in TryValues \/ MaySuspend(x) THEN None ELSE Policy[x])
    BY DEF PushUnplaced, At, queueVars
<1>2. Placing(th)
    BY <1>1 DEF Placing
<1>3. /\ Transferring(th) /\ IsPush(x)
      /\ x \in PushOps => x \notin TryValues /\ op[x].result # "Enqueued" /\ op[x].result # "Popped"
      /\ Pushed(x) = 0 \/ Midway(x)
      /\ Pushed(x) \in Nat /\ SizeOf(x) \in Nat /\ (x \in PushOps => SizeOf(x) = Size[x])
    BY <1>1, <1>2, Pusher
<1>4. Pushed(x) = 0
    BY <1>1, <1>3 DEF Midway
<1>5. log' = log /\ freed' = freed /\ [StorageNext]_storageVars /\ SteadyTypes /\ StaysClosed
    BY <1>1, SameTypes DEF storageVars
<1>6. Pushed(x)' = 0
    BY <1>1, <1>4, <1>5, SamePushed
<1>7. ASSUME NEW result \in Results \ {"Stopped", "Popped"}, Conclude(t, result),
             x \in PushOps => /\ result = None => MaySuspend(x)
                              /\ result = "Enqueued" => SizeOf(x) = 0
      PROVE  Moved(t)
    <2>1. x \in PushOps => /\ result = None => MaySuspend(x)
                           /\ Pushed(x)' = IF result = "Enqueued" THEN Size[x] ELSE 0
        BY <1>3, <1>6, <1>7
    <2>2. QED
        BY <1>1, <1>2, <1>5, <1>7, <2>1, PushConcluded
<1>8. {"Enqueued", "TooLarge", "Reject", "Drop", None} \subseteq Results \ {"Stopped", "Popped"}
      /\ "Enqueued" # None /\ "TooLarge" # None
    BY NamesAssumption DEF Results, Errors
<1>9. CASE Oversized(x) /\ Conclude(t, "TooLarge")
    BY <1>7, <1>8, <1>9
<1>10. CASE SizeOf(x) = 0 /\ Conclude(t, "Enqueued")
    BY <1>7, <1>8, <1>10
<1>11. CASE Conclude(t, IF x \in TryValues \/ MaySuspend(x) THEN None ELSE Policy[x])
    <2>1. CASE x \in TryValues \/ MaySuspend(x)
        <3>1. Conclude(t, None)
            BY <1>11, <2>1
        <3>2. QED
            BY <1>3, <1>7, <1>8, <2>1, <3>1
    <2>2. CASE ~(x \in TryValues \/ MaySuspend(x))
        <3>1. Conclude(t, Policy[x]) /\ x \in PushOps
            BY <1>3, <1>11, <2>2 DEF IsPush
        <3>2. Policy[x] \in {"Reject", "Drop"}
            BY <2>2, <3>1, QueueAssumption DEF MaySuspend
        <3>3. Policy[x] \in Results \ {"Stopped", "Popped"} /\ Policy[x] # None /\ Policy[x] # "Enqueued"
            BY <1>8, <3>2, NamesAssumption
        <3>4. QED
            BY <1>7, <3>1, <3>3
    <2>3. QED
        BY <2>1, <2>2
<1>12. CASE x \in PushOps /\ op[x].budget > 0 /\ op' = [op EXCEPT ![x].budget = @ - 1] /\ UNCHANGED thread
    <2>1. x \in Operations /\ x \notin PopOps /\ op[x].budget \in Nat /\ op[x].moved \in Seq(Elements)
        BY <1>12, NamesAssumption DEF Operations, QueueInv, ValueInv, DataTypes
    <2>2. /\ op'[x].result = op[x].result /\ op'[x].phase = op[x].phase /\ op'[x].stop = op[x].stop
          /\ op'[x].registered = op[x].registered /\ op'[x].budget = op[x].budget - 1
          /\ op'[x].moved = op[x].moved /\ DOMAIN op'[x] = OpFields
          /\ DOMAIN op' = Operations /\ \A o \in Operations \ {x} : op'[o] = op[o]
        BY <1>12, <2>1, Known, Fields
    <2>3. op'[x].budget \in Nat
        BY <1>12, <2>1, <2>2
    <2>4. JobMoved(x)
        BY <1>3, <1>12, <2>1, <2>2, <2>3 DEF JobMoved
    <2>5. OnlyThread(t) /\ new = th /\ new.position \in Nat
        BY <1>12, Known DEF OnlyThread
    <2>6. Continues(th, new)
        BY <1>3, <2>5 DEF Continues
    <2>7. PlacedAt(x, new)
        BY <1>1, <1>2, <1>3, <1>6, <2>2, <2>5 DEF PlacedAt
    <2>8. QED
        BY <1>1, <1>3, <1>5, <2>4, <2>5, <2>6, <2>7 DEF Moved
<1>13. QED
    BY <1>1, <1>9, <1>10, <1>11, <1>12
LEMMA Popper ==
    ASSUME QueueInv, NEW t \in Threads, thread[t].pc \in {"pop", "pop.free", "pop.advance"},
           NEW x, x = thread[t].job
    PROVE  /\ Transferring(thread[t]) /\ ~Placing(thread[t]) /\ x \in PopOps \cup {None}
           /\ x \notin PushOps /\ (x \in Operations <=> x # None)
           /\ x = None => t \in Producers \cup Consumers
<1>1. Transferring(thread[t]) /\ ~Placing(thread[t]) /\ x \in PopOps \cup {None}
    BY Shaped DEF QueueInv, Placing, Transferring, Jobs
<1>2. x \notin PushOps /\ (x \in Operations <=> x # None)
    BY <1>1, NamesAssumption DEF Operations, Calls
<1>3. ASSUME x = None PROVE t \in Consumers
    <2>1. thread[t].from \in {"fast", "poll", "reserved", "front"}
        BY <1>1, Shaped DEF QueueInv, Jobs
    <2>2. thread[t].from = "poll"
        BY <1>1, <1>3, <2>1, Shaped, NamesAssumption DEF QueueInv, Jobs, OwnStart, OwnTry, Calls
    <2>3. QED
        BY <1>1, <2>2, Shaped DEF QueueInv, Jobs, OwnPoll
<1>4. QED
    BY <1>1, <1>2, <1>3

(* A step of a pop is a move if it changes its operation, its thread and   *)
(* the storage as it may.                                                  *)
LEMMA PopMoved ==
    ASSUME QueueInv, NEW t \in Threads, thread[t].pc \in {"pop", "pop.free", "pop.advance"},
           OnlyThread(t), JobMoved(thread[t].job),
           UNCHANGED <<topology, lifecycle, active>>, SteadyTypes, StaysClosed,
           [StorageNext]_storageVars, log' = log, freed \subseteq freed',
           \/ Continues(thread[t], thread'[t])
           \/ \E result : Over(thread[t], thread'[t], result)
    PROVE  Moved(t)
<1> DEFINE th == thread[t]
           new == thread'[t]
<1> PICK x : x = th.job
    OBVIOUS
<1>1. Transferring(th) /\ ~Placing(th) /\ x \notin PushOps
    BY Popper
<1>2. ~Placing(new)
    <2>1. CASE Continues(th, new)
        BY <1>1, <2>1 DEF Continues
    <2>2. ASSUME NEW result, Over(th, new, result) PROVE ~Placing(new)
        <3>1. ASSUME NEW r, r = Back(th, result) PROVE ~Placing(r)
            BY <1>1, <3>1, Known, BackOver
        <3>2. QED
            BY <2>2, <3>1 DEF Over
    <2>3. QED
        BY <2>1, <2>2
<1>3. PlacedAt(x, new)
    BY <1>1, <1>2 DEF PlacedAt, Placing
<1>4. QED
    BY <1>1, <1>3 DEF Moved

LEMMA HeadElement ==
    ASSUME QueueInv, HasItem
    PROVE  log[taken + 1] \in Elements /\ taken \in Nat /\ taken \in 0 .. Claimed - 1
<1>1. log \in Seq(Values) /\ taken \in 0 .. Claimed - 1 /\ Claimed \in Nat
    BY LenProperties DEF QueueInv, ValueInv, IInv, StorageTypeOK, HasItem, Claimed
<1>2. taken + 1 \in 1 .. Len(log)
    BY <1>1 DEF Claimed
<1>3. QED
    BY <1>1, <1>2, ElementOfSeq, QueueAssumption

LEMMA MoveHeadMoved ==
    ASSUME QueueInv, NEW t \in Threads, thread[t].pc \in {"pop", "pop.advance"}, HasItem, MoveHead(t)
    PROVE  /\ OnlyThread(t) /\ JobMoved(thread[t].job)
           /\ \/ Continues(thread[t], thread'[t])
              \/ \E result : Over(thread[t], thread'[t], result)
           /\ \/ calls' = calls
              \/ \E u \in Producers \cup Consumers : \E e \in Calls \cup Elements :
                   calls' = [calls EXCEPT ![u] = Append(@, e)]
<1> DEFINE th == thread[t]
           new == thread'[t]
           e == log[taken + 1]
<1> PICK x : x = th.job
    OBVIOUS
<1>1. /\ \/ thread' = [thread EXCEPT ![t] = Back(th, "Popped")]
         \/ thread' = [thread EXCEPT ![t] = [th EXCEPT !.pc = "pop.free", !.position = taken]]
         \/ thread' = [thread EXCEPT ![t] = [th EXCEPT !.pc = "pop"]]
      /\ x = None => op' = op /\ calls' = [calls EXCEPT ![t] = Append(@, e)]
      /\ x # None => /\ op' = [op EXCEPT ![x].moved = Append(@, e), ![x].result = "Popped"]
                     /\ calls' = calls
    BY Known DEF MoveHead
<1>2. e \in Elements /\ taken \in Nat
    BY HeadElement
<1>3. /\ Transferring(th) /\ ~Placing(th) /\ x \in PopOps \cup {None} /\ x \notin PushOps
      /\ x \in Operations <=> x # None
      /\ x = None => t \in Producers \cup Consumers
    BY Popper
<1> HIDE DEF e
<1>4. JobMoved(x)
    <2>1. CASE x = None
        BY <1>1, <1>3, <2>1, SameOpMoved
    <2>2. CASE x # None
        <3>1. /\ x \in Operations /\ op[x].budget \in Nat /\ op[x].moved \in Seq(Elements)
              /\ op' = [op EXCEPT ![x].moved = Append(op[x].moved, e), ![x].result = "Popped"]
            BY <1>1, <1>3, <2>2 DEF QueueInv, ValueInv, DataTypes
        <3>2. /\ op'[x].result = "Popped" /\ op'[x].phase = op[x].phase /\ op'[x].stop = op[x].stop
              /\ op'[x].registered = op[x].registered /\ op'[x].budget = op[x].budget
              /\ op'[x].moved = Append(op[x].moved, e) /\ DOMAIN op'[x] = OpFields
              /\ DOMAIN op' = Operations /\ \A o \in Operations \ {x} : op'[o] = op[o]
            BY <3>1, Known, Fields
        <3>3. /\ Append(op[x].moved, e) \in Seq(Elements)
              /\ Append(op[x].moved, e) # << >>
            BY <1>2, <3>1, AppendProperties
        <3>4. QED
            BY <1>3, <3>1, <3>2, <3>3 DEF JobMoved, Results
    <2>3. QED
        BY <2>1, <2>2
<1>5. OnlyThread(t)
    BY <1>1, Known DEF OnlyThread
<1>6. \/ new = Back(th, "Popped")
      \/ Continues(th, new)
    <2>1. CASE thread' = [thread EXCEPT ![t] = Back(th, "Popped")]
        BY <2>1, Known
    <2>2. CASE thread' = [thread EXCEPT ![t] = [th EXCEPT !.pc = "pop.free", !.position = taken]]
        <3>1. /\ new.pc = "pop.free" /\ new.position = taken /\ new.job = th.job /\ new.from = th.from
              /\ new.call = th.call /\ new.goal = th.goal /\ new.ok = th.ok
            BY <2>2, Known, Fields
        <3>2. QED
            BY <1>2, <1>3, <3>1 DEF Continues, Transferring, Placing
    <2>3. CASE thread' = [thread EXCEPT ![t] = [th EXCEPT !.pc = "pop"]]
        <3>1. /\ new.pc = "pop" /\ new.position \in Nat /\ new.job = th.job /\ new.from = th.from
              /\ new.call = th.call /\ new.goal = th.goal /\ new.ok = th.ok
            BY <2>3, Known, Fields
        <3>2. QED
            BY <1>2, <1>3, <3>1 DEF Continues, Transferring, Placing
    <2>4. QED
        BY <1>1, <2>1, <2>2, <2>3
<1>7. new = Back(th, "Popped") => Over(th, new, "Popped")
    BY <1>3, NamesAssumption DEF Over
<1>8. \/ calls' = calls
      \/ \E u \in Producers \cup Consumers : \E f \in Calls \cup Elements :
           calls' = [calls EXCEPT ![u] = Append(@, f)]
    BY <1>1, <1>2, <1>3
<1>9. QED
    BY <1>4, <1>5, <1>6, <1>7, <1>8

LEMMA PopTakenMoved ==
    ASSUME QueueInv, NEW t \in Threads, PopTake(t) \/ PopAdvance(t) PROVE Moved(t)
<1>1. /\ thread[t].pc \in {"pop", "pop.advance"} /\ Take /\ HasItem /\ MoveHead(t)
      /\ UNCHANGED <<topology, lifecycle, active, buffer>>
    BY DEF PopTake, PopAdvance, At, queueVars, Take
<1>2. [StorageNext]_storageVars /\ log' = log /\ freed' = freed
    BY <1>1 DEF StorageNext, Take
<1>3. SteadyTypes /\ StaysClosed
    BY <1>1, MoveHeadMoved, SameTypes
<1>4. QED
    BY <1>1, <1>2, <1>3, MoveHeadMoved, PopMoved

LEMMA PopElementMoved ==
    ASSUME QueueInv, NEW t \in Threads, PopElement(t) PROVE Moved(t)
<1>1. /\ thread[t].pc = "pop" /\ HasItem /\ MoveHead(t)
      /\ UNCHANGED <<topology, lifecycle, active>>
      /\ \/ StoreBuffers /\ Take /\ Delay(t, "free", taken)
         \/ PopAtOnce /\ UNCHANGED buffer
    BY DEF PopElement, At, queueVars, Take, PopAtOnce
<1>2. [StorageNext]_storageVars /\ log' = log /\ freed \subseteq freed'
    BY <1>1 DEF StorageNext, Take, PopAtOnce
<1>3. SteadyTypes /\ StaysClosed
    <2>1. CASE UNCHANGED buffer
        BY <1>1, <2>1, MoveHeadMoved, SameTypes
    <2>2. CASE StoreBuffers /\ Delay(t, "free", taken)
        <3> DEFINE store == [variable |-> "free", value |-> taken]
                   b == buffer[t]
        <3>1. store \in Stores /\ store.variable = "free"
            BY <1>1, HeadElement DEF Stores
        <3>2. /\ DOMAIN buffer = Threads /\ \A u \in Threads : buffer[u] \in Seq(Stores)
              /\ lifecycle \in {"Open", "Closing", "Aborted"}
              /\ DOMAIN calls = Producers \cup Consumers
              /\ \A u \in Producers \cup Consumers : calls[u] \in Seq(Calls \cup Elements)
            BY DEF QueueInv, ValueInv, DataTypes
        <3>3. /\ DOMAIN buffer' = Threads /\ buffer'[t] = Append(b, store)
              /\ \A u \in Threads \ {t} : buffer'[u] = buffer[u]
            BY <2>2, <3>2 DEF Delay
        <3> HIDE DEF store
        <3>4. /\ Append(b, store) \in Seq(Stores) /\ Len(b) \in Nat
              /\ Len(Append(b, store)) = Len(b) + 1
              /\ \A i \in 1 .. Len(b) : Append(b, store)[i] = b[i]
            BY <3>1, <3>2, AppendProperties, LenProperties
        <3>5. \A u \in Threads : buffer'[u] \in Seq(Stores)
            BY <3>2, <3>3, <3>4
        <3>6. ASSUME NEW u \in Threads, ClosedBy(lifecycle, buffer[u])
              PROVE  ClosedBy(lifecycle', buffer'[u])
            <4>1. CASE u # t
                BY <1>1, <3>3, <3>6, <4>1 DEF ClosedBy
            <4>2. CASE u = t
                <5>1. CASE lifecycle # "Open"
                    BY <1>1, <5>1 DEF ClosedBy
                <5>2. CASE lifecycle = "Open"
                    <6>1. PICK i \in 1 .. Len(b) : b[i].variable = "lifecycle"
                        BY <3>6, <4>2, <5>2 DEF ClosedBy
                    <6>2. i \in 1 .. Len(buffer'[t]) /\ buffer'[t][i] = b[i]
                        BY <3>3, <3>4, <6>1
                    <6>3. QED
                        BY <4>2, <6>1, <6>2 DEF ClosedBy
                <5>3. QED
                    BY <5>1, <5>2
            <4>3. QED
                BY <4>1, <4>2
        <3>7. StaysClosed
            BY <3>5, <3>6, ClosedKept
        <3>8. /\ DOMAIN calls' = Producers \cup Consumers
              /\ \A u \in Producers \cup Consumers : calls'[u] \in Seq(Calls \cup Elements)
            <4>1. CASE calls' = calls
                BY <3>2, <4>1
            <4>2. ASSUME NEW u \in Producers \cup Consumers, NEW e \in Calls \cup Elements,
                         calls' = [calls EXCEPT ![u] = Append(@, e)]
                  PROVE  /\ DOMAIN calls' = Producers \cup Consumers
                         /\ \A v \in Producers \cup Consumers : calls'[v] \in Seq(Calls \cup Elements)
                <5>1. Append(calls[u], e) \in Seq(Calls \cup Elements)
                    BY <3>2, <4>2, AppendProperties
                <5>2. QED
                    BY <3>2, <4>2, <5>1
            <4>3. QED
                BY <1>1, <4>1, <4>2, MoveHeadMoved
        <3>9. QED
            BY <1>1, <2>2, <3>2, <3>3, <3>5, <3>7, <3>8 DEF SteadyTypes
    <2>3. QED
        BY <1>1, <2>1, <2>2
<1>4. QED
    BY <1>1, <1>2, <1>3, MoveHeadMoved, PopMoved

LEMMA PopFreeMoved ==
    ASSUME QueueInv, NEW t \in Threads, PopFree(t) \/ PopRelease(t) PROVE Moved(t)
<1> DEFINE th == thread[t]
           new == thread'[t]
<1>1. /\ th.pc \in {"pop", "pop.free"} /\ \E p : Free(p)
      /\ UNCHANGED <<topology, lifecycle, active, op, buffer, calls>>
      /\ \/ thread' = [thread EXCEPT ![t] = Back(th, "Popped")]
         \/ \E pc \in {"pop", "pop.advance"} : thread' = [thread EXCEPT ![t] = [th EXCEPT !.pc = pc]]
    BY Known DEF PopFree, PopRelease, At, queueVars, Goto
<1>2. [StorageNext]_storageVars /\ log' = log /\ freed \subseteq freed'
    <2>1. PICK p : Free(p)
        BY <1>1
    <2>2. p \in 0 .. Claimed - 1
        BY <2>1 DEF Free, QueueInv, ValueInv, IInv, StorageTypeOK
    <2>3. QED
        BY <2>1, <2>2 DEF StorageNext, Free
<1>3. /\ Transferring(th) /\ ~Placing(th) /\ th.job \notin PushOps
    BY <1>1, Popper
<1>4. OnlyThread(t) /\ JobMoved(th.job)
    BY <1>1, <1>3, Known, SameOpMoved DEF OnlyThread
<1>5. Continues(th, new) \/ Over(th, new, "Popped")
    <2>1. CASE thread' = [thread EXCEPT ![t] = Back(th, "Popped")]
        BY <1>3, <2>1, Known, NamesAssumption DEF Over
    <2>2. ASSUME NEW pc \in {"pop", "pop.advance"}, thread' = [thread EXCEPT ![t] = [th EXCEPT !.pc = pc]]
          PROVE  Continues(th, new)
        <3>1. /\ new.pc = pc /\ new.position \in Nat /\ new.job = th.job /\ new.from = th.from
              /\ new.call = th.call /\ new.goal = th.goal /\ new.ok = th.ok
            BY <2>2, Known, Fields
        <3>2. QED
            BY <1>3, <2>2, <3>1 DEF Continues, Transferring, Placing
    <2>3. QED
        BY <1>1, <2>1, <2>2
<1>6. SteadyTypes /\ StaysClosed
    BY <1>1, SameTypes
<1>7. QED
    BY <1>1, <1>2, <1>4, <1>5, <1>6, PopMoved

LEMMA PopNothingMoved ==
    ASSUME QueueInv, NEW t \in Threads, PopNothing(t) PROVE Moved(t)
<1> DEFINE th == thread[t]
<1> PICK x : x = th.job
    OBVIOUS
<1> PICK result : result = IF x # None /\ op[x].moved # << >> THEN "Popped" ELSE None
    OBVIOUS
<1>1. /\ th.pc = "pop" /\ Conclude(t, result)
      /\ UNCHANGED <<topology, lifecycle, active, storageVars, buffer, calls>>
    BY DEF PopNothing, At, queueVars
<1>2. /\ Transferring(th) /\ x \in PopOps \cup {None} /\ x \notin PushOps /\ (x \in Operations <=> x # None)
    BY <1>1, Popper
<1>3. /\ JobMoved(x) /\ OnlyThread(t) /\ thread'[t] = Back(th, result)
      /\ x \in Operations => op'[x].result = IF result = None THEN op[x].result ELSE result
    <2>1. result \in Results \ {"Stopped"}
        BY NamesAssumption DEF Results
    <2>2. x \in PopOps => result = None \/ (result = "Popped" /\ op[x].moved # << >>)
        BY <1>2
    <2>3. QED
        BY <1>1, <1>2, <2>1, <2>2, ConcludeMoved
<1>4. Over(th, thread'[t], result)
    <2>1. x \in PopOps /\ op[x].moved = << >> => op[x].result \notin Done
        BY DEF QueueInv, ValueInv, Placed, Done
    <2>2. x \in Operations /\ result \in {None, "TooLarge"} => op'[x].result \notin Done
        BY <1>2, <1>3, <2>1, NamesAssumption
    <2>3. QED
        BY <1>2, <1>3, <2>2 DEF Over
<1>5. log' = log /\ freed' = freed /\ [StorageNext]_storageVars /\ SteadyTypes /\ StaysClosed
    BY <1>1, SameTypes DEF storageVars
<1>6. QED
    BY <1>1, <1>3, <1>4, <1>5, PopMoved

LEMMA TransferMoved ==
    ASSUME QueueInv, NEW t \in Threads, TransferStep(t) PROVE Moved(t)
BY PushElementMoved, PushClaimMoved, PushPublishMoved, PushUnplacedMoved, PopElementMoved,
   PopTakenMoved, PopFreeMoved, PopNothingMoved DEF TransferStep
-----------------------------------------------------------------------------
(* All of it holds at first and is kept by every step. *)
LEMMA InitValues == Init => ValueInv /\ GateInv
<1> SUFFICES ASSUME Init PROVE ValueInv /\ GateInv
    OBVIOUS
<1>1. /\ topology \in Topologies /\ StorageInit /\ lifecycle = "Open" /\ active = 0
      /\ DOMAIN buffer = Threads /\ \A t \in Threads : buffer[t] = << >>
      /\ DOMAIN calls = Producers \cup Consumers
      /\ \A t \in Producers \cup Consumers : calls[t] = << >>
      /\ \A t \in Threads : thread[t] = NewThread
    BY DEF Init
<1>2. \A o \in Operations :
        /\ op[o].phase = "Constructed" /\ op[o].result = None /\ op[o].moved = << >>
        /\ op[o].stop = FALSE /\ op[o].registered = FALSE /\ op[o].budget \in Nat
    BY QueueAssumption DEF Init, NewOperation
<1>3. \A t \in Threads : /\ thread[t].pc = "idle" /\ thread[t].goal = None
                         /\ thread[t].call = None /\ thread[t].position = 0
    BY <1>1, IdleThread
<1>4. None \notin Done /\ None \in Results
    BY NamesAssumption DEF Done, Results
<1>5. DataTypes
    <2>1. << >> \in Seq(Stores) /\ << >> \in Seq(Elements) /\ << >> \in Seq(Calls \cup Elements)
        BY EmptySeq
    <2>2. \A o \in Operations :
            /\ op[o].phase \in Phases /\ op[o].result \in Results /\ op[o].moved \in Seq(Elements)
            /\ op[o].budget \in Nat /\ op[o].stop \in BOOLEAN /\ op[o].registered \in BOOLEAN
        BY <1>2, <1>4, <2>1 DEF Phases
    <2>3. QED
        <3>1. /\ DOMAIN buffer = Threads /\ \A t \in Threads : buffer[t] \in Seq(Stores)
              /\ DOMAIN calls = Producers \cup Consumers
              /\ \A t \in Producers \cup Consumers : calls[t] \in Seq(Calls \cup Elements)
              /\ topology \in Topologies /\ lifecycle \in {"Open", "Closing", "Aborted"}
            BY <1>1, <2>1
        <3>2. \A t \in Threads : thread[t].position \in Nat
            BY <1>3
        <3>3. QED
            BY <2>2, <3>1, <3>2 DEF DataTypes
<1>6. NotBefore
    BY <1>2, <1>3, <1>4, NamesAssumption DEF NotBefore, Undecided, Call, Calls
<1>7. log = << >> /\ Len(log) = 0
    BY <1>1 DEF StorageInit
<1>8. \A x : Pushed(x) = 0
    <2>1. \A x : {i \in 1 .. Len(log) : log[i][1] = x} = {}
        BY <1>7
    <2>2. QED
        BY <2>1, FS_EmptySet DEF Pushed
<1>9. Together
    <2>1. \A x : Stands(x, 0, 0)
        BY <1>7 DEF Stands
    <2>2. QED
        BY <2>1 DEF Together
<1>10. Placed
    BY <1>2, <1>3, <1>4, <1>8 DEF Placed, Placing, Done, Operations
<1>11. TriedOnce
    BY <1>3, NamesAssumption DEF TriedOnce, Call, Calls
<1>12. PushesPass /\ NeverParked /\ StopsAsked
    BY <1>2, <1>3, NamesAssumption DEF PushesPass, Door, NeverParked, Refusing, Reserving, Transferring,
       StopsAsked, Call, Operations
<1>13. Insiders
    <2>1. {t \in Threads : Entered(thread[t])} = {}
        BY <1>3 DEF Entered, Placing
    <2>2. QED
        BY <1>1, <2>1, FS_EmptySet DEF Insiders
<1>14. QED
    BY <1>1, <1>5, <1>6, <1>9, <1>10, <1>11, <1>12, <1>13, InitIInv DEF ValueInv, GateInv

LEMMA StutterValues == ASSUME QueueInv, UNCHANGED vars PROVE ValueInv' /\ GateInv'
<1>1. /\ UNCHANGED <<topology, log, taken, ready, freed, lifecycle, active, op, thread>>
      /\ buffer' = buffer /\ calls' = calls
    BY DEF vars, queueVars, storageVars, waiters
<1>2. IInv'
    BY <1>1, NextIInv DEF QueueInv, ValueInv, storageVars
<1>3. DataTypes' /\ NotBefore' /\ TriedOnce'
    BY <1>1 DEF QueueInv, ValueInv, DataTypes, NotBefore, TriedOnce, Call, Pushed
<1>4. Together'
    BY <1>1, ZenonT(40) DEF QueueInv, ValueInv, Together, Stands
<1>5. Placed'
    BY <1>1, ZenonT(40)
       DEF QueueInv, ValueInv, Placed, Pushed, Midway, RoomFor, HasRoom, Claimed, Oversized
<1>6. GateInv'
    BY <1>1 DEF QueueInv, GateInv, PushesPass, NeverParked, Insiders, StopsAsked, NotOpen, Lifecycle,
       Call
<1>7. QED
    BY <1>2, <1>3, <1>4, <1>5, <1>6 DEF ValueInv

(* A step is a steady one, a delayed store that becomes visible, or a step *)
(* of a transfer.                                                          *)
LEMMA NextQueue == ASSUME QueueInv, [Next]_vars PROVE QueueInv'
<1>1. BaseInv' /\ SingleUser'
    BY NextBase, NextSingle DEF QueueInv
<1>2. ValueInv' /\ GateInv'
    <2>1. CASE UNCHANGED vars
        BY <2>1, StutterValues
    <2>2. ASSUME NEW t \in Threads, TransferStep(t) PROVE ValueInv' /\ GateInv'
        BY <2>2, TransferMoved, MovedValues, MovedGates
    <2>3. ASSUME NEW t \in Threads, Flush(t) PROVE ValueInv' /\ GateInv'
        BY <2>3, FlushValues
    <2>4. CASE Next /\ ~\E t \in Threads : TransferStep(t) \/ Flush(t)
        <3>1. PICK t \in Threads : SteadyStep(t)
            BY <2>4, NextSteady
        <3>2. ValueInv /\ Steady(t) /\ SteadyTypes
            BY <3>1 DEF SteadyStep, QueueInv
        <3>3. QED
            BY <3>1, <3>2, SteadyValues, SteadyGates
    <2>5. QED
        BY <2>1, <2>2, <2>3, <2>4
<1>3. QED
    BY <1>1, <1>2 DEF QueueInv

(* What the queue's calls say of their transfers is what the ring holds:   *)
(* a push is told Enqueued when all its values are in it, next to each     *)
(* other, and no value is there of a push that was told anything else.     *)
THEOREM QueueInvariant == Spec => []QueueInv
<1>1. Init => QueueInv
    BY InitBase, InitSingle, InitValues DEF QueueInv
<1>2. QueueInv /\ [Next]_vars => QueueInv'
    BY NextQueue
<1>3. QED
    BY <1>1, <1>2, PTL DEF Spec
=============================================================================
