------------------------ MODULE PublishedRing_proofs ------------------------
(***************************************************************************)
(* Proofs about PublishedRing for every Capacity and every set of Values:  *)
(* the type invariant, the safety of slot accesses and of batch pushes,    *)
(* and that the ring implements BoundedFifo.                               *)
(***************************************************************************)
EXTENDS PublishedRing, SequenceTheorems, TLAPS

(* Each cursor copy lags behind the cursor it copies and never a whole lap. *)
Copies ==
    /\ Distance(cachedReadPosition, readPosition)
         + Distance(readPosition, writePosition) <= Capacity
    /\ Distance(readPosition, cachedWritePosition)
         <= Distance(readPosition, writePosition)

(* What the producer knows at each point of TryEmplace. *)
ProducerPhase ==
    /\ producer = "refresh" => NextSlot(writePosition) = cachedReadPosition
    /\ producer \in {"construct", "publish"}
         => NextSlot(writePosition) # cachedReadPosition
    /\ producer = "publish" => slots[writePosition] = item
    /\ batchLeft > 0 =>
         batchLeft <= Capacity - Distance(readPosition, writePosition)

(* What the consumer knows at each point of TryPop and Drain. *)
ConsumerPhase ==
    /\ consumer \in {"idle", "refresh"} => cursor = readPosition
    /\ consumer \in {"refresh", "take"} => drainEnd = NextSlot(readPosition)
    /\ consumer \in {"take", "drain", "release"} =>
         Distance(readPosition, drainEnd)
           <= Distance(readPosition, cachedWritePosition)
    /\ Taking => Distance(readPosition, cursor) < Distance(readPosition, drainEnd)
    /\ consumer = "take" => cursor = readPosition
    /\ consumer = "release" => cursor = drainEnd

(* The inductive invariant. *)
IInv ==
    /\ TypeOK
    /\ Copies
    /\ ProducerPhase
    /\ ConsumerPhase
    /\ LiveExactly
    /\ BatchNeverTerminates

-----------------------------------------------------------------------------
(* The initial state satisfies the inductive invariant. *)
LEMMA InitIInv == Init => IInv
BY CapacityAssumption, VacantAssumption
   DEF Init, IInv, TypeOK, Copies, ProducerPhase, ConsumerPhase, LiveExactly,
       BatchNeverTerminates, Taking, Live, Held, Distance, NextSlot, Positions,
       SlotCount

(* The inductive invariant gives the safety of slot accesses. *)
LEMMA IInvSlotSafety == IInv => SlotSafety
BY CapacityAssumption, VacantAssumption
   DEF IInv, TypeOK, Copies, ProducerPhase, ConsumerPhase, LiveExactly,
       SlotSafety, Taking, Live, Held, Distance, NextSlot, Positions, SlotCount

(* Every step of the producer and of the consumer keeps it. *)
LEMMA NextIInv == IInv /\ [Next]_vars => IInv'
<1> SUFFICES ASSUME IInv, [Next]_vars PROVE IInv'
    OBVIOUS
<1> USE CapacityAssumption, VacantAssumption
    DEF IInv, TypeOK, Copies, ProducerPhase, ConsumerPhase, LiveExactly,
        BatchNeverTerminates, Taking, Live, Held, Distance, NextSlot,
        Positions, SlotCount, producerVars, consumerVars
<1>1. ASSUME NEW v \in Values, PushBegin(v) PROVE IInv'
    BY <1>1 DEF PushBegin
<1>2. CASE PushRefresh
    BY <1>2 DEF PushRefresh
<1>3. CASE PushConstruct
    BY <1>3 DEF PushConstruct
<1>4. CASE ConstructThrows
    BY <1>4 DEF ConstructThrows
<1>5. CASE PushPublish
    BY <1>5 DEF PushPublish
<1>6. ASSUME NEW n \in 1 .. Capacity, BatchAdmit(n) PROVE IInv'
    BY <1>6 DEF BatchAdmit
<1>7. CASE PopBegin
    BY <1>7 DEF PopBegin
<1>8. CASE PopRefresh
    BY <1>8 DEF PopRefresh
<1>9. CASE DrainBegin
    BY <1>9 DEF DrainBegin
<1>10. CASE TakeSlot
    BY <1>10 DEF TakeSlot
<1>11. CASE MoveThrows
    BY <1>11 DEF MoveThrows
<1>12. CASE ReleaseSlots
    BY <1>12 DEF ReleaseSlots
<1>13. CASE UNCHANGED vars
    BY <1>13 DEF vars
<1>14. QED
    BY <1>1, <1>2, <1>3, <1>4, <1>5, <1>6, <1>7, <1>8, <1>9, <1>10, <1>11,
       <1>12, <1>13 DEF Next, ProducerStep, ConsumerStep

(* The inductive invariant holds throughout. *)
THEOREM Inductive == Spec => []IInv
BY InitIInv, NextIInv, PTL DEF Spec

(* Every cursor stays inside the allocation and every variable keeps its   *)
(* type, for every capacity.                                               *)
THEOREM TypeCorrect == Spec => []TypeOK
<1>1. IInv => TypeOK
    BY DEF IInv
<1>2. QED
    BY <1>1, Inductive, PTL

(* No construction over a live object, no move from a dead one, and the    *)
(* two threads never in one slot.                                          *)
THEOREM SlotAccessSafe == Spec => []SlotSafety
BY Inductive, IInvSlotSafety, PTL

(* The live objects are those between the cursors. *)
THEOREM LiveObjects == Spec => []LiveExactly
<1>1. IInv => LiveExactly
    BY DEF IInv
<1>2. QED
    BY <1>1, Inductive, PTL

(* The terminate in PushSingleProducerBatch is unreachable. *)
THEOREM BatchSafe == Spec => []BatchNeverTerminates
<1>1. IInv => BatchNeverTerminates
    BY DEF IInv
<1>2. QED
    BY <1>1, Inductive, PTL

-----------------------------------------------------------------------------
(* Refinement of BoundedFifo. *)

(* What the ring stands for is a sequence of values. *)
LEMMA QueueType ==
    ASSUME IInv
    PROVE  /\ Held \in 0 .. Capacity
           /\ \A k \in 1 .. Held : /\ SlotAfter(k - 1) \in Positions
                                  /\ slots[SlotAfter(k - 1)] \in Values
           /\ Queue \in Seq(Values)
           /\ Len(Queue) = Held
<1> USE CapacityAssumption, VacantAssumption
    DEF IInv, TypeOK, Held, Distance, SlotCount, Positions
<1>1. Held \in 0 .. Capacity
    OBVIOUS
<1>2. ASSUME NEW k \in 1 .. Held
      PROVE  /\ SlotAfter(k - 1) \in Positions
             /\ slots[SlotAfter(k - 1)] \in Values
    <2>1. SlotAfter(k - 1) \in Positions
        BY <1>1, <1>2 DEF SlotAfter
    <2>2. Distance(cursor, SlotAfter(k - 1)) < Held
        BY <1>1, <1>2 DEF SlotAfter
    <2>3. QED
        BY <2>1, <2>2 DEF LiveExactly, Live
<1>3. Queue \in [1 .. Held -> Values]
    BY <1>2 DEF Queue
<1>4. QED
    BY <1>1, <1>2, <1>3

(* Publishing the write cursor appends the constructed value. *)
LEMMA PublishEnqueues ==
    ASSUME IInv, PushPublish
    PROVE  Fifo!Enqueue(item)
<1> USE CapacityAssumption, VacantAssumption
    DEF IInv, TypeOK, Positions, SlotCount, Copies, ProducerPhase,
        ConsumerPhase, Taking
<1>1. Held < Capacity /\ Held' = Held + 1
    BY DEF PushPublish, Held, Distance, NextSlot, consumerVars
<1>2. SlotAfter(Held) = writePosition
    BY DEF SlotAfter, Held, Distance
<1>3. Len(Queue) = Held /\ Queue \in Seq(Values)
    BY QueueType
<1>4. slots' = slots /\ handed' = handed /\ cursor' = cursor
    BY DEF PushPublish, consumerVars
<1>5. Queue' = [k \in 1 .. Held + 1 |-> slots[SlotAfter(k - 1)]]
    BY <1>1, <1>4 DEF Queue, SlotAfter
<1>6. /\ Append(Queue, item) \in Seq(Values)
      /\ Len(Append(Queue, item)) = Held + 1
      /\ \A k \in 1 .. Held : Append(Queue, item)[k] = slots[SlotAfter(k - 1)]
      /\ Append(Queue, item)[Held + 1] = item
    BY <1>3, QueueType, AppendProperties DEF Queue
<1>7. slots[SlotAfter(Held)] = item
    BY <1>2 DEF PushPublish
<1>8. ASSUME NEW k \in 1 .. Held + 1
      PROVE  /\ slots[SlotAfter(k - 1)] \in Values
             /\ Append(Queue, item)[k] = slots[SlotAfter(k - 1)]
    <2>1. CASE k \in 1 .. Held
        BY <2>1, <1>6, QueueType
    <2>2. CASE k = Held + 1
        <3>1. k - 1 = Held
            BY <2>2, QueueType
        <3>2. QED
            BY <2>2, <3>1, <1>6, <1>7
    <2>3. QED
        BY <2>1, <2>2, QueueType
<1>9. Queue' \in Seq(Values) /\ Len(Queue') = Held + 1
    <2>1. Queue' \in [1 .. Held + 1 -> Values]
        BY <1>5, <1>8
    <2>2. Held + 1 \in Nat
        BY QueueType
    <2>3. QED
        BY <2>1, <2>2
<1>10. Queue' = Append(Queue, item)
    BY <1>5, <1>6, <1>8, <1>9, SeqEqual
<1>11. QED
    BY <1>1, <1>3, <1>4, <1>10 DEF Fifo!Enqueue

(* Taking a slot removes the head of the queue and hands it over. *)
LEMMA TakeDequeues ==
    ASSUME IInv, TakeSlot
    PROVE  Fifo!Dequeue
<1> USE CapacityAssumption, VacantAssumption
    DEF IInv, TypeOK, Positions, SlotCount, Copies, ConsumerPhase, Taking
<1>1. Held > 0 /\ Held' = Held - 1 /\ writePosition' = writePosition
    BY DEF TakeSlot, Held, Distance, NextSlot, producerVars
<1>2. Len(Queue) = Held /\ Queue \in Seq(Values) /\ Queue # << >>
    BY <1>1, QueueType
<1>3. \A k \in 1 .. Held - 1 :
         /\ SlotAfter(k - 1)' = SlotAfter(k)
         /\ SlotAfter(k) # cursor
         /\ SlotAfter(k) \in Positions
    BY <1>1, QueueType DEF SlotAfter, TakeSlot, NextSlot
<1>4. \A k \in 1 .. Held - 1 : slots'[SlotAfter(k - 1)'] = slots[SlotAfter(k)]
    BY <1>3 DEF TakeSlot
<1>5. Queue' = [k \in 1 .. Held - 1 |-> slots[SlotAfter(k)]]
    BY <1>1, <1>4 DEF Queue
<1>6. ASSUME NEW k \in 1 .. Held - 1
      PROVE  /\ Queue[k + 1] = slots[SlotAfter(k)]
             /\ slots[SlotAfter(k)] \in Values
    <2>1. k + 1 \in 1 .. Held /\ (k + 1) - 1 = k
        BY QueueType
    <2>2. QED
        BY <2>1, QueueType DEF Queue
<1>7. Queue' \in [1 .. Held - 1 -> Values] /\ Held - 1 \in Nat
    BY <1>1, <1>5, <1>6, QueueType
<1>8. Queue' \in Seq(Values) /\ Len(Queue') = Held - 1
    BY <1>7
<1>9. /\ Tail(Queue) \in Seq(Values) /\ Len(Tail(Queue)) = Held - 1
      /\ \A k \in 1 .. Held - 1 : Tail(Queue)[k] = Queue[k + 1]
    BY <1>2, HeadTailProperties
<1>10. Queue' = Tail(Queue)
    BY <1>5, <1>6, <1>8, <1>9, SeqEqual
<1>11. Head(Queue) = slots[cursor]
    BY <1>1, <1>2, QueueType DEF Queue, SlotAfter
<1>12. QED
    BY <1>2, <1>10, <1>11 DEF Fifo!Dequeue, TakeSlot

(* Every other step leaves the queue alone. *)
LEMMA OthersStutter ==
    ASSUME IInv, [Next]_vars, ~PushPublish, ~TakeSlot
    PROVE  UNCHANGED <<Queue, handed>>
<1> USE CapacityAssumption, VacantAssumption
    DEF IInv, TypeOK, Positions, SlotCount, Copies, ProducerPhase,
        ConsumerPhase, Taking
<1>1. /\ UNCHANGED <<handed, cursor, writePosition>>
      /\ slots' = slots \/ PushConstruct
    BY DEF Next, ProducerStep, ConsumerStep, PushBegin, PushRefresh,
           PushConstruct, ConstructThrows, BatchAdmit, PopBegin, PopRefresh,
           DrainBegin, MoveThrows, ReleaseSlots, vars, producerVars,
           consumerVars
<1>2. Held' = Held
    BY <1>1 DEF Held, Distance
<1>3. \A k \in 1 .. Held : /\ SlotAfter(k - 1)' = SlotAfter(k - 1)
                          /\ SlotAfter(k - 1) # writePosition
    BY <1>1, QueueType DEF SlotAfter, Held, Distance
<1>4. \A k \in 1 .. Held : slots'[SlotAfter(k - 1)] = slots[SlotAfter(k - 1)]
    BY <1>1, <1>3, QueueType DEF PushConstruct
<1>5. Queue' = Queue
    BY <1>2, <1>3, <1>4 DEF Queue
<1>6. QED
    BY <1>1, <1>5

(* The ring implements the bounded FIFO: whatever the copies of the        *)
(* cursors say, values come out once each, in order, and never more than   *)
(* Capacity are held.                                                      *)
THEOREM Implements == Spec => FifoSpec
<1>1. Init => Fifo!Init
    <2> SUFFICES ASSUME Init PROVE Queue = << >> /\ handed = << >>
        BY DEF Fifo!Init
    <2>1. Held = 0
        BY DEF Init, Held, Distance
    <2>2. Queue = << >>
        BY <2>1 DEF Queue
    <2>3. QED
        BY <2>2 DEF Init
<1>2. IInv /\ [Next]_vars => [Fifo!Next]_(Fifo!vars)
    <2> SUFFICES ASSUME IInv, [Next]_vars PROVE [Fifo!Next]_(Fifo!vars)
        OBVIOUS
    <2>1. CASE PushPublish
        BY <2>1, PublishEnqueues DEF Fifo!Next, IInv, TypeOK
    <2>2. CASE TakeSlot
        BY <2>2, TakeDequeues DEF Fifo!Next
    <2>3. CASE ~PushPublish /\ ~TakeSlot
        BY <2>3, OthersStutter DEF Fifo!vars
    <2>4. QED
        BY <2>1, <2>2, <2>3
<1>3. QED
    BY <1>1, <1>2, Inductive, PTL DEF Spec, FifoSpec, Fifo!Spec
=============================================================================
