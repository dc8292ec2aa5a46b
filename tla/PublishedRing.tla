--------------------------- MODULE PublishedRing ---------------------------
(***************************************************************************)
(* The published-cursor protocol of RingBuffer (Core/RingBuffer.h): one    *)
(* producer and one consumer, each owning a cursor that it publishes with  *)
(* a release store and keeping a private, possibly outdated copy of the    *)
(* other side's cursor.  Capacity + 1 slots are allocated, so that equal   *)
(* cursors mean empty.  One action per access to memory the other thread   *)
(* can see; a cursor its owner loads relaxed needs no step of its own.     *)
(***************************************************************************)
EXTENDS Integers, Sequences

CONSTANTS Capacity,  \* elements the ring may hold
          Values,    \* payloads
          Vacant     \* a slot with no live object in it

ASSUME CapacityAssumption == Capacity \in Nat \ {0}
ASSUME VacantAssumption == Vacant \notin Values

VARIABLES
    writePosition, cachedReadPosition,   \* written by the producer only
    readPosition, cachedWritePosition,   \* written by the consumer only
    slots,
    producer,     \* where the producer is in TryEmplace
    item,         \* the argument of the TryEmplace under way
    batchLeft,    \* values a batch push still has to emplace
    consumer,     \* where the consumer is in TryPop or Drain
    cursor,       \* the slot the consumer takes next
    drainEnd,     \* where the TryPop or Drain under way stops
    handed        \* <<the value taken last>>, << >> before the first

producerVars == <<writePosition, cachedReadPosition, producer, item, batchLeft>>
consumerVars ==
    <<readPosition, cachedWritePosition, consumer, cursor, drainEnd, handed>>
vars == <<producerVars, consumerVars, slots>>

SlotCount == Capacity + 1
Positions == 0 .. Capacity

(* Mutant: the cursors wrap one slot too late. *)
NextSlotLate(position) == IF position = SlotCount THEN 0 ELSE position + 1

NextSlot(position) == IF position + 1 = SlotCount THEN 0 ELSE position + 1

(* Mutant: the slot that is always left free is forgotten in the wrap. *)
DistanceShort(read, write) ==
    IF write >= read THEN write - read ELSE write + Capacity - read

(* Number of slots from `read' up to, not including, `write' (SizeApprox). *)
Distance(read, write) ==
    IF write >= read THEN write - read ELSE write + SlotCount - read

Init ==
    /\ writePosition = 0 /\ cachedReadPosition = 0
    /\ readPosition = 0 /\ cachedWritePosition = 0
    /\ slots = [i \in Positions |-> Vacant]
    /\ producer = "idle" /\ item \in Values /\ batchLeft = 0
    /\ consumer = "idle" /\ cursor = 0 /\ drainEnd = 0 /\ handed = << >>

-----------------------------------------------------------------------------
(* TryEmplace, on the producer's thread.                                   *)

PushBegin(v) ==
    /\ producer = "idle"
    /\ item' = v
    /\ producer' = IF NextSlot(writePosition) = cachedReadPosition
                   THEN "refresh" ELSE "construct"
    /\ UNCHANGED <<writePosition, cachedReadPosition, batchLeft, slots,
                   consumerVars>>

(* Mutant: the refreshed cursor is not compared. *)
PushRefreshUnchecked ==
    /\ producer = "refresh"
    /\ cachedReadPosition' = readPosition
    /\ producer' = "construct"
    /\ UNCHANGED <<writePosition, item, batchLeft, slots, consumerVars>>

(* The copy of the read cursor says full: look at the real one.  A batch   *)
(* push whose room was checked beforehand terminates the program instead   *)
(* of reporting a full ring.                                               *)
PushRefresh ==
    /\ producer = "refresh"
    /\ cachedReadPosition' = readPosition
    /\ producer' = IF NextSlot(writePosition) # readPosition THEN "construct"
                   ELSE IF batchLeft > 0 THEN "terminated" ELSE "idle"
    /\ UNCHANGED <<writePosition, item, batchLeft, slots, consumerVars>>

PushConstruct ==
    /\ producer = "construct"
    /\ slots' = [slots EXCEPT ![writePosition] = item]
    /\ producer' = "publish"
    /\ UNCHANGED <<writePosition, cachedReadPosition, item, batchLeft,
                   consumerVars>>

(* The constructor of T throws: nothing is published. *)
ConstructThrows ==
    /\ producer = "construct" /\ batchLeft = 0
    /\ producer' = "idle"
    /\ UNCHANGED <<writePosition, cachedReadPosition, item, batchLeft, slots,
                   consumerVars>>

PushPublish ==
    /\ producer = "publish"
    /\ writePosition' = NextSlot(writePosition)
    /\ batchLeft' = IF batchLeft > 0 THEN batchLeft - 1 ELSE 0
    /\ producer' = "idle"
    /\ UNCHANGED <<cachedReadPosition, item, slots, consumerVars>>

(* The adapter's batch push: admitted only if SizeApprox leaves room for   *)
(* all n values, which are then pushed one by one with PushBegin.          *)
BatchAdmit(n) ==
    /\ producer = "idle" /\ batchLeft = 0
    /\ Capacity - Distance(readPosition, writePosition) >= n
    /\ batchLeft' = n
    /\ UNCHANGED <<writePosition, cachedReadPosition, producer, item, slots,
                   consumerVars>>

-----------------------------------------------------------------------------
(* TryPop (Front, then PopFront) and Drain, on the consumer's thread.      *)

PopBegin ==
    /\ consumer = "idle"
    /\ drainEnd' = NextSlot(readPosition)
    /\ consumer' = IF readPosition # cachedWritePosition
                   THEN "take" ELSE "refresh"
    /\ UNCHANGED <<readPosition, cachedWritePosition, cursor, handed, slots,
                   producerVars>>

(* Mutant: the refreshed cursor is looked at only by the next call. *)
PopRefreshLate ==
    /\ consumer = "refresh"
    /\ consumer' = "idle"
    /\ UNCHANGED <<readPosition, cachedWritePosition, cursor, drainEnd, handed,
                   slots, producerVars>>

PopRefresh ==
    /\ consumer = "refresh"
    /\ cachedWritePosition' = writePosition
    /\ consumer' = IF readPosition # writePosition THEN "take" ELSE "idle"
    /\ UNCHANGED <<readPosition, cursor, drainEnd, handed, slots,
                   producerVars>>

DrainBegin ==
    /\ consumer = "idle"
    /\ cachedWritePosition' = writePosition
    /\ drainEnd' = writePosition
    /\ consumer' = IF readPosition # writePosition THEN "drain" ELSE "release"
    /\ UNCHANGED <<readPosition, cursor, handed, slots, producerVars>>

(* Mutant: the moved-from object is not destroyed. *)
TakeSlotUndestroyed ==
    /\ consumer \in {"take", "drain"}
    /\ handed' = <<slots[cursor]>>
    /\ cursor' = NextSlot(cursor)
    /\ consumer' = IF NextSlot(cursor) = drainEnd THEN "release" ELSE consumer
    /\ UNCHANGED <<readPosition, cachedWritePosition, drainEnd, slots,
                   producerVars>>

(* Move the value out and destroy what is left in the slot. *)
TakeSlot ==
    /\ consumer \in {"take", "drain"}
    /\ handed' = <<slots[cursor]>>
    /\ slots' = [slots EXCEPT ![cursor] = Vacant]
    /\ cursor' = NextSlot(cursor)
    /\ consumer' = IF NextSlot(cursor) = drainEnd THEN "release" ELSE consumer
    /\ UNCHANGED <<readPosition, cachedWritePosition, drainEnd, producerVars>>

(* TryPop only (a sink for Drain may not throw): the move of T throws      *)
(* before PopFront, and the element stays.                                 *)
MoveThrows ==
    /\ consumer = "take"
    /\ consumer' = "idle"
    /\ UNCHANGED <<readPosition, cachedWritePosition, cursor, drainEnd, handed,
                   slots, producerVars>>

ReleaseSlots ==
    /\ consumer = "release"
    /\ readPosition' = drainEnd
    /\ consumer' = "idle"
    /\ UNCHANGED <<cachedWritePosition, cursor, drainEnd, handed, slots,
                   producerVars>>

-----------------------------------------------------------------------------
ProducerStep ==
    \/ \E v \in Values : PushBegin(v)
    \/ PushRefresh \/ PushConstruct \/ ConstructThrows \/ PushPublish
    \/ \E n \in 1 .. Capacity : BatchAdmit(n)

ConsumerStep ==
    \/ PopBegin \/ PopRefresh \/ DrainBegin
    \/ TakeSlot \/ MoveThrows \/ ReleaseSlots

Next == ProducerStep \/ ConsumerStep

Spec == Init /\ [][Next]_vars

(* A consumer that polls, as the blocking Pop does, keeps taking steps, and *)
(* the payload's move does not throw on every attempt.                      *)
PollingConsumer == WF_vars(ConsumerStep) /\ SF_vars(TakeSlot)

-----------------------------------------------------------------------------
(* The queue the two cursors and the slots stand for. *)
Held == Distance(cursor, writePosition)

SlotAfter(k) == IF cursor + k < SlotCount THEN cursor + k
                                          ELSE cursor + k - SlotCount

Queue == [k \in 1 .. Held |-> slots[SlotAfter(k - 1)]]

(* Slots that hold a live object. *)
Live(i) == \/ Distance(cursor, i) < Held
           \/ producer = "publish" /\ i = writePosition

Taking == consumer \in {"take", "drain"}

TypeOK ==
    /\ writePosition \in Positions /\ cachedReadPosition \in Positions
    /\ readPosition \in Positions /\ cachedWritePosition \in Positions
    /\ cursor \in Positions /\ drainEnd \in Positions
    /\ slots \in [Positions -> Values \cup {Vacant}]
    /\ producer \in {"idle", "refresh", "construct", "publish", "terminated"}
    /\ consumer \in {"idle", "refresh", "take", "drain", "release"}
    /\ item \in Values
    /\ batchLeft \in 0 .. Capacity
    /\ handed = << >> \/ \E v \in Values : handed = <<v>>

(* No object is constructed over a live one, no dead object is moved from, *)
(* and the two threads are never at work in the same slot: what the two    *)
(* outdated cursor copies could break (TryEmplace, Front, Drain).          *)
SlotSafety ==
    /\ producer = "construct" => slots[writePosition] = Vacant
    /\ Taking => slots[cursor] # Vacant
    /\ producer = "construct" /\ Taking => writePosition # cursor

(* The live objects are exactly those between the cursors, so that the     *)
(* destructor, which destroys that range, leaks none and destroys none     *)
(* twice whatever calls came before.                                       *)
LiveExactly == \A i \in Positions : slots[i] # Vacant <=> Live(i)

(* A batch that SizeApprox admitted always finds its room: the terminate   *)
(* in PushSingleProducerBatch is unreachable although the cached read      *)
(* cursor may still say full.                                              *)
BatchNeverTerminates == producer # "terminated"

(* The ring implements the bounded FIFO. *)
Fifo == INSTANCE BoundedFifo WITH queue <- Queue
FifoSpec == Fifo!Spec

(* A value in the ring reaches a consumer that keeps polling. *)
EventuallyTaken ==
    \A v \in Values :
        (\E k \in 1 .. Held : Queue[k] = v) ~> handed = <<v>>
=============================================================================
