---------------------------- MODULE SequenceRing ----------------------------
(***************************************************************************)
(* The sequence-cell protocol of RingBuffer (Core/RingBuffer.h), in its    *)
(* MPSC, SPMC and MPMC forms.  A cell's sequence number says which         *)
(* position may use it next: equal to a position, the cell is free for     *)
(* that push; one more, it holds the value of that position.  Several      *)
(* producers (consumers) claim a position by compare-and-swap; a single    *)
(* one just stores its cursor, and does so on the other side of the        *)
(* sequence store.  One action per access to shared memory.                *)
(***************************************************************************)
EXTENDS Integers, Sequences, FiniteSets

CONSTANTS
    Capacity,            \* cells
    Values,              \* payloads
    Vacant,              \* a cell with no live object in it
    Producers, Consumers,
    Topologies,          \* which of "Mpsc", "Spmc" and "Mpmc" there are
    MaxPushes            \* bound on the positions ever claimed

(* Capacity 1 is refused by ValidateRingCapacity: `free for position p' and *)
(* `holds position p - 1' would be the same number.                         *)
ASSUME CapacityAssumption == Capacity \in Nat \ {0, 1}
ASSUME ThreadAssumption ==
    /\ Producers \cap Consumers = {}
    /\ Vacant \notin Values
ASSUME TopologyAssumption == Topologies \subseteq {"Mpsc", "Spmc", "Mpmc"}

VARIABLES
    topology,     \* the template parameter: chosen once
    writePosition, readPosition,
    sequence,     \* the sequence number of each cell
    cell,         \* the object in each cell
    pc,           \* where each thread is in its call
    position,     \* each thread's local `position'
    item,         \* argument of each push
    draining,     \* the consumers inside DrainSequence
    log           \* history: the value claimed for each position

vars == <<writePosition, readPosition, sequence, cell, pc, position, item,
          draining, log, topology>>

(* Mutant: the branch for a single thread is compiled in. *)
NeverContended == FALSE

MultipleProducers == topology \in {"Mpsc", "Mpmc"}
MultipleConsumers == topology \in {"Spmc", "Mpmc"}

Threads == Producers \cup Consumers
Cells == 0 .. Capacity - 1
CellOf(p) == p % Capacity

Goto(t, label) == pc' = [pc EXCEPT ![t] = label]
At(t, label) == pc[t] = label
Aim(t, p) == position' = [position EXCEPT ![t] = p]

(* SequenceDifference *)
Difference(t, expected) == sequence[CellOf(position[t])] - expected

(* The single side of a topology may be used by one thread at a time.      *)
Admitted(t, side, multiple) ==
    multiple \/ \A u \in side \ {t} : At(u, "idle")

Init ==
    /\ topology \in Topologies
    /\ writePosition = 0 /\ readPosition = 0
    /\ sequence = [i \in Cells |-> i]
    /\ cell = [i \in Cells |-> Vacant]
    /\ pc = [t \in Threads |-> "idle"]
    /\ position = [t \in Threads |-> 0]
    /\ item = [p \in Producers |-> Vacant]
    /\ draining = {}
    /\ log = << >>

-----------------------------------------------------------------------------
(* TryEmplaceSequence                                                      *)

PushBegin(p, v) ==
    /\ At(p, "idle") /\ Len(log) < MaxPushes
    /\ Admitted(p, Producers, topology # "Spmc")
    /\ Goto(p, "push.check")
    /\ Aim(p, writePosition)
    /\ item' = [item EXCEPT ![p] = v]
    /\ UNCHANGED <<writePosition, readPosition, sequence, cell, draining, log,
                   topology>>

PushCheck(p) ==
    /\ At(p, "push.check")
    /\ LET difference == Difference(p, position[p]) IN
       IF MultipleProducers
       THEN \/ difference = 0 /\ Goto(p, "push.claim")
            \/ difference < 0 /\ Goto(p, "idle")
            \/ difference > 0 /\ Goto(p, "push.reload")
       ELSE \/ difference = 0 /\ Goto(p, "push.construct")
            \/ difference # 0 /\ Goto(p, "idle")
    /\ UNCHANGED <<writePosition, readPosition, sequence, cell, position, item,
                   draining, log, topology>>

PushReload(p) ==
    /\ At(p, "push.reload")
    /\ Aim(p, writePosition)
    /\ Goto(p, "push.check")
    /\ UNCHANGED <<writePosition, readPosition, sequence, cell, item,
                   draining, log, topology>>

PushClaim(p) ==
    /\ At(p, "push.claim")
    /\ writePosition = position[p]
    /\ writePosition' = position[p] + 1
    /\ log' = Append(log, item[p])
    /\ Goto(p, "push.construct")
    /\ UNCHANGED <<readPosition, sequence, cell, position, item, draining,
                   topology>>

(* The weak compare-and-swap fails: another producer was faster, or for no *)
(* reason.                                                                 *)
PushClaimFails(p) ==
    /\ At(p, "push.claim")
    /\ Aim(p, writePosition)
    /\ Goto(p, "push.check")
    /\ UNCHANGED <<writePosition, readPosition, sequence, cell, item,
                   draining, log, topology>>

PushConstruct(p) ==
    /\ At(p, "push.construct")
    /\ cell' = [cell EXCEPT ![CellOf(position[p])] = item[p]]
    /\ Goto(p, IF MultipleProducers THEN "push.publish" ELSE "push.advance")
    /\ UNCHANGED <<writePosition, readPosition, sequence, position, item,
                   draining, log, topology>>

(* A single producer's store of its cursor. *)
PushAdvance(p) ==
    /\ At(p, "push.advance")
    /\ writePosition' = position[p] + 1
    /\ log' = Append(log, item[p])
    /\ Goto(p, "push.publish")
    /\ UNCHANGED <<readPosition, sequence, cell, position, item, draining,
                   topology>>

PushPublish(p) ==
    /\ At(p, "push.publish")
    /\ sequence' = [sequence EXCEPT ![CellOf(position[p])] = position[p] + 1]
    /\ Goto(p, "idle")
    /\ UNCHANGED <<writePosition, readPosition, cell, position, item,
                   draining, log, topology>>

-----------------------------------------------------------------------------
(* TryConsume; DrainSequence is its loop on a single consumer.             *)

PopBegin(c) ==
    /\ At(c, "idle")
    /\ Admitted(c, Consumers, topology # "Mpsc")
    /\ Aim(c, readPosition)
    /\ Goto(c, "pop.check")
    /\ \/ draining' = draining
       \/ ~MultipleConsumers /\ draining' = draining \cup {c}
    /\ UNCHANGED <<writePosition, readPosition, sequence, cell, item, log,
                   topology>>

PopCheck(c) ==
    /\ At(c, "pop.check")
    /\ LET difference == Difference(c, position[c] + 1) IN
       \/ /\ difference = 0
          /\ Goto(c, IF MultipleConsumers THEN "pop.claim" ELSE "pop.consume")
          /\ draining' = draining
       \/ /\ difference < 0 \/ (difference > 0 /\ ~MultipleConsumers)
          /\ Goto(c, "idle")
          /\ draining' = draining \ {c}
       \/ /\ difference > 0 /\ MultipleConsumers
          /\ Goto(c, "pop.reload")
          /\ draining' = draining
    /\ UNCHANGED <<writePosition, readPosition, sequence, cell, position, item,
                   log, topology>>

PopReload(c) ==
    /\ At(c, "pop.reload")
    /\ Aim(c, readPosition)
    /\ Goto(c, "pop.check")
    /\ UNCHANGED <<writePosition, readPosition, sequence, cell, item,
                   draining, log, topology>>

(* Mutant: the position is claimed by a plain store. *)
PopClaimByStore(c) ==
    /\ At(c, "pop.claim")
    /\ readPosition' = position[c] + 1
    /\ Goto(c, "pop.consume")
    /\ UNCHANGED <<writePosition, sequence, cell, position, item, draining,
                   log, topology>>

PopClaim(c) ==
    /\ At(c, "pop.claim")
    /\ readPosition = position[c]
    /\ readPosition' = position[c] + 1
    /\ Goto(c, "pop.consume")
    /\ UNCHANGED <<writePosition, sequence, cell, position, item, draining,
                   log, topology>>

PopClaimFails(c) ==
    /\ At(c, "pop.claim")
    /\ Aim(c, readPosition)
    /\ Goto(c, "pop.check")
    /\ UNCHANGED <<writePosition, readPosition, sequence, cell, item,
                   draining, log, topology>>

(* Move the value out and destroy the object. *)
PopConsume(c) ==
    /\ At(c, "pop.consume")
    /\ cell' = [cell EXCEPT ![CellOf(position[c])] = Vacant]
    /\ Goto(c, "pop.free")
    /\ UNCHANGED <<writePosition, readPosition, sequence, position, item,
                   draining, log, topology>>

PopFree(c) ==
    /\ At(c, "pop.free")
    /\ sequence' =
         [sequence EXCEPT ![CellOf(position[c])] = position[c] + Capacity]
    /\ Goto(c, IF MultipleConsumers THEN "idle" ELSE "pop.advance")
    /\ UNCHANGED <<writePosition, readPosition, cell, position, item, draining,
                   log, topology>>

(* A single consumer's store of its cursor; a drain goes on to the next    *)
(* cell.                                                                   *)
PopAdvance(c) ==
    /\ At(c, "pop.advance")
    /\ readPosition' = position[c] + 1
    /\ IF c \in draining THEN Aim(c, position[c] + 1) /\ Goto(c, "pop.check")
                         ELSE UNCHANGED position /\ Goto(c, "idle")
    /\ UNCHANGED <<writePosition, sequence, cell, item, draining, log,
                   topology>>

-----------------------------------------------------------------------------
ProducerStep(p) ==
    \/ \E v \in Values : PushBegin(p, v)
    \/ PushCheck(p) \/ PushReload(p) \/ PushClaim(p) \/ PushClaimFails(p)
    \/ PushConstruct(p) \/ PushAdvance(p) \/ PushPublish(p)

ConsumerStep(c) ==
    \/ PopBegin(c) \/ PopCheck(c) \/ PopReload(c) \/ PopClaim(c)
    \/ PopClaimFails(c) \/ PopConsume(c) \/ PopFree(c) \/ PopAdvance(c)

Next == \/ \E p \in Producers : ProducerStep(p)
        \/ \E c \in Consumers : ConsumerStep(c)

Spec == Init /\ [][Next]_vars

-----------------------------------------------------------------------------
(* A thread that constructs finds a vacant cell, one that consumes finds   *)
(* the value claimed for its own position, and no two threads are at work  *)
(* in the same cell: the claim and the sequence number together act as the *)
(* cell's lock.                                                            *)
CellAccess == {"push.construct", "pop.consume"}

CellSafety ==
    /\ \A p \in Producers :
         At(p, "push.construct") => cell[CellOf(position[p])] = Vacant
    /\ \A c \in Consumers :
         At(c, "pop.consume") => cell[CellOf(position[c])] = log[position[c] + 1]
    /\ \A s, t \in Threads :
         s # t /\ pc[s] \in CellAccess /\ pc[t] \in CellAccess =>
           CellOf(position[s]) # CellOf(position[t])

-----------------------------------------------------------------------------
(* The storage the ring implements. *)
Storage == INSTANCE RingStorage WITH
    taken <- readPosition,
    ready <- {p \in 0 .. Len(log) - 1 : sequence[CellOf(p)] > p},
    freed <- {p \in 0 .. Len(log) - 1 : sequence[CellOf(p)] >= p + Capacity}

StorageSpec == Storage!StorageSpec

(* A push that reports a full ring does so while the ring is full, and a   *)
(* pop that reports an empty one while the head is not published, although *)
(* the position each of them tested may be out of date by then.            *)
FailuresAreReal ==
    [][/\ \A p \in Producers :
            At(p, "push.check") /\ pc'[p] = "idle" => ~Storage!HasRoom
       /\ \A c \in Consumers :
            At(c, "pop.check") /\ pc'[c] = "idle" => ~Storage!HasItem]_vars
=============================================================================
