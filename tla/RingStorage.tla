---------------------------- MODULE RingStorage ----------------------------
(***************************************************************************)
(* What the sequence-cell protocols of RingBuffer promise, and what the    *)
(* asynchronous queue builds on.  Positions are claimed by producers and   *)
(* taken by consumers one after the other; publishing the value of a       *)
(* claimed position and giving the cell of a taken position back are       *)
(* separate steps, so that a position may be claimed and not yet readable, *)
(* or taken and its cell not yet reusable.                                 *)
(***************************************************************************)
EXTENDS Integers, Sequences

CONSTANTS Capacity, Values

ASSUME CapacityAssumption == Capacity \in Nat \ {0}

VARIABLES
    log,      \* values by position: position p holds log[p + 1]
    taken,    \* number of positions consumers have taken
    ready,    \* positions whose value is published
    freed     \* positions whose cell has been given back

storageVars == <<log, taken, ready, freed>>

Claimed == Len(log)

(* Mutants: the room is computed from the taken positions, or a position   *)
(* too generously.                                                         *)
HasRoomByTaken == Claimed - taken < Capacity
HasRoomForOneMore == Claimed <= Capacity \/ Claimed - Capacity - 1 \in freed

(* The cell of the next position is the one of the position a lap earlier. *)
HasRoom == Claimed < Capacity \/ Claimed - Capacity \in freed
HasItem == taken \in ready

StorageInit == log = << >> /\ taken = 0 /\ ready = {} /\ freed = {}

Claim(v) ==
    /\ HasRoom
    /\ log' = Append(log, v)
    /\ UNCHANGED <<taken, ready, freed>>

Publish(p) ==
    /\ p < Claimed /\ p \notin ready
    /\ ready' = ready \cup {p}
    /\ UNCHANGED <<log, taken, freed>>

(* SPSC: one store both claims and publishes. *)
PushAtOnce(v) ==
    /\ HasRoom
    /\ log' = Append(log, v)
    /\ ready' = ready \cup {Claimed}
    /\ UNCHANGED <<taken, freed>>

Take ==
    /\ HasItem
    /\ taken' = taken + 1
    /\ UNCHANGED <<log, ready, freed>>

(* A single consumer gives the cell of the head back before it moves on. *)
Free(p) ==
    /\ p <= taken /\ p \in ready \ freed
    /\ freed' = freed \cup {p}
    /\ UNCHANGED <<log, taken, ready>>

(* SPSC: one store both takes and gives back. *)
PopAtOnce ==
    /\ HasItem /\ taken \notin freed
    /\ taken' = taken + 1
    /\ freed' = freed \cup {taken}
    /\ UNCHANGED <<log, ready>>

StorageNext ==
    \/ \E v \in Values : Claim(v) \/ PushAtOnce(v)
    \/ \E p \in 0 .. Claimed - 1 : Publish(p) \/ Free(p)
    \/ Take \/ PopAtOnce

StorageSpec == StorageInit /\ [][StorageNext]_storageVars

-----------------------------------------------------------------------------
StorageTypeOK ==
    /\ log \in Seq(Values)
    /\ taken \in 0 .. Claimed
    /\ ready \subseteq 0 .. Claimed - 1
    /\ freed \subseteq ready

(* Two positions in use never share one of the Capacity cells: the ring    *)
(* never writes over a value nobody has taken, nor over one being read.    *)
CellsDisjoint ==
    \A p, q \in (0 .. Claimed - 1) \ freed :
        p % Capacity = q % Capacity => p = q

(* A consumed position was published and an unconsumed one still has its   *)
(* cell, except for the head a single consumer is just giving back.        *)
TakenWereReady ==
    /\ 0 .. taken - 1 \subseteq ready
    /\ freed \subseteq 0 .. taken

(* It behaves as the bounded FIFO: a value leaves when its position is     *)
(* taken or, if that comes first, when its cell is given back.             *)
FirstHeld == IF taken \in freed THEN taken + 1 ELSE taken

Fifo == INSTANCE BoundedFifo WITH
            queue  <- SubSeq(log, FirstHeld + 1, Claimed),
            handed <- IF FirstHeld = 0 THEN << >> ELSE <<log[FirstHeld]>>
FifoSpec == Fifo!Spec
=============================================================================
