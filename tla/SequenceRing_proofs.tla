------------------------ MODULE SequenceRing_proofs ------------------------
(***************************************************************************)
(* Proofs about SequenceRing for every capacity above one, all threads and *)
(* values, and the three topologies: cells are used by one thread at a     *)
(* time, the ring implements RingStorage, and pushes and pops fail only on *)
(* a ring that is full or empty.                                           *)
(***************************************************************************)
EXTENDS SequenceRing, SequenceTheorems, TLAPS

PushLabels == {"idle", "push.check", "push.reload", "push.claim", "push.construct",
               "push.advance", "push.publish"}
PopLabels == {"idle", "pop.check", "pop.reload", "pop.claim", "pop.consume",
              "pop.free", "pop.advance"}

(* The places where a thread has a cell to itself. *)
Building == {"push.construct", "push.advance", "push.publish"}
Emptying == {"pop.consume", "pop.free"}
Busy == Building \cup Emptying

Typed ==
    /\ topology \in {"Mpsc", "Spmc", "Mpmc"}
    /\ log \in Seq(Values) /\ writePosition = Len(log)
    /\ readPosition \in 0 .. Len(log)
    /\ sequence \in [Cells -> Nat] /\ cell \in [Cells -> Values \cup {Vacant}]
    /\ DOMAIN pc = Threads /\ position \in [Threads -> Nat]
    /\ item \in [Producers -> Values \cup {Vacant}]
    /\ \A p \in Producers : pc[p] \in PushLabels /\ (pc[p] # "idle" => item[p] \in Values)
    /\ \A c \in Consumers : pc[c] \in PopLabels

(* The single side of a topology has one thread at work. *)
Alone ==
    /\ \/ MultipleProducers
       \/ \A p, q \in Producers : pc[p] # "idle" /\ pc[q] # "idle" => p = q
    /\ \/ MultipleConsumers
       \/ \A c, d \in Consumers : pc[c] # "idle" /\ pc[d] # "idle" => c = d

(* A position whose cell was given back has been taken, or a single        *)
(* consumer is about to move past it.                                      *)
Returned(p) ==
    \/ p < readPosition
    \/ \E c \in Consumers : pc[c] = "pop.advance" /\ position[c] = p

(* A cell is free for a position or holds the value of a claimed one, and  *)
(* the position a lap earlier has been given back.                         *)
CellStates ==
    \A i \in Cells : \E p \in Nat :
        /\ CellOf(p) = i /\ (Capacity <= p => Returned(p - Capacity))
        /\ sequence[i] = p \/ (sequence[i] = p + 1 /\ p < Len(log))

(* What is in a cell that is free, or that holds a value, unless its       *)
(* thread is between its work on the object and its store of the sequence. *)
Built == {"push.advance", "push.publish"}

ContentsAt(p) ==
    /\ /\ sequence[CellOf(p)] = p
       /\ \A q \in Producers : pc[q] \in Built => position[q] # p
       => cell[CellOf(p)] = Vacant
    /\ /\ sequence[CellOf(p)] = p + 1
       /\ \A c \in Consumers : pc[c] = "pop.free" => position[c] # p
       => cell[CellOf(p)] = log[p + 1]

Contents == \A p \in Nat : ContentsAt(p)

(* The cell of a claimed position has reached it; that of a taken position *)
(* has held its value.                                                     *)
Behind ==
    /\ \A p \in 0 .. Len(log) - 1 : p <= sequence[CellOf(p)]
    /\ \A p \in 0 .. readPosition - 1 : p < sequence[CellOf(p)]

ProducerAt(p) ==
    LET at == position[p]
        number == sequence[CellOf(at)] IN
    /\ pc[p] \in {"push.check", "push.reload", "push.claim"} => at <= Len(log)
    /\ pc[p] \in {"push.reload", "push.claim"} => MultipleProducers
    /\ pc[p] = "push.claim" => at <= number
    /\ pc[p] = "push.advance" => ~MultipleProducers
    /\ ~MultipleProducers /\ pc[p] \in {"push.check", "push.construct", "push.advance"} =>
         at = Len(log)
    /\ pc[p] = "push.publish" \/ (MultipleProducers /\ pc[p] = "push.construct") =>
         at < Len(log) /\ log[at + 1] = item[p]
    /\ pc[p] \in Building => number = at
    /\ pc[p] \in {"push.advance", "push.publish"} => cell[CellOf(at)] = item[p]

ConsumerAt(c) ==
    LET at == position[c]
        number == sequence[CellOf(at)] IN
    /\ pc[c] \in {"pop.check", "pop.reload", "pop.claim"} => at <= readPosition
    /\ pc[c] \in {"pop.reload", "pop.claim"} => MultipleConsumers
    /\ pc[c] = "pop.claim" => at < number
    /\ pc[c] = "pop.advance" => ~MultipleConsumers /\ at < Len(log) /\ at + Capacity <= number
    /\ ~MultipleConsumers /\ pc[c] \in {"pop.check", "pop.consume", "pop.free", "pop.advance"} =>
         at = readPosition
    /\ MultipleConsumers /\ pc[c] \in Emptying => at < readPosition
    /\ pc[c] \in Emptying => number = at + 1
    /\ pc[c] = "pop.free" => cell[CellOf(at)] = Vacant

(* No two threads have the same position to themselves. *)
Distinct ==
    /\ \A p, q \in Producers :
         pc[p] \in Building /\ pc[q] \in Building /\ position[p] = position[q] => p = q
    /\ \A c, d \in Consumers :
         pc[c] \in Emptying /\ pc[d] \in Emptying /\ position[c] = position[d] => c = d

IInv ==
    /\ Typed /\ Alone /\ CellStates /\ Contents /\ Behind /\ Distinct
    /\ \A p \in Producers : ProducerAt(p)
    /\ \A c \in Consumers : ConsumerAt(c)
-----------------------------------------------------------------------------
(* Positions and cells.                                                    *)
LEMMA Division ==
    ASSUME NEW p \in Nat
    PROVE  /\ p \div Capacity \in Int /\ CellOf(p) \in 0 .. Capacity - 1
           /\ p = Capacity * (p \div Capacity) + CellOf(p)
BY CapacityAssumption DEF CellOf

(* What a multiple of the capacity tells of its factor.                     *)
LEMMA Multiples ==
    ASSUME NEW k \in Int
    PROVE  /\ k >= 1 => Capacity * k >= Capacity
           /\ k <= 0 => Capacity * k <= 0
           /\ k < 0 => Capacity * k <= -Capacity
           /\ Capacity * k \in Int
<1>1. Capacity \in Nat /\ Capacity >= 2
    BY CapacityAssumption
<1>2. k >= 1 => Capacity * k >= Capacity
    BY <1>1
<1>3. k <= 0 => Capacity * k <= 0
    BY <1>1
<1>4. k < 0 => Capacity * k <= -Capacity
    BY <1>1
<1>5. Capacity * k \in Int
    BY <1>1
<1>6. QED
    BY <1>2, <1>3, <1>4, <1>5

(* Positions with the same cell are at least a lap apart. *)
LEMMA SameCell ==
    ASSUME NEW p \in Nat, NEW q \in Nat, p < q, CellOf(p) = CellOf(q)
    PROVE  p + Capacity <= q
<1> DEFINE a == p \div Capacity
           b == q \div Capacity
           r == CellOf(p)
<1>1. /\ a \in Int /\ b \in Int /\ r \in 0 .. Capacity - 1
      /\ p = Capacity * a + r /\ q = Capacity * b + r
    BY Division
<1> HIDE DEF a, b, r
<1>2. Capacity \in Nat /\ b - a \in Int
    BY <1>1, CapacityAssumption
<1>3. Capacity * (b - a) = q - p
    BY <1>1, <1>2
<1>4. b - a >= 1
    BY <1>2, <1>3, Multiples
<1>5. Capacity * (b - a) >= Capacity
    BY <1>2, <1>4, Multiples
<1>6. QED
    BY <1>2, <1>3, <1>5

(* Positions a lap apart share a cell, and those of the first lap are their own. *)
LEMMA CellFacts ==
    ASSUME NEW p \in Nat
    PROVE  /\ CellOf(p) \in Cells
           /\ CellOf(p + Capacity) = CellOf(p)
           /\ p < Capacity => CellOf(p) = p
<1>1. Capacity \in Nat /\ Capacity >= 2 /\ p + Capacity \in Nat
    BY CapacityAssumption
<1>2. CellOf(p) \in Cells
    BY Division DEF Cells
<1>3. CellOf(p + Capacity) = CellOf(p)
  <2> DEFINE a == p \div Capacity
             b == (p + Capacity) \div Capacity
             r == CellOf(p)
             s == CellOf(p + Capacity)
             k == b - a - 1
  <2>1. /\ a \in Int /\ b \in Int /\ r \in 0 .. Capacity - 1 /\ s \in 0 .. Capacity - 1
        /\ p = Capacity * a + r /\ p + Capacity = Capacity * b + s
      BY <1>1, Division
  <2> HIDE DEF r, s, a, b
  <2>2. k \in Int /\ Capacity * k = Capacity * b - Capacity * a - Capacity
      BY <1>1, <2>1
  <2>3. Capacity * a \in Int /\ Capacity * b \in Int
      BY <1>1, <2>1
  <2> HIDE DEF k
  <2>4. Capacity * k = r - s
      BY <1>1, <2>1, <2>2, <2>3
  <2>5. k = 0
      BY <1>1, <2>1, <2>2, <2>4, Multiples
  <2>6. Capacity * 0 = 0
      BY <1>1
  <2>7. r = s
      BY <2>1, <2>4, <2>5, <2>6
  <2>8. QED
      BY <2>7 DEF r, s
<1>4. ASSUME p < Capacity PROVE CellOf(p) = p
  <2> DEFINE a == p \div Capacity
             r == CellOf(p)
  <2>1. a \in Int /\ r \in 0 .. Capacity - 1 /\ p = Capacity * a + r
      BY Division
  <2> HIDE DEF a, r
  <2>2. a = 0
      BY <1>1, <1>4, <2>1, Multiples
  <2>3. Capacity * 0 = 0
      BY <1>1
  <2>4. p = r
      BY <2>1, <2>2, <2>3
  <2>5. QED
      BY <2>4 DEF r
<1>5. QED
    BY <1>2, <1>3, <1>4

(* "Free for p" and "holds p - 1" are said of different cells: this is     *)
(* what a capacity of one would break.                                     *)
LEMMA NeighboursDiffer ==
    ASSUME NEW p \in Nat
    PROVE  CellOf(p + 1) # CellOf(p)
BY SameCell, CapacityAssumption
-----------------------------------------------------------------------------
(* What the invariant says of a cell.                                      *)
LEMMA Sizes ==
    ASSUME Typed
    PROVE  /\ Capacity \in Nat /\ Capacity >= 2
           /\ Len(log) \in Nat /\ readPosition \in Nat /\ readPosition <= Len(log)
           /\ \A i \in Cells : sequence[i] \in Nat
           /\ \A t \in Threads : /\ position[t] \in Nat /\ CellOf(position[t]) \in Cells
                                 /\ sequence[CellOf(position[t])] \in Nat
<1>1. /\ Capacity \in Nat /\ Capacity >= 2 /\ Len(log) \in Nat /\ readPosition \in Nat
      /\ readPosition <= Len(log)
    BY CapacityAssumption, LenProperties DEF Typed
<1>2. \A t \in Threads : position[t] \in Nat /\ CellOf(position[t]) \in Cells
    BY CellFacts DEF Typed
<1>3. QED
    BY <1>1, <1>2 DEF Typed

(* What was given back had been claimed, and all but the head has been taken. *)
LEMMA ReturnedClaimed ==
    ASSUME IInv, NEW p \in Nat, Returned(p)
    PROVE  /\ p < Len(log) /\ p <= readPosition
           /\ p = readPosition => \E c \in Consumers : pc[c] = "pop.advance" /\ position[c] = p
<1>1. CASE p < readPosition
    BY <1>1, Sizes DEF IInv
<1>2. CASE \E c \in Consumers : pc[c] = "pop.advance" /\ position[c] = p
  <2>1. PICK c \in Consumers : pc[c] = "pop.advance" /\ position[c] = p
      BY <1>2
  <2>2. p < Len(log) /\ p = readPosition
      BY <2>1 DEF IInv, ConsumerAt
  <2>3. QED
      BY <2>1, <2>2, Sizes DEF IInv
<1>3. QED
    BY <1>1, <1>2 DEF Returned

(* No cell is beyond a position that was not claimed. *)
LEMMA Unclaimed ==
    ASSUME IInv, NEW p \in Nat, Len(log) <= p
    PROVE  sequence[CellOf(p)] <= p
<1>1. CellOf(p) \in Cells
    BY CellFacts
<1>2. PICK q \in Nat : /\ CellOf(q) = CellOf(p) /\ (Capacity <= q => Returned(q - Capacity))
                       /\ \/ sequence[CellOf(p)] = q
                          \/ sequence[CellOf(p)] = q + 1 /\ q < Len(log)
    BY <1>1 DEF IInv, CellStates
<1>3. ~(p < q)
  <2> SUFFICES ASSUME p < q PROVE FALSE
      OBVIOUS
  <2>1. p + Capacity <= q
      BY <1>2, SameCell
  <2>2. q - Capacity \in Nat /\ Capacity <= q /\ p <= q - Capacity
      BY <2>1, CapacityAssumption
  <2>3. q - Capacity < Len(log)
      BY <1>2, <2>2, ReturnedClaimed
  <2>4. QED
      BY <2>2, <2>3, Sizes DEF IInv
<1>4. QED
    BY <1>2, <1>3, Sizes DEF IInv

(* Nor far beyond one that was not taken. *)
LEMMA Untaken ==
    ASSUME IInv, NEW p \in Nat, readPosition <= p,
           \A c \in Consumers : pc[c] = "pop.advance" => position[c] # p
    PROVE  sequence[CellOf(p)] <= p + 1
<1>1. CellOf(p) \in Cells
    BY CellFacts
<1>2. PICK q \in Nat : /\ CellOf(q) = CellOf(p) /\ (Capacity <= q => Returned(q - Capacity))
                       /\ \/ sequence[CellOf(p)] = q
                          \/ sequence[CellOf(p)] = q + 1 /\ q < Len(log)
    BY <1>1 DEF IInv, CellStates
<1>3. ~(p < q)
  <2> SUFFICES ASSUME p < q PROVE FALSE
      OBVIOUS
  <2> DEFINE r == q - Capacity
  <2>1. p + Capacity <= q
      BY <1>2, SameCell
  <2>2. r \in Nat /\ Capacity <= q /\ p <= r
      BY <2>1, CapacityAssumption
  <2>3. Returned(r)
      BY <1>2, <2>2
  <2> HIDE DEF r
  <2>4. /\ r <= readPosition
        /\ r = readPosition => \E c \in Consumers : pc[c] = "pop.advance" /\ position[c] = r
      BY <2>2, <2>3, ReturnedClaimed
  <2>5. r = readPosition /\ r = p
      BY <2>2, <2>4, Sizes DEF IInv
  <2>6. QED
      BY <2>4, <2>5
<1>4. QED
    BY <1>2, <1>3

(* What is held was claimed. *)
LEMMA Holding ==
    ASSUME IInv, NEW p \in Nat, sequence[CellOf(p)] = p + 1
    PROVE  p < Len(log)
<1>1. ~(Len(log) <= p)
    BY Unclaimed
<1>2. QED
    BY <1>1, Sizes DEF IInv

(* Two threads that have a cell to themselves do not have the same.        *)
LEMMA OwnCell ==
    ASSUME IInv, NEW t \in Threads, NEW u \in Threads, t # u, pc[t] \in Busy, pc[u] \in Busy
    PROVE  CellOf(position[t]) # CellOf(position[u])
<1> DEFINE at(x) == position[x]
<1>1. ASSUME NEW x \in Threads, pc[x] \in Busy
      PROVE  \/ x \in Producers /\ pc[x] \in Building /\ sequence[CellOf(at(x))] = at(x)
             \/ x \in Consumers /\ pc[x] \in Emptying /\ sequence[CellOf(at(x))] = at(x) + 1
  <2>1. CASE x \in Producers
    <3>1. pc[x] \in Building
        BY <1>1, <2>1 DEF IInv, Typed, PushLabels, Busy, Building, Emptying
    <3>2. QED
        BY <2>1, <3>1 DEF IInv, ProducerAt
  <2>2. CASE x \in Consumers
    <3>1. pc[x] \in Emptying
        BY <1>1, <2>2 DEF IInv, Typed, PopLabels, Busy, Building, Emptying
    <3>2. QED
        BY <2>2, <3>1 DEF IInv, ConsumerAt
  <2>3. QED
      BY <2>1, <2>2 DEF Threads
<1>2. at(t) \in Nat /\ at(u) \in Nat
    BY Sizes DEF IInv
<1>3. SUFFICES ASSUME CellOf(at(t)) = CellOf(at(u)) PROVE FALSE
    OBVIOUS
<1> HIDE DEF at
<1>4. CASE t \in Producers /\ pc[t] \in Building /\ sequence[CellOf(at(t))] = at(t)
  <2>1. CASE u \in Producers /\ pc[u] \in Building /\ sequence[CellOf(at(u))] = at(u)
      BY <1>3, <1>4, <2>1 DEF IInv, Distinct, at
  <2>2. CASE u \in Consumers /\ pc[u] \in Emptying /\ sequence[CellOf(at(u))] = at(u) + 1
      BY <1>2, <1>3, <1>4, <2>2, NeighboursDiffer
  <2>3. QED
      BY <1>1, <2>1, <2>2 DEF at
<1>5. CASE t \in Consumers /\ pc[t] \in Emptying /\ sequence[CellOf(at(t))] = at(t) + 1
  <2>1. CASE u \in Producers /\ pc[u] \in Building /\ sequence[CellOf(at(u))] = at(u)
      BY <1>2, <1>3, <1>5, <2>1, NeighboursDiffer
  <2>2. CASE u \in Consumers /\ pc[u] \in Emptying /\ sequence[CellOf(at(u))] = at(u) + 1
    <3>1. at(t) = at(u)
        BY <1>2, <1>3, <1>5, <2>2
    <3>2. QED
        BY <1>5, <2>2, <3>1 DEF IInv, Distinct, at
  <2>3. QED
      BY <1>1, <2>1, <2>2 DEF at
<1>6. QED
    BY <1>1, <1>4, <1>5 DEF at
-----------------------------------------------------------------------------
(* What a step of one thread leaves to the others.                         *)
Frame(t) ==
    /\ topology' = topology
    /\ \A u \in Threads \ {t} : pc'[u] = pc[u] /\ position'[u] = position[u]
    /\ \A u \in Producers \ {t} : item'[u] = item[u]
    /\ \A i \in Cells : sequence[i] <= sequence'[i]
    /\ Len(log) <= Len(log') /\ \A k \in 1 .. Len(log) : log'[k] = log[k]
    /\ readPosition <= readPosition'
    /\ MultipleProducers \/ Len(log') = Len(log) \/ (t \in Producers /\ pc[t] # "idle")
    /\ MultipleConsumers \/ readPosition' = readPosition \/ (t \in Consumers /\ pc[t] # "idle")
    /\ \A u \in Threads \ {t} : pc[u] \in Busy =>
         LET i == CellOf(position[u]) IN sequence'[i] = sequence[i] /\ cell'[i] = cell[i]

(* A step of one thread keeps what is said of the other producers,          *)
LEMMA OtherProducers ==
    ASSUME IInv, NEW t \in Threads, Frame(t), Typed', NEW u \in Producers \ {t}
    PROVE  ProducerAt(u)'
<1> DEFINE at == position[u]
           number == sequence[CellOf(at)]
<1>1. u \in Threads /\ pc'[u] = pc[u] /\ position'[u] = position[u] /\ item'[u] = item[u]
    BY DEF Frame, Threads
<1>2. /\ at \in Nat /\ number \in Nat /\ number <= sequence'[CellOf(at)]
      /\ sequence'[CellOf(at)] \in Nat /\ Len(log) \in Nat /\ Len(log') \in Nat
      /\ Len(log) <= Len(log')
    BY <1>1, Sizes DEF IInv, Frame, Typed
<1>3. ProducerAt(u) /\ (MultipleProducers' <=> MultipleProducers)
    BY DEF IInv, Frame, MultipleProducers
<1>4. pc[u] \in Building => /\ sequence'[CellOf(at)] = number
                            /\ cell'[CellOf(at)] = cell[CellOf(at)]
    BY <1>1 DEF Frame, Busy
<1>5. ASSUME ~MultipleProducers, pc[u] # "idle" PROVE Len(log') = Len(log)
    BY <1>5 DEF Frame, IInv, Alone
<1>6. ASSUME at < Len(log), log[at + 1] = item[u]
      PROVE  at < Len(log') /\ log'[at + 1] = item'[u]
  <2>1. at + 1 \in 1 .. Len(log)
      BY <1>2, <1>6
  <2>2. QED
      BY <1>1, <1>2, <1>6, <2>1 DEF Frame
<1> HIDE DEF at, number
<1>7. /\ pc[u] \in {"push.check", "push.reload", "push.claim"} => at <= Len(log')
      /\ pc[u] = "push.claim" => at <= sequence'[CellOf(at)]
  <2>1. /\ pc[u] \in {"push.check", "push.reload", "push.claim"} => at <= Len(log)
        /\ pc[u] = "push.claim" => at <= number
      BY <1>3 DEF ProducerAt, at, number
  <2>2. QED
      BY <1>2, <2>1
<1>8. /\ pc[u] \in Building => sequence'[CellOf(at)] = at
      /\ pc[u] \in {"push.advance", "push.publish"} => cell'[CellOf(at)] = item[u]
    BY <1>3, <1>4 DEF ProducerAt, at, number, Building
<1>9. ~MultipleProducers /\ pc[u] \in {"push.check", "push.construct", "push.advance"} =>
        at = Len(log')
    BY <1>3, <1>5 DEF ProducerAt, at
<1>10. pc[u] = "push.publish" \/ (MultipleProducers /\ pc[u] = "push.construct") =>
         at < Len(log') /\ log'[at + 1] = item'[u]
    BY <1>3, <1>6 DEF ProducerAt, at
<1>11. QED
    BY <1>1, <1>3, <1>7, <1>8, <1>9, <1>10 DEF ProducerAt, at

(* and of the other consumers.                                              *)
LEMMA OtherConsumers ==
    ASSUME IInv, NEW t \in Threads, Frame(t), Typed', NEW u \in Consumers \ {t}
    PROVE  ConsumerAt(u)'
<1> DEFINE at == position[u]
           number == sequence[CellOf(at)]
<1>1. u \in Threads /\ pc'[u] = pc[u] /\ position'[u] = position[u]
    BY DEF Frame, Threads
<1>2. /\ at \in Nat /\ number \in Nat /\ number <= sequence'[CellOf(at)]
      /\ sequence'[CellOf(at)] \in Nat /\ Len(log) \in Nat /\ Len(log') \in Nat
      /\ Len(log) <= Len(log') /\ readPosition \in Nat /\ readPosition' \in Nat
      /\ readPosition <= readPosition' /\ Capacity \in Nat
    BY <1>1, Sizes DEF IInv, Frame, Typed
<1>3. ConsumerAt(u) /\ (MultipleConsumers' <=> MultipleConsumers)
    BY DEF IInv, Frame, MultipleConsumers
<1>4. pc[u] \in Emptying => /\ sequence'[CellOf(at)] = number
                            /\ cell'[CellOf(at)] = cell[CellOf(at)]
    BY <1>1 DEF Frame, Busy
<1>5. ASSUME ~MultipleConsumers, pc[u] # "idle" PROVE readPosition' = readPosition
    BY <1>5 DEF Frame, IInv, Alone
<1> HIDE DEF at, number
<1>6. /\ pc[u] \in {"pop.check", "pop.reload", "pop.claim"} => at <= readPosition
      /\ pc[u] = "pop.claim" => at < number
      /\ pc[u] = "pop.advance" => at < Len(log) /\ at + Capacity <= number
      /\ MultipleConsumers /\ pc[u] \in Emptying => at < readPosition
    BY <1>3 DEF ConsumerAt, at, number
<1>7. /\ pc[u] \in {"pop.check", "pop.reload", "pop.claim"} => at <= readPosition'
      /\ pc[u] = "pop.claim" => at < sequence'[CellOf(at)]
      /\ pc[u] = "pop.advance" => at < Len(log') /\ at + Capacity <= sequence'[CellOf(at)]
      /\ MultipleConsumers /\ pc[u] \in Emptying => at < readPosition'
    BY <1>2, <1>6
<1>8. /\ pc[u] \in Emptying => sequence'[CellOf(at)] = at + 1
      /\ pc[u] = "pop.free" => cell'[CellOf(at)] = Vacant
    BY <1>3, <1>4 DEF ConsumerAt, at, number, Emptying
<1>9. ~MultipleConsumers /\ pc[u] \in {"pop.check", "pop.consume", "pop.free", "pop.advance"} =>
        at = readPosition'
    BY <1>3, <1>5 DEF ConsumerAt, at
<1>10. QED
    BY <1>1, <1>3, <1>7, <1>8, <1>9 DEF ConsumerAt, at

(* The single side of a topology keeps to one thread.                       *)
LEMMA StillAlone ==
    ASSUME IInv, NEW t \in Threads, Frame(t),
           pc[t] # "idle" \/ (/\ t \in Producers => Admitted(t, Producers, MultipleProducers)
                              /\ t \in Consumers => Admitted(t, Consumers, MultipleConsumers))
    PROVE  Alone'
<1>1. (MultipleProducers' <=> MultipleProducers) /\ (MultipleConsumers' <=> MultipleConsumers)
    BY DEF Frame, MultipleProducers, MultipleConsumers
<1>2. \A u \in Threads \ {t} : pc'[u] = pc[u]
    BY DEF Frame
<1>3. CASE pc[t] # "idle"
    BY <1>1, <1>2, <1>3 DEF IInv, Alone, Threads
<1>4. CASE pc[t] = "idle"
    BY <1>1, <1>2, <1>4 DEF IInv, Alone, Threads, Admitted, At
<1>5. QED
    BY <1>3, <1>4

(* Positions once given back stay so. *)
LEMMA StillReturned ==
    ASSUME IInv, Typed', NEW t \in Threads, Frame(t), NEW p \in Nat, Returned(p),
           pc[t] = "pop.advance" => position[t] < readPosition'
    PROVE  Returned(p)'
<1>1. CASE p < readPosition
    BY <1>1, Sizes DEF IInv, Typed, Frame, Returned
<1>2. CASE \E c \in Consumers : pc[c] = "pop.advance" /\ position[c] = p
    BY <1>2 DEF Frame, Returned, Threads
<1>3. QED
    BY <1>1, <1>2 DEF Returned

(* The states of the cells, when at most the one of position a changes.    *)
LEMMA StatesKeep ==
    ASSUME IInv, Typed', NEW t \in Threads, Frame(t),
           pc[t] = "pop.advance" => position[t] < readPosition',
           NEW i \in Cells, sequence'[i] = sequence[i]
    PROVE  \E p \in Nat :
             /\ CellOf(p) = i /\ (Capacity <= p => Returned(p - Capacity)')
             /\ sequence'[i] = p \/ (sequence'[i] = p + 1 /\ p < Len(log'))
<1>1. PICK p \in Nat : /\ CellOf(p) = i /\ (Capacity <= p => Returned(p - Capacity))
                       /\ sequence[i] = p \/ (sequence[i] = p + 1 /\ p < Len(log))
    BY DEF IInv, CellStates
<1>2. ASSUME Capacity <= p PROVE Returned(p - Capacity)'
  <2>1. p - Capacity \in Nat
      BY <1>2, CapacityAssumption
  <2>2. QED
      BY <1>1, <1>2, <2>1, StillReturned
<1>3. Len(log) \in Nat /\ Len(log') \in Nat /\ Len(log) <= Len(log')
    BY Sizes DEF IInv, Typed, Frame
<1>4. p < Len(log) => p < Len(log')
    BY <1>3
<1>5. QED
    BY <1>1, <1>2, <1>4

(* The parts of the invariant a step can disturb.                           *)
LEMMA Assemble ==
    ASSUME IInv, NEW t \in Threads, Frame(t), Typed', Alone', CellStates', Contents', Behind',
           Distinct', t \in Producers => ProducerAt(t)', t \in Consumers => ConsumerAt(t)'
    PROVE  IInv'
<1>1. \A p \in Producers : ProducerAt(p)'
  <2> TAKE p \in Producers
  <2>1. CASE p = t
      BY <2>1
  <2>2. CASE p # t
      BY <2>2, OtherProducers
  <2>3. QED
      BY <2>1, <2>2
<1>2. \A c \in Consumers : ConsumerAt(c)'
  <2> TAKE c \in Consumers
  <2>1. CASE c = t
      BY <2>1
  <2>2. CASE c # t
      BY <2>2, OtherConsumers
  <2>3. QED
      BY <2>1, <2>2
<1>3. QED
    BY <1>1, <1>2 DEF IInv

(* The contents of a cell that does not change, unless it is the one that  *)
(* t has finished with.                                                    *)
LEMMA ContentsKeep ==
    ASSUME IInv, Typed', NEW t \in Threads, Frame(t), NEW q \in Nat,
           \/ q # position[t]
           \/ /\ pc[t] \in Built => pc'[t] \in Built /\ position'[t] = position[t]
              /\ pc[t] # "pop.free",
           sequence'[CellOf(q)] = sequence[CellOf(q)], cell'[CellOf(q)] = cell[CellOf(q)]
    PROVE  ContentsAt(q)'
<1>1. ContentsAt(q)
    BY DEF IInv, Contents
<1>2. (\A u \in Producers : pc'[u] \in Built => position'[u] # q) =>
      (\A u \in Producers : pc[u] \in Built => position[u] # q)
    BY DEF Frame, Threads
<1>3. (\A c \in Consumers : pc'[c] = "pop.free" => position'[c] # q) =>
      (\A c \in Consumers : pc[c] = "pop.free" => position[c] # q)
    BY DEF Frame, Threads
<1>4. ASSUME sequence[CellOf(q)] = q + 1 PROVE log'[q + 1] = log[q + 1]
  <2>1. q < Len(log) /\ Len(log) \in Nat
      BY <1>4, Holding, Sizes DEF IInv
  <2>2. q + 1 \in 1 .. Len(log)
      BY <2>1
  <2>3. QED
      BY <2>2 DEF Frame
<1>5. QED
    BY <1>1, <1>2, <1>3, <1>4 DEF ContentsAt, CellOf

(* A range up to one bound is cut in two by another.                        *)
LEMMA Split ==
    ASSUME NEW a \in Nat, NEW b \in Nat, NEW p \in 0 .. b - 1
    PROVE  p \in Nat /\ (p \in 0 .. a - 1 \/ p \in a .. b - 1)
OBVIOUS

(* The cells stay up with the cursors if those of the new positions are.    *)
LEMMA BehindKeeps ==
    ASSUME IInv, Typed', NEW t \in Threads, Frame(t),
           \A p \in Len(log) .. Len(log') - 1 : p <= sequence'[CellOf(p)],
           \A p \in readPosition .. readPosition' - 1 : p < sequence'[CellOf(p)]
    PROVE  Behind'
<1>1. \A p \in Nat : /\ CellOf(p) \in Cells /\ sequence[CellOf(p)] \in Nat
                     /\ sequence'[CellOf(p)] \in Nat
                     /\ sequence[CellOf(p)] <= sequence'[CellOf(p)]
    BY CellFacts DEF IInv, Typed, Frame
<1>2. /\ Len(log) \in Nat /\ Len(log') \in Nat /\ readPosition \in Nat /\ readPosition' \in Nat
    BY Sizes DEF IInv, Typed
<1>3. ASSUME NEW p \in 0 .. Len(log') - 1 PROVE p <= sequence'[CellOf(p)]
  <2>1. CASE p < Len(log)
    <3>1. p \in Nat /\ p \in 0 .. Len(log) - 1
        BY <1>2, <2>1
    <3>2. p <= sequence[CellOf(p)]
        BY <3>1 DEF IInv, Behind
    <3>3. QED
        BY <1>1, <3>1, <3>2
  <2>2. CASE Len(log) <= p
      BY <1>2, <2>2
  <2>3. QED
      BY <1>2, <2>1, <2>2
<1>4. ASSUME NEW p \in 0 .. readPosition' - 1 PROVE p < sequence'[CellOf(p)]
  <2>1. p \in Nat /\ (p \in 0 .. readPosition - 1 \/ p \in readPosition .. readPosition' - 1)
      BY <1>2, Split
  <2>2. CASE p \in 0 .. readPosition - 1
    <3>1. p < sequence[CellOf(p)]
        BY <2>2 DEF IInv, Behind
    <3>2. QED
        BY <1>1, <2>1, <3>1
  <2>3. QED
      BY <2>1, <2>2
<1>5. QED
    BY <1>3, <1>4 DEF Behind, CellOf

(* Positions stay distinct if the one the step took is.                     *)
LEMMA DistinctKeeps ==
    ASSUME IInv, NEW t \in Threads, Frame(t),
           t \in Producers /\ pc'[t] \in Building =>
             \/ pc[t] \in Building /\ position'[t] = position[t]
             \/ \A u \in Producers \ {t} : pc[u] \in Building => position[u] # position'[t],
           t \in Consumers /\ pc'[t] \in Emptying =>
             \/ pc[t] \in Emptying /\ position'[t] = position[t]
             \/ \A u \in Consumers \ {t} : pc[u] \in Emptying => position[u] # position'[t]
    PROVE  Distinct'
<1>1. \A u \in Threads \ {t} : pc'[u] = pc[u] /\ position'[u] = position[u]
    BY DEF Frame
<1>2. ASSUME NEW p \in Producers, NEW q \in Producers, pc'[p] \in Building,
             pc'[q] \in Building, position'[p] = position'[q]
      PROVE  p = q
    BY <1>1, <1>2 DEF IInv, Distinct, Threads
<1>3. ASSUME NEW c \in Consumers, NEW d \in Consumers, pc'[c] \in Emptying,
             pc'[d] \in Emptying, position'[c] = position'[d]
      PROVE  c = d
    BY <1>1, <1>3 DEF IInv, Distinct, Threads
<1>4. QED
    BY <1>2, <1>3 DEF Distinct
-----------------------------------------------------------------------------
(* Steps that only move a thread along.                                    *)
LEMMA Moves ==
    ASSUME IInv, NEW t \in Threads, Typed', Alone',
           UNCHANGED <<writePosition, readPosition, sequence, cell, log, topology>>,
           \A u \in Threads \ {t} : pc'[u] = pc[u] /\ position'[u] = position[u],
           \A u \in Producers \ {t} : item'[u] = item[u],
           pc[t] \notin Busy \cup {"pop.advance"},
           pc'[t] \notin {"push.advance", "push.publish", "pop.free", "pop.advance"},
           pc'[t] \in Building => ~MultipleProducers,
           pc'[t] \in Emptying => ~MultipleConsumers,
           t \in Producers => ProducerAt(t)', t \in Consumers => ConsumerAt(t)'
    PROVE  IInv'
<1>1. Frame(t)
    BY Sizes DEF Frame, IInv
<1>2. CellStates'
    BY <1>1, StatesKeep DEF CellStates, Cells
<1>3. Contents'
    BY <1>1, ContentsKeep, CellFacts DEF Contents, Busy, Building, Emptying, Built
<1>4. Behind'
    BY DEF IInv, Behind, CellOf
<1>5. Distinct'
  <2>1. (MultipleProducers' <=> MultipleProducers) /\ (MultipleConsumers' <=> MultipleConsumers)
      BY DEF MultipleProducers, MultipleConsumers
  <2>2. ASSUME NEW p \in Producers, NEW q \in Producers, pc'[p] \in Building,
               pc'[q] \in Building, position'[p] = position'[q]
        PROVE  p = q
    <3>1. CASE p # t /\ q # t
        BY <2>2, <3>1 DEF IInv, Distinct, Threads
    <3>2. CASE p = t \/ q = t
        BY <2>1, <2>2, <3>2 DEF Alone, Building
    <3>3. QED
        BY <3>1, <3>2
  <2>3. ASSUME NEW c \in Consumers, NEW d \in Consumers, pc'[c] \in Emptying,
               pc'[d] \in Emptying, position'[c] = position'[d]
        PROVE  c = d
    <3>1. CASE c # t /\ d # t
        BY <2>3, <3>1 DEF IInv, Distinct, Threads
    <3>2. CASE c = t \/ d = t
        BY <2>1, <2>3, <3>2 DEF Alone, Emptying
    <3>3. QED
        BY <3>1, <3>2
  <2>4. QED
      BY <2>2, <2>3 DEF Distinct
<1>6. QED
    BY <1>1, <1>2, <1>3, <1>4, <1>5, Assemble

(* The two sides of the ring in each topology.                              *)
LEMMA Sides ==
    ASSUME Typed
    PROVE  /\ MultipleProducers <=> topology # "Spmc"
           /\ MultipleConsumers <=> topology # "Mpsc"
           /\ \A p \in Producers : p \in Threads /\ p \notin Consumers
           /\ \A c \in Consumers : c \in Threads /\ c \notin Producers
BY ThreadAssumption DEF Typed, MultipleProducers, MultipleConsumers, Threads

(* A push begins at the cursor.                                             *)
LEMMA PushBeginStep ==
    ASSUME IInv, NEW p \in Producers, NEW v \in Values, PushBegin(p, v)
    PROVE  IInv'
<1>1. /\ pc[p] = "idle" /\ Admitted(p, Producers, MultipleProducers)
      /\ pc' = [pc EXCEPT ![p] = "push.check"]
      /\ position' = [position EXCEPT ![p] = writePosition]
      /\ item' = [item EXCEPT ![p] = v]
      /\ UNCHANGED <<writePosition, readPosition, sequence, cell, log, topology>>
    BY Sides DEF PushBegin, Admitted, At, Goto, Aim, IInv
<1>2. p \in Threads /\ p \notin Consumers /\ writePosition = Len(log) /\ Len(log) \in Nat
    BY Sides, Sizes DEF IInv, Typed
<1>3. /\ pc'[p] = "push.check" /\ position'[p] = Len(log) /\ item'[p] = v
      /\ \A u \in Threads \ {p} : pc'[u] = pc[u] /\ position'[u] = position[u]
      /\ \A u \in Producers \ {p} : item'[u] = item[u]
    BY <1>1, <1>2 DEF IInv, Typed
<1>4. Typed'
    BY <1>1, <1>2, <1>3 DEF IInv, Typed, Cells, PushLabels, PopLabels, Threads
<1>5. Frame(p)
    BY <1>1, <1>3, Sizes DEF Frame, IInv, Busy
<1>6. Alone'
    BY <1>1, <1>2, <1>5, StillAlone
<1>7. ProducerAt(p)'
    BY <1>1, <1>2, <1>3 DEF ProducerAt, MultipleProducers, Building
<1>8. QED
    BY <1>1, <1>2, <1>3, <1>4, <1>6, <1>7, Moves DEF Busy, Building, Emptying

(* A producer that was too late, or whose swap fails, loads the cursor again. *)
LEMMA PushMoveStep ==
    ASSUME IInv, NEW p \in Producers,
           \/ PushReload(p) \/ PushClaimFails(p)
    PROVE  IInv'
<1>1. /\ pc[p] \in {"push.reload", "push.claim"}
      /\ pc' = [pc EXCEPT ![p] = "push.check"]
      /\ position' = [position EXCEPT ![p] = writePosition]
      /\ UNCHANGED <<writePosition, readPosition, sequence, cell, item, log, topology>>
    BY DEF PushReload, PushClaimFails, At, Goto, Aim
<1>2. p \in Threads /\ p \notin Consumers /\ writePosition = Len(log) /\ Len(log) \in Nat
    BY Sides, Sizes DEF IInv, Typed
<1>3. /\ pc'[p] = "push.check" /\ position'[p] = Len(log)
      /\ \A u \in Threads \ {p} : pc'[u] = pc[u] /\ position'[u] = position[u]
    BY <1>1, <1>2 DEF IInv, Typed
<1>4. Typed'
    BY <1>1, <1>2, <1>3 DEF IInv, Typed, Cells, PushLabels, PopLabels, Threads
<1>5. Frame(p)
    BY <1>1, <1>3, Sizes DEF Frame, IInv, Busy
<1>6. Alone'
    BY <1>1, <1>2, <1>5, StillAlone
<1>7. ProducerAt(p)'
    BY <1>1, <1>2, <1>3 DEF ProducerAt, MultipleProducers, Building
<1>8. QED
    BY <1>1, <1>2, <1>3, <1>4, <1>6, <1>7, Moves DEF Busy, Building, Emptying

(* What a look at the sequence number tells a producer. *)
LEMMA PushCheckStep ==
    ASSUME IInv, NEW p \in Producers, PushCheck(p)
    PROVE  IInv'
<1> DEFINE at == position[p]
           number == sequence[CellOf(at)]
<1>1. /\ pc[p] = "push.check"
      /\ \/ MultipleProducers /\ number - at = 0 /\ pc' = [pc EXCEPT ![p] = "push.claim"]
         \/ MultipleProducers /\ number - at > 0 /\ pc' = [pc EXCEPT ![p] = "push.reload"]
         \/ ~MultipleProducers /\ number - at = 0 /\ pc' = [pc EXCEPT ![p] = "push.construct"]
         \/ pc' = [pc EXCEPT ![p] = "idle"]
      /\ UNCHANGED <<writePosition, readPosition, sequence, cell, position, item, log, topology>>
    BY DEF PushCheck, At, Goto, Difference
<1>2. p \in Threads /\ p \notin Consumers /\ at \in Nat /\ number \in Nat
    BY Sides, Sizes DEF IInv
<1>3. /\ \/ MultipleProducers /\ number = at /\ pc'[p] = "push.claim"
         \/ MultipleProducers /\ pc'[p] = "push.reload"
         \/ ~MultipleProducers /\ number = at /\ pc'[p] = "push.construct"
         \/ pc'[p] = "idle"
      /\ \A u \in Threads \ {p} : pc'[u] = pc[u] /\ position'[u] = position[u]
      /\ DOMAIN pc' = Threads
    BY <1>1, <1>2 DEF IInv, Typed
<1>4. Typed'
    BY <1>1, <1>2, <1>3 DEF IInv, Typed, Cells, PushLabels, PopLabels, Threads
<1>5. Frame(p)
    BY <1>1, <1>3, Sizes DEF Frame, IInv, Busy
<1>6. Alone'
    BY <1>1, <1>2, <1>5, StillAlone
<1>7. at <= Len(log) /\ (~MultipleProducers => at = Len(log))
    BY <1>1 DEF IInv, ProducerAt
<1>8. ProducerAt(p)'
    BY <1>1, <1>2, <1>3, <1>7 DEF ProducerAt, MultipleProducers, Building, CellOf
<1>9. QED
    BY <1>1, <1>2, <1>3, <1>4, <1>6, <1>8, Moves DEF Busy, Building, Emptying

(* A pop begins at its cursor, and comes back to it.                        *)
LEMMA PopMoveStep ==
    ASSUME IInv, NEW c \in Consumers,
           \/ PopBegin(c) \/ PopReload(c) \/ PopClaimFails(c)
    PROVE  IInv'
<1>1. /\ \/ pc[c] = "idle" /\ Admitted(c, Consumers, MultipleConsumers)
         \/ pc[c] \in {"pop.reload", "pop.claim"}
      /\ pc' = [pc EXCEPT ![c] = "pop.check"]
      /\ position' = [position EXCEPT ![c] = readPosition]
      /\ UNCHANGED <<writePosition, readPosition, sequence, cell, item, log, topology>>
    BY Sides DEF PopBegin, PopReload, PopClaimFails, Admitted, At, Goto, Aim, IInv
<1>2. c \in Threads /\ c \notin Producers /\ readPosition \in Nat
    BY Sides, Sizes DEF IInv
<1>3. /\ pc'[c] = "pop.check" /\ position'[c] = readPosition
      /\ \A u \in Threads \ {c} : pc'[u] = pc[u] /\ position'[u] = position[u]
    BY <1>1, <1>2 DEF IInv, Typed
<1>4. Typed'
    BY <1>1, <1>2, <1>3 DEF IInv, Typed, Cells, PushLabels, PopLabels, Threads
<1>5. Frame(c)
    BY <1>1, <1>3, Sizes DEF Frame, IInv, Busy
<1>6. Alone'
    BY <1>1, <1>2, <1>5, StillAlone
<1>7. ConsumerAt(c)'
    BY <1>1, <1>2, <1>3 DEF ConsumerAt, MultipleConsumers, Emptying
<1>8. QED
    BY <1>1, <1>2, <1>3, <1>4, <1>6, <1>7, Moves DEF Busy, Building, Emptying

(* What a look at the sequence number tells a consumer.                     *)
LEMMA PopCheckStep ==
    ASSUME IInv, NEW c \in Consumers, PopCheck(c)
    PROVE  IInv'
<1> DEFINE at == position[c]
           number == sequence[CellOf(at)]
<1>1. /\ pc[c] = "pop.check"
      /\ \/ MultipleConsumers /\ number - (at + 1) = 0 /\ pc' = [pc EXCEPT ![c] = "pop.claim"]
         \/ MultipleConsumers /\ pc' = [pc EXCEPT ![c] = "pop.reload"]
         \/ ~MultipleConsumers /\ number - (at + 1) = 0 /\ pc' = [pc EXCEPT ![c] = "pop.consume"]
         \/ pc' = [pc EXCEPT ![c] = "idle"]
      /\ UNCHANGED <<writePosition, readPosition, sequence, cell, position, item, log, topology>>
    BY DEF PopCheck, At, Goto, Difference
<1>2. c \in Threads /\ c \notin Producers /\ at \in Nat /\ number \in Nat
    BY Sides, Sizes DEF IInv
<1>3. /\ \/ MultipleConsumers /\ number = at + 1 /\ pc'[c] = "pop.claim"
         \/ MultipleConsumers /\ pc'[c] = "pop.reload"
         \/ ~MultipleConsumers /\ number = at + 1 /\ pc'[c] = "pop.consume"
         \/ pc'[c] = "idle"
      /\ \A u \in Threads \ {c} : pc'[u] = pc[u] /\ position'[u] = position[u]
      /\ DOMAIN pc' = Threads
    BY <1>1, <1>2 DEF IInv, Typed
<1>4. Typed'
    BY <1>1, <1>2, <1>3 DEF IInv, Typed, Cells, PushLabels, PopLabels, Threads
<1>5. Frame(c)
    BY <1>1, <1>3, Sizes DEF Frame, IInv, Busy
<1>6. Alone'
    BY <1>1, <1>2, <1>5, StillAlone
<1>7. at <= readPosition /\ (~MultipleConsumers => at = readPosition)
    BY <1>1 DEF IInv, ConsumerAt
<1>8. ConsumerAt(c)'
    BY <1>1, <1>2, <1>3, <1>7 DEF ConsumerAt, MultipleConsumers, Emptying, CellOf
<1>9. QED
    BY <1>1, <1>2, <1>3, <1>4, <1>6, <1>8, Moves DEF Busy, Building, Emptying
-----------------------------------------------------------------------------
(* The steps of a push that change the ring.                               *)

(* The next position is claimed only when its cell has come round to it:   *)
(* by several producers with a compare-and-swap before the object is       *)
(* constructed, by a single one with a store after it.                     *)
LEMMA ClaimStep ==
    ASSUME IInv, NEW p \in Producers,
           \/ PushClaim(p)
           \/ PushAdvance(p)
    PROVE  /\ IInv'
           /\ position[p] = Len(log) /\ sequence[CellOf(position[p])] = position[p]
<1> DEFINE at == position[p]
           number == sequence[CellOf(at)]
<1>1. /\ \/ /\ pc[p] = "push.claim" /\ writePosition = at
            /\ pc' = [pc EXCEPT ![p] = "push.construct"]
         \/ pc[p] = "push.advance" /\ pc' = [pc EXCEPT ![p] = "push.publish"]
      /\ writePosition' = at + 1 /\ log' = Append(log, item[p])
      /\ UNCHANGED <<readPosition, sequence, cell, position, item, topology>>
    BY DEF PushClaim, PushAdvance, At, Goto
<1>2. p \in Threads /\ p \notin Consumers /\ at \in Nat /\ number \in Nat
    BY Sides, Sizes DEF IInv
<1>3. /\ Capacity \in Nat /\ Len(log) \in Nat /\ writePosition = Len(log)
      /\ readPosition \in Nat /\ readPosition <= Len(log)
    BY Sizes DEF IInv, Typed
<1>4. ProducerAt(p)
    BY DEF IInv
<1>5. at = Len(log)
    BY <1>1, <1>3, <1>4 DEF ProducerAt
<1>6. number = at
  <2>1. number <= at
      BY <1>2, <1>5, Unclaimed, Sizes DEF IInv
  <2>2. at <= number
      BY <1>1, <1>2, <1>4 DEF ProducerAt, Building
  <2>3. QED
      BY <1>2, <2>1, <2>2
<1>7. /\ \/ pc[p] = "push.claim" /\ pc'[p] = "push.construct" /\ MultipleProducers
         \/ pc[p] = "push.advance" /\ pc'[p] = "push.publish"
      /\ \A u \in Threads \ {p} : pc'[u] = pc[u] /\ position'[u] = position[u]
      /\ DOMAIN pc' = Threads /\ position'[p] = at
    BY <1>1, <1>2, <1>4 DEF IInv, Typed, ProducerAt
<1>8. /\ item[p] \in Values /\ log' \in Seq(Values) /\ Len(log') = Len(log) + 1
      /\ \A k \in 1 .. Len(log) : log'[k] = log[k]
      /\ log'[Len(log) + 1] = item[p]
  <2>1. item[p] \in Values
      BY <1>7 DEF IInv, Typed
  <2>2. QED
      BY <1>1, <2>1, AppendProperties DEF IInv, Typed
<1>9. Typed'
  <2>1. writePosition' = Len(log') /\ readPosition' \in 0 .. Len(log')
      BY <1>1, <1>3, <1>5, <1>8
  <2>2. QED
      BY <1>1, <1>2, <1>7, <1>8, <2>1 DEF IInv, Typed, Cells, PushLabels, PopLabels, Threads
<1>10. Frame(p)
  <2>1. Len(log) <= Len(log') /\ \A i \in Cells : sequence[i] <= sequence'[i]
      BY <1>1, <1>3, <1>8, Sizes DEF IInv
  <2>2. QED
      BY <1>1, <1>3, <1>7, <1>8, <2>1 DEF Frame
<1>11. Alone'
    BY <1>2, <1>7, <1>10, StillAlone
<1>12. CellStates'
    BY <1>1, <1>2, <1>7, <1>9, <1>10, StatesKeep DEF CellStates, Cells
<1>13. Contents'
  <2>1. \A q \in Nat : CellOf(q) \in Cells
      BY CellFacts
  <2>2. QED
      BY <1>1, <1>2, <1>7, <1>9, <1>10, <2>1, ContentsKeep DEF Contents, Built
<1>14. Behind'
  <2>1. \A k \in Len(log) .. Len(log') - 1 : k = at
      BY <1>3, <1>5, <1>8
  <2>2. \A k \in Len(log) .. Len(log') - 1 : k <= sequence'[CellOf(k)]
      BY <1>1, <1>2, <1>6, <2>1
  <2>3. \A k \in readPosition .. readPosition' - 1 : k < sequence'[CellOf(k)]
      BY <1>1, <1>3
  <2>4. QED
      BY <1>2, <1>9, <1>10, <2>2, <2>3, BehindKeeps
<1>15. Distinct'
  <2>1. ASSUME pc[p] = "push.claim", NEW u \in Producers \ {p}, pc[u] \in Building
        PROVE  position[u] # at
    <3>1. position[u] < Len(log) /\ position[u] \in Nat
        BY <1>4, <2>1, Sizes DEF IInv, ProducerAt, Building, Threads
    <3>2. QED
        BY <1>3, <1>5, <3>1
  <2>2. QED
      BY <1>2, <1>7, <1>10, <2>1, DistinctKeeps DEF Building
<1>16. ProducerAt(p)'
  <2>1. /\ MultipleProducers' <=> MultipleProducers
        /\ item'[p] = item[p] /\ at < Len(log') /\ log'[at + 1] = item[p]
        /\ sequence'[CellOf(at)] = at /\ cell'[CellOf(at)] = cell[CellOf(at)]
      BY <1>1, <1>3, <1>5, <1>6, <1>8 DEF MultipleProducers
  <2>2. pc[p] = "push.advance" => cell[CellOf(at)] = item[p]
      BY <1>4 DEF ProducerAt
  <2>3. QED
      BY <1>7, <2>1, <2>2 DEF ProducerAt, Building
<1>17. IInv'
    BY <1>2, <1>9, <1>10, <1>11, <1>12, <1>13, <1>14, <1>15, <1>16, Assemble
<1>18. QED
    BY <1>5, <1>6, <1>17

(* The frame of a step that changes at most the cell of its own position.  *)
LEMMA OwnFrame ==
    ASSUME IInv, NEW t \in Threads, pc[t] \in Busy,
           UNCHANGED <<writePosition, readPosition, item, log, topology, position>>,
           \A u \in Threads \ {t} : pc'[u] = pc[u],
           \A i \in Cells : sequence[i] <= sequence'[i],
           \A i \in Cells \ {CellOf(position[t])} :
             sequence'[i] = sequence[i] /\ cell'[i] = cell[i]
    PROVE  Frame(t)
<1>1. /\ Len(log) <= Len(log') /\ readPosition <= readPosition'
    BY Sizes DEF IInv
<1>2. ASSUME NEW u \in Threads \ {t}, pc[u] \in Busy
      PROVE  LET i == CellOf(position[u]) IN sequence'[i] = sequence[i] /\ cell'[i] = cell[i]
  <2>1. CellOf(position[u]) # CellOf(position[t]) /\ CellOf(position[u]) \in Cells
      BY <1>2, OwnCell, Sizes DEF IInv
  <2>2. QED
      BY <2>1
<1>3. QED
    BY <1>1, <1>2 DEF Frame

(* Constructing the object fills a cell that is the thread's own.           *)
LEMMA PushConstructStep ==
    ASSUME IInv, NEW p \in Producers, PushConstruct(p)
    PROVE  IInv'
<1> DEFINE at == position[p]
           next == IF MultipleProducers THEN "push.publish" ELSE "push.advance"
<1>1. /\ pc[p] = "push.construct" /\ pc' = [pc EXCEPT ![p] = next]
      /\ cell' = [cell EXCEPT ![CellOf(at)] = item[p]]
      /\ UNCHANGED <<writePosition, readPosition, sequence, position, item, log, topology>>
    BY DEF PushConstruct, At, Goto
<1>2. p \in Threads /\ p \notin Consumers /\ at \in Nat /\ CellOf(at) \in Cells
    BY Sides, Sizes DEF IInv
<1>3. ProducerAt(p) /\ sequence[CellOf(at)] = at /\ item[p] \in Values
    BY <1>1 DEF IInv, ProducerAt, Building, Typed
<1>4. /\ pc'[p] = next /\ \A u \in Threads \ {p} : pc'[u] = pc[u]
      /\ DOMAIN pc' = Threads /\ cell'[CellOf(at)] = item[p]
      /\ \A i \in Cells \ {CellOf(at)} : sequence'[i] = sequence[i] /\ cell'[i] = cell[i]
    BY <1>1, <1>2 DEF IInv, Typed
<1>5. next \in Built /\ (next = "push.publish" <=> MultipleProducers)
    BY DEF Built
<1>6. Typed'
    BY <1>1, <1>2, <1>3, <1>4, <1>5
       DEF IInv, Typed, Cells, PushLabels, PopLabels, Threads, Built
<1>7. Frame(p)
  <2>1. \A i \in Cells : sequence[i] <= sequence'[i]
      BY <1>1, Sizes DEF IInv
  <2>2. QED
      BY <1>1, <1>2, <1>4, <2>1, OwnFrame DEF Busy, Building
<1>8. Alone'
    BY <1>1, <1>2, <1>7, StillAlone
<1>9. CellStates'
    BY <1>1, <1>2, <1>6, <1>7, StatesKeep DEF CellStates, Cells
<1>10. Contents'
  <2> SUFFICES ASSUME NEW q \in Nat PROVE ContentsAt(q)'
      BY DEF Contents
  <2>1. CASE CellOf(q) # CellOf(at)
    <3>1. q # at /\ CellOf(q) \in Cells
        BY <2>1, CellFacts
    <3>2. QED
        BY <1>2, <1>4, <1>6, <1>7, <2>1, <3>1, ContentsKeep
  <2>2. CASE CellOf(q) = CellOf(at)
    <3>1. sequence'[CellOf(q)] = at /\ at # q + 1
        BY <1>1, <1>2, <1>3, <2>2, NeighboursDiffer
    <3>2. pc'[p] \in Built /\ position'[p] = at
        BY <1>1, <1>4, <1>5
    <3>3. QED
        BY <3>1, <3>2 DEF ContentsAt, CellOf
  <2>3. QED
      BY <2>1, <2>2
<1>11. Behind'
    BY <1>1, <1>2, <1>6, <1>7, Sizes, BehindKeeps DEF IInv
<1>12. Distinct'
    BY <1>1, <1>2, <1>7, DistinctKeeps DEF Building
<1>13. ProducerAt(p)'
  <2>1. /\ MultipleProducers' <=> MultipleProducers
        /\ item'[p] = item[p] /\ log' = log /\ position'[p] = at
        /\ sequence'[CellOf(at)] = at
      BY <1>1, <1>3 DEF MultipleProducers
  <2>2. /\ MultipleProducers => at < Len(log) /\ log[at + 1] = item[p]
        /\ ~MultipleProducers => at = Len(log)
      BY <1>1, <1>3 DEF ProducerAt
  <2> HIDE DEF next
  <2>3. QED
      BY <1>4, <1>5, <2>1, <2>2 DEF ProducerAt, Building, Built
<1>14. QED
    BY <1>2, <1>6, <1>7, <1>8, <1>9, <1>10, <1>11, <1>12, <1>13, Assemble

(* The store of the sequence number hands the cell to the consumers.        *)
LEMMA PushPublishStep ==
    ASSUME IInv, NEW p \in Producers, PushPublish(p)
    PROVE  IInv'
<1> DEFINE at == position[p]
<1>1. /\ pc[p] = "push.publish" /\ pc' = [pc EXCEPT ![p] = "idle"]
      /\ sequence' = [sequence EXCEPT ![CellOf(at)] = at + 1]
      /\ UNCHANGED <<writePosition, readPosition, cell, position, item, log, topology>>
    BY DEF PushPublish, At, Goto
<1>2. p \in Threads /\ p \notin Consumers /\ at \in Nat /\ CellOf(at) \in Cells
    BY Sides, Sizes DEF IInv
<1>3. /\ sequence[CellOf(at)] = at /\ cell[CellOf(at)] = item[p]
      /\ at < Len(log) /\ log[at + 1] = item[p]
    BY <1>1 DEF IInv, ProducerAt, Building
<1>4. /\ pc'[p] = "idle" /\ \A u \in Threads \ {p} : pc'[u] = pc[u]
      /\ DOMAIN pc' = Threads /\ sequence'[CellOf(at)] = at + 1
      /\ \A i \in Cells \ {CellOf(at)} : sequence'[i] = sequence[i] /\ cell'[i] = cell[i]
    BY <1>1, <1>2 DEF IInv, Typed
<1>5. Typed'
  <2>1. sequence' \in [Cells -> Nat]
      BY <1>1, <1>2 DEF IInv, Typed
  <2>2. QED
      BY <1>1, <1>2, <1>4, <2>1 DEF IInv, Typed, Cells, PushLabels, PopLabels, Threads
<1>6. Frame(p)
  <2>1. ASSUME NEW i \in Cells PROVE sequence[i] <= sequence'[i]
    <3>1. CASE i = CellOf(at)
        BY <1>2, <1>3, <1>4, <3>1
    <3>2. CASE i # CellOf(at)
      <4>1. sequence'[i] = sequence[i] /\ sequence[i] \in Nat
          BY <1>4, <3>2, Sizes DEF IInv
      <4>2. QED
          BY <4>1
    <3>3. QED
        BY <3>1, <3>2
  <2>2. QED
      BY <1>1, <1>2, <1>4, <2>1, OwnFrame DEF Busy, Building
<1>7. Alone'
    BY <1>1, <1>2, <1>6, StillAlone
<1>8. CellStates'
  <2> SUFFICES ASSUME NEW i \in Cells
               PROVE  \E k \in Nat :
                        /\ CellOf(k) = i /\ (Capacity <= k => Returned(k - Capacity)')
                        /\ sequence'[i] = k \/ (sequence'[i] = k + 1 /\ k < Len(log'))
      BY DEF CellStates, Cells, CellOf
  <2>1. CASE i # CellOf(at)
      BY <1>1, <1>2, <1>4, <1>5, <1>6, <2>1, StatesKeep
  <2>2. CASE i = CellOf(at)
    <3>1. PICK k \in Nat : /\ CellOf(k) = i /\ (Capacity <= k => Returned(k - Capacity))
                           /\ sequence[i] = k \/ (sequence[i] = k + 1 /\ k < Len(log))
        BY DEF IInv, CellStates
    <3>2. k = at
        BY <1>2, <1>3, <2>2, <3>1, NeighboursDiffer
    <3>3. Capacity <= at => Returned(at - Capacity)'
      <4>1. Capacity <= at => at - Capacity \in Nat
          BY <1>2, CapacityAssumption
      <4>2. QED
          BY <1>1, <1>2, <1>5, <1>6, <3>1, <3>2, <4>1, StillReturned
    <3>4. QED
        BY <1>1, <1>2, <1>3, <1>4, <2>2, <3>3
  <2>3. QED
      BY <2>1, <2>2
<1>9. Contents'
  <2> SUFFICES ASSUME NEW q \in Nat PROVE ContentsAt(q)'
      BY DEF Contents
  <2>1. CASE CellOf(q) # CellOf(at)
    <3>1. q # at /\ CellOf(q) \in Cells
        BY <2>1, CellFacts
    <3>2. QED
        BY <1>2, <1>4, <1>5, <1>6, <2>1, <3>1, ContentsKeep
  <2>2. CASE CellOf(q) = CellOf(at)
    <3>1. sequence'[CellOf(q)] = at + 1 /\ at + 1 # q
        BY <1>2, <1>4, <2>2, NeighboursDiffer
    <3>2. ASSUME at + 1 = q + 1 PROVE cell'[CellOf(q)] = log'[q + 1]
        BY <1>1, <1>2, <1>3, <2>2, <3>2
    <3>3. QED
        BY <3>1, <3>2 DEF ContentsAt, CellOf
  <2>3. QED
      BY <2>1, <2>2
<1>10. Behind'
    BY <1>1, <1>2, <1>5, <1>6, Sizes, BehindKeeps DEF IInv
<1>11. Distinct'
    BY <1>2, <1>4, <1>6, DistinctKeeps DEF Building
<1>12. ProducerAt(p)'
    BY <1>4 DEF ProducerAt, Building
<1>13. QED
    BY <1>2, <1>5, <1>6, <1>7, <1>8, <1>9, <1>10, <1>11, <1>12, Assemble
-----------------------------------------------------------------------------
(* The steps of a pop that change the ring.                                *)

LEMMA PopClaimStep ==
    ASSUME IInv, NEW c \in Consumers, PopClaim(c)
    PROVE  /\ IInv'
           /\ sequence[CellOf(readPosition)] = readPosition + 1 /\ readPosition < Len(log)
<1> DEFINE at == position[c]
           number == sequence[CellOf(at)]
<1>1. /\ pc[c] = "pop.claim" /\ readPosition = at
      /\ pc' = [pc EXCEPT ![c] = "pop.consume"] /\ readPosition' = at + 1
      /\ UNCHANGED <<writePosition, sequence, cell, position, item, log, topology>>
    BY DEF PopClaim, At, Goto
<1>2. c \in Threads /\ c \notin Producers /\ at \in Nat /\ number \in Nat
    BY Sides, Sizes DEF IInv
<1>3. MultipleConsumers /\ at < number
    BY <1>1 DEF IInv, ConsumerAt
<1>4. number = at + 1
  <2>1. \A d \in Consumers : pc[d] # "pop.advance"
      BY <1>3 DEF IInv, ConsumerAt
  <2>2. number <= at + 1
      BY <1>1, <1>2, <2>1, Untaken, Sizes DEF IInv
  <2>3. QED
      BY <1>2, <1>3, <2>2
<1>5. at < Len(log) /\ Len(log) \in Nat
    BY <1>2, <1>4, Holding, Sizes DEF IInv
<1>6. /\ pc'[c] = "pop.consume" /\ \A u \in Threads \ {c} : pc'[u] = pc[u] /\ position'[u] = position[u]
      /\ DOMAIN pc' = Threads /\ position'[c] = at
    BY <1>1, <1>2 DEF IInv, Typed
<1>7. Typed'
  <2>1. readPosition' \in 0 .. Len(log')
      BY <1>1, <1>2, <1>5
  <2>2. QED
      BY <1>1, <1>2, <1>6, <2>1 DEF IInv, Typed, Cells, PushLabels, PopLabels, Threads
<1>8. Frame(c)
  <2>1. /\ Len(log) <= Len(log') /\ readPosition <= readPosition'
        /\ \A i \in Cells : sequence[i] <= sequence'[i]
      BY <1>1, <1>2, <1>5, Sizes DEF IInv
  <2>2. QED
      BY <1>1, <1>3, <1>6, <2>1 DEF Frame
<1>9. Alone'
    BY <1>1, <1>2, <1>8, StillAlone
<1>10. CellStates'
    BY <1>1, <1>2, <1>7, <1>8, StatesKeep DEF CellStates, Cells
<1>11. Contents'
  <2>1. \A q \in Nat : CellOf(q) \in Cells
      BY CellFacts
  <2>2. QED
      BY <1>1, <1>2, <1>7, <1>8, <2>1, ContentsKeep DEF Contents, Built
<1>12. Behind'
  <2>1. \A k \in readPosition .. readPosition' - 1 : k = at
      BY <1>1, <1>2
  <2>2. \A k \in readPosition .. readPosition' - 1 : k < sequence'[CellOf(k)]
      BY <1>1, <1>2, <1>4, <2>1
  <2>3. \A k \in Len(log) .. Len(log') - 1 : k <= sequence'[CellOf(k)]
      BY <1>1, <1>5
  <2>4. QED
      BY <1>2, <1>7, <1>8, <2>2, <2>3, BehindKeeps
<1>13. Distinct'
  <2>1. ASSUME NEW u \in Consumers \ {c}, pc[u] \in Emptying PROVE position[u] # at
    <3>1. position[u] < readPosition /\ position[u] \in Nat
        BY <1>3, <2>1, Sizes DEF IInv, ConsumerAt, Threads
    <3>2. QED
        BY <1>1, <1>2, <3>1
  <2>2. QED
      BY <1>2, <1>6, <1>8, <2>1, DistinctKeeps
<1>14. ConsumerAt(c)'
  <2>1. /\ MultipleConsumers' <=> MultipleConsumers
        /\ at < readPosition' /\ sequence'[CellOf(at)] = at + 1
      BY <1>1, <1>2, <1>4 DEF MultipleConsumers
  <2>2. QED
      BY <1>3, <1>6, <2>1 DEF ConsumerAt, Emptying
<1>15. IInv'
    BY <1>2, <1>7, <1>8, <1>9, <1>10, <1>11, <1>12, <1>13, <1>14, Assemble
<1>16. QED
    BY <1>1, <1>4, <1>5, <1>15

(* Moving the value out empties a cell that is the thread's own.            *)
LEMMA PopConsumeStep ==
    ASSUME IInv, NEW c \in Consumers, PopConsume(c)
    PROVE  IInv'
<1> DEFINE at == position[c]
<1>1. /\ pc[c] = "pop.consume" /\ pc' = [pc EXCEPT ![c] = "pop.free"]
      /\ cell' = [cell EXCEPT ![CellOf(at)] = Vacant]
      /\ UNCHANGED <<writePosition, readPosition, sequence, position, item, log, topology>>
    BY DEF PopConsume, At, Goto
<1>2. c \in Threads /\ c \notin Producers /\ at \in Nat /\ CellOf(at) \in Cells
    BY Sides, Sizes DEF IInv
<1>3. ConsumerAt(c) /\ sequence[CellOf(at)] = at + 1
    BY <1>1 DEF IInv, ConsumerAt, Emptying
<1>4. /\ pc'[c] = "pop.free" /\ \A u \in Threads \ {c} : pc'[u] = pc[u]
      /\ DOMAIN pc' = Threads /\ cell'[CellOf(at)] = Vacant
      /\ \A i \in Cells \ {CellOf(at)} : sequence'[i] = sequence[i] /\ cell'[i] = cell[i]
    BY <1>1, <1>2 DEF IInv, Typed
<1>5. Typed'
    BY <1>1, <1>2, <1>4 DEF IInv, Typed, Cells, PushLabels, PopLabels, Threads
<1>6. Frame(c)
  <2>1. \A i \in Cells : sequence[i] <= sequence'[i]
      BY <1>1, Sizes DEF IInv
  <2>2. QED
      BY <1>1, <1>2, <1>4, <2>1, OwnFrame DEF Busy, Emptying
<1>7. Alone'
    BY <1>1, <1>2, <1>6, StillAlone
<1>8. CellStates'
    BY <1>1, <1>2, <1>5, <1>6, StatesKeep DEF CellStates, Cells
<1>9. Contents'
  <2> SUFFICES ASSUME NEW q \in Nat PROVE ContentsAt(q)'
      BY DEF Contents
  <2>1. CASE CellOf(q) # CellOf(at)
    <3>1. q # at /\ CellOf(q) \in Cells
        BY <2>1, CellFacts
    <3>2. QED
        BY <1>2, <1>4, <1>5, <1>6, <2>1, <3>1, ContentsKeep
  <2>2. CASE CellOf(q) = CellOf(at)
    <3>1. sequence'[CellOf(q)] = at + 1 /\ at + 1 # q /\ (at + 1 = q + 1 => at = q)
        BY <1>1, <1>2, <1>3, <2>2, NeighboursDiffer
    <3>2. pc'[c] = "pop.free" /\ position'[c] = at
        BY <1>1, <1>4
    <3>3. QED
        BY <3>1, <3>2 DEF ContentsAt, CellOf
  <2>3. QED
      BY <2>1, <2>2
<1>10. Behind'
    BY <1>1, <1>2, <1>5, <1>6, Sizes, BehindKeeps DEF IInv
<1>11. Distinct'
    BY <1>1, <1>2, <1>6, DistinctKeeps DEF Emptying
<1>12. ConsumerAt(c)'
  <2>1. /\ MultipleConsumers' <=> MultipleConsumers
        /\ position'[c] = at /\ sequence'[CellOf(at)] = at + 1
        /\ readPosition' = readPosition
      BY <1>1, <1>3 DEF MultipleConsumers
  <2>2. /\ MultipleConsumers => at < readPosition
        /\ ~MultipleConsumers => at = readPosition
      BY <1>1, <1>3 DEF ConsumerAt, Emptying
  <2>3. QED
      BY <1>4, <2>1, <2>2 DEF ConsumerAt, Emptying
<1>13. QED
    BY <1>2, <1>5, <1>6, <1>7, <1>8, <1>9, <1>10, <1>11, <1>12, Assemble

(* The store of the sequence number gives the cell to the next lap.         *)
LEMMA PopFreeStep ==
    ASSUME IInv, NEW c \in Consumers, PopFree(c)
    PROVE  IInv'
<1> DEFINE at == position[c]
           next == IF MultipleConsumers THEN "idle" ELSE "pop.advance"
<1>1. /\ pc[c] = "pop.free" /\ pc' = [pc EXCEPT ![c] = next]
      /\ sequence' = [sequence EXCEPT ![CellOf(at)] = at + Capacity]
      /\ UNCHANGED <<writePosition, readPosition, cell, position, item, log, topology>>
    BY DEF PopFree, At, Goto
<1>2. /\ c \in Threads /\ c \notin Producers /\ at \in Nat /\ CellOf(at) \in Cells
      /\ Capacity \in Nat /\ Capacity >= 2 /\ readPosition \in Nat /\ Len(log) \in Nat
    BY Sides, Sizes DEF IInv
<1>3. /\ ConsumerAt(c) /\ sequence[CellOf(at)] = at + 1 /\ cell[CellOf(at)] = Vacant
      /\ at < Len(log)
    BY <1>1, <1>2, Holding DEF IInv, ConsumerAt, Emptying
<1>4. /\ pc'[c] = next /\ \A u \in Threads \ {c} : pc'[u] = pc[u]
      /\ DOMAIN pc' = Threads /\ sequence'[CellOf(at)] = at + Capacity
      /\ \A i \in Cells \ {CellOf(at)} : sequence'[i] = sequence[i] /\ cell'[i] = cell[i]
    BY <1>1, <1>2 DEF IInv, Typed
<1>5. Typed'
  <2>1. sequence' \in [Cells -> Nat]
      BY <1>1, <1>2 DEF IInv, Typed
  <2>2. QED
      BY <1>1, <1>2, <1>4, <2>1 DEF IInv, Typed, Cells, PushLabels, PopLabels, Threads
<1>6. Frame(c)
  <2>1. ASSUME NEW i \in Cells PROVE sequence[i] <= sequence'[i]
    <3>1. CASE i = CellOf(at)
        BY <1>2, <1>3, <1>4, <3>1
    <3>2. CASE i # CellOf(at)
      <4>1. sequence'[i] = sequence[i] /\ sequence[i] \in Nat
          BY <1>4, <3>2, Sizes DEF IInv
      <4>2. QED
          BY <4>1
    <3>3. QED
        BY <3>1, <3>2
  <2>2. QED
      BY <1>1, <1>2, <1>4, <2>1, OwnFrame DEF Busy, Emptying
<1>7. Alone'
    BY <1>1, <1>2, <1>6, StillAlone
<1>8. CellStates'
  <2> SUFFICES ASSUME NEW i \in Cells
               PROVE  \E k \in Nat :
                        /\ CellOf(k) = i /\ (Capacity <= k => Returned(k - Capacity)')
                        /\ sequence'[i] = k \/ (sequence'[i] = k + 1 /\ k < Len(log'))
      BY DEF CellStates, Cells, CellOf
  <2>1. CASE i # CellOf(at)
      BY <1>1, <1>2, <1>4, <1>5, <1>6, <2>1, StatesKeep
  <2>2. CASE i = CellOf(at)
    <3>1. PICK k \in Nat : k = at + Capacity
        BY <1>2
    <3>2. k - Capacity = at /\ CellOf(k) = i
      <4>1. k - Capacity = at
          BY <1>2, <3>1
      <4>2. CellOf(at + Capacity) = CellOf(at)
          BY <1>2, CellFacts
      <4>3. QED
          BY <2>2, <3>1, <4>1, <4>2
    <3>3. Returned(at)'
      <4>1. CASE MultipleConsumers
        <5>1. at < readPosition
            BY <1>1, <1>3, <4>1 DEF ConsumerAt, Emptying
        <5>2. position[c] < readPosition' /\ position' = position
            BY <1>1, <5>1
        <5>3. QED
            BY <5>2 DEF Returned
      <4>2. CASE ~MultipleConsumers
        <5>1. pc'[c] = "pop.advance" /\ position'[c] = at
            BY <1>1, <1>4, <4>2
        <5>2. QED
            BY <5>1 DEF Returned
      <4>3. QED
          BY <4>1, <4>2
    <3>4. sequence'[i] = k
        BY <1>4, <2>2, <3>1
    <3>5. (Returned(at)' => Returned(k - Capacity)')
        BY <1>1, <3>2 DEF Returned
    <3>6. QED
        BY <3>2, <3>3, <3>4, <3>5
  <2>3. QED
      BY <2>1, <2>2
<1>9. Contents'
  <2> SUFFICES ASSUME NEW q \in Nat PROVE ContentsAt(q)'
      BY DEF Contents
  <2>1. CASE CellOf(q) # CellOf(at)
    <3>1. q # at /\ CellOf(q) \in Cells
        BY <2>1, CellFacts
    <3>2. QED
        BY <1>2, <1>4, <1>5, <1>6, <2>1, <3>1, ContentsKeep
  <2>2. CASE CellOf(q) = CellOf(at)
    <3>1. at + Capacity # q + 1
      <4>1. at + Capacity \in Nat
          BY <1>2
      <4>2. CellOf(at + Capacity) = CellOf(q)
          BY <1>2, <2>2, CellFacts
      <4>3. QED
          BY <4>1, <4>2, NeighboursDiffer
    <3>2. cell'[CellOf(q)] = Vacant /\ sequence'[CellOf(q)] = at + Capacity
        BY <1>1, <1>3, <1>4, <2>2
    <3>3. QED
        BY <3>1, <3>2 DEF ContentsAt, CellOf
  <2>3. QED
      BY <2>1, <2>2
<1>10. Behind'
    BY <1>1, <1>2, <1>5, <1>6, Sizes, BehindKeeps DEF IInv
<1>11. Distinct'
    BY <1>2, <1>4, <1>6, DistinctKeeps DEF Emptying
<1>12. ConsumerAt(c)'
  <2>1. /\ MultipleConsumers' <=> MultipleConsumers
        /\ position'[c] = at /\ sequence'[CellOf(at)] = at + Capacity
        /\ readPosition' = readPosition /\ log' = log /\ at + Capacity <= at + Capacity
      BY <1>1, <1>2, <1>4 DEF MultipleConsumers
  <2>2. ~MultipleConsumers => at = readPosition
      BY <1>1, <1>3 DEF ConsumerAt
  <2>3. QED
      BY <1>3, <1>4, <2>1, <2>2 DEF ConsumerAt, Emptying
<1>13. QED
    BY <1>2, <1>5, <1>6, <1>7, <1>8, <1>9, <1>10, <1>11, <1>12, Assemble

(* A single consumer moves past the head it has given back.                 *)
LEMMA PopAdvanceStep ==
    ASSUME IInv, NEW c \in Consumers, PopAdvance(c)
    PROVE  /\ IInv'
           /\ position[c] = readPosition /\ readPosition < Len(log)
           /\ readPosition < sequence[CellOf(readPosition)]
<1> DEFINE at == position[c]
<1>1. /\ pc[c] = "pop.advance" /\ readPosition' = at + 1
      /\ \/ /\ position' = [position EXCEPT ![c] = at + 1]
            /\ pc' = [pc EXCEPT ![c] = "pop.check"]
         \/ position' = position /\ pc' = [pc EXCEPT ![c] = "idle"]
      /\ UNCHANGED <<writePosition, sequence, cell, item, log, topology>>
    BY DEF PopAdvance, At, Goto, Aim
<1>2. /\ c \in Threads /\ c \notin Producers /\ at \in Nat /\ sequence[CellOf(at)] \in Nat
      /\ Capacity \in Nat /\ Capacity >= 2 /\ Len(log) \in Nat
    BY Sides, Sizes DEF IInv
<1>3. ~MultipleConsumers /\ at < Len(log) /\ at + Capacity <= sequence[CellOf(at)]
      /\ at = readPosition
    BY <1>1 DEF IInv, ConsumerAt
<1>4. at < sequence[CellOf(at)]
    BY <1>2, <1>3
<1>5. /\ \/ pc'[c] = "pop.check" /\ position'[c] = at + 1
         \/ pc'[c] = "idle"
      /\ \A u \in Threads \ {c} : pc'[u] = pc[u] /\ position'[u] = position[u]
      /\ DOMAIN pc' = Threads
    BY <1>1, <1>2 DEF IInv, Typed
<1>6. Typed'
  <2>1. readPosition' \in 0 .. Len(log')
      BY <1>1, <1>2, <1>3
  <2>2. position' \in [Threads -> Nat]
      BY <1>1, <1>2 DEF IInv, Typed
  <2>3. QED
      BY <1>1, <1>2, <1>5, <2>1, <2>2 DEF IInv, Typed, Cells, PushLabels, PopLabels, Threads
<1>7. Frame(c)
  <2>1. /\ Len(log) <= Len(log') /\ readPosition <= readPosition'
        /\ \A i \in Cells : sequence[i] <= sequence'[i]
      BY <1>1, <1>2, <1>3, Sizes DEF IInv
  <2>2. QED
      BY <1>1, <1>5, <2>1 DEF Frame
<1>8. Alone'
    BY <1>1, <1>2, <1>7, StillAlone
<1>9. position[c] < readPosition'
    BY <1>1, <1>2
<1>10. CellStates'
    BY <1>1, <1>2, <1>6, <1>7, <1>9, StatesKeep DEF CellStates, Cells
<1>11. Contents'
  <2>1. \A q \in Nat : CellOf(q) \in Cells
      BY CellFacts
  <2>2. QED
      BY <1>1, <1>2, <1>6, <1>7, <2>1, ContentsKeep DEF Contents, Built
<1>12. Behind'
  <2>1. \A k \in readPosition .. readPosition' - 1 : k = at
      BY <1>1, <1>2, <1>3
  <2>2. \A k \in readPosition .. readPosition' - 1 : k < sequence'[CellOf(k)]
      BY <1>1, <1>4, <2>1
  <2>3. \A k \in Len(log) .. Len(log') - 1 : k <= sequence'[CellOf(k)]
      BY <1>1, <1>2
  <2>4. QED
      BY <1>2, <1>6, <1>7, <2>2, <2>3, BehindKeeps
<1>13. Distinct'
    BY <1>2, <1>5, <1>7, DistinctKeeps DEF Emptying
<1>14. ConsumerAt(c)'
  <2>1. readPosition' \in Nat /\ readPosition' <= readPosition' /\ readPosition' = at + 1
      BY <1>1, <1>2
  <2>2. QED
      BY <1>5, <2>1 DEF ConsumerAt, Emptying
<1>15. IInv'
    BY <1>2, <1>6, <1>7, <1>8, <1>10, <1>11, <1>12, <1>13, <1>14, Assemble
<1>16. QED
    BY <1>3, <1>4, <1>15
-----------------------------------------------------------------------------
(* An empty ring satisfies the invariant.                                   *)
LEMMA InitIInv == Init => IInv
<1> SUFFICES ASSUME Init PROVE IInv
    OBVIOUS
<1>1. /\ log = << >> /\ Len(log) = 0 /\ readPosition = 0
      /\ \A t \in Threads : pc[t] = "idle"
      /\ \A i \in Cells : sequence[i] = i /\ cell[i] = Vacant /\ i \in Nat /\ i < Capacity
    BY CapacityAssumption DEF Init, Cells
<1>2. Typed
    BY <1>1, TopologyAssumption, CapacityAssumption
       DEF Init, Typed, Cells, PushLabels, PopLabels, Threads
<1>3. CellStates
  <2> SUFFICES ASSUME NEW i \in Cells
               PROVE  /\ i \in Nat /\ CellOf(i) = i /\ (Capacity <= i => Returned(i - Capacity))
                      /\ sequence[i] = i
      BY DEF CellStates
  <2>1. ~(Capacity <= i)
      BY <1>1, CapacityAssumption
  <2>2. QED
      BY <1>1, <2>1, CellFacts
<1>4. Contents
  <2> SUFFICES ASSUME NEW p \in Nat PROVE ContentsAt(p)
      BY DEF Contents
  <2>1. PICK r \in Cells : r = CellOf(p)
      BY CellFacts
  <2>2. sequence[r] = r /\ cell[r] = Vacant /\ CellOf(r) = r /\ r \in Nat
      BY <1>1, CellFacts
  <2>3. r # p + 1
      BY <2>1, <2>2, NeighboursDiffer
  <2>4. QED
      BY <2>1, <2>2, <2>3 DEF ContentsAt
<1>5. Behind
    BY <1>1 DEF Behind
<1>6. Alone /\ Distinct
    BY <1>1 DEF Alone, Distinct, Threads, Building, Emptying
<1>7. /\ \A p \in Producers : ProducerAt(p)
      /\ \A c \in Consumers : ConsumerAt(c)
    BY <1>1 DEF ProducerAt, ConsumerAt, Threads, Building, Emptying
<1>8. QED
    BY <1>2, <1>3, <1>4, <1>5, <1>6, <1>7 DEF IInv

(* A step that changes nothing keeps it,                                    *)
LEMMA StutterIInv ==
    ASSUME IInv, UNCHANGED vars
    PROVE  IInv'
<1>1. (MultipleProducers' <=> MultipleProducers) /\ (MultipleConsumers' <=> MultipleConsumers)
    BY DEF vars, MultipleProducers, MultipleConsumers
<1>2. Typed' /\ Alone' /\ Behind' /\ Distinct'
    BY <1>1 DEF vars, IInv, Typed, Alone, Behind, Distinct, Cells, CellOf, Threads
<1>3. CellStates'
    BY DEF vars, IInv, CellStates, Returned, Cells, CellOf
<1>4. Contents'
    BY DEF vars, IInv, Contents, ContentsAt, CellOf
<1>5. \A p \in Producers : ProducerAt(p)'
    BY <1>1 DEF vars, IInv, ProducerAt, CellOf
<1>6. \A c \in Consumers : ConsumerAt(c)'
    BY <1>1 DEF vars, IInv, ConsumerAt, CellOf
<1>7. QED
    BY <1>2, <1>3, <1>4, <1>5, <1>6 DEF IInv

(* and so does every step.                                                  *)
LEMMA NextIInv == IInv /\ [Next]_vars => IInv'
<1> SUFFICES ASSUME IInv, [Next]_vars PROVE IInv'
    OBVIOUS
<1>1. CASE UNCHANGED vars
    BY <1>1, StutterIInv
<1>2. ASSUME NEW p \in Producers, ProducerStep(p) PROVE IInv'
  <2>1. ASSUME NEW v \in Values, PushBegin(p, v) PROVE IInv'
      BY <2>1, PushBeginStep
  <2>2. CASE PushCheck(p)
      BY <2>2, PushCheckStep
  <2>3. CASE PushReload(p) \/ PushClaimFails(p)
      BY <2>3, PushMoveStep
  <2>4. CASE PushClaim(p) \/ PushAdvance(p)
      BY <2>4, ClaimStep
  <2>5. CASE PushConstruct(p)
      BY <2>5, PushConstructStep
  <2>6. CASE PushPublish(p)
      BY <2>6, PushPublishStep
  <2>7. QED
      BY <1>2, <2>1, <2>2, <2>3, <2>4, <2>5, <2>6 DEF ProducerStep
<1>3. ASSUME NEW c \in Consumers, ConsumerStep(c) PROVE IInv'
  <2>1. CASE PopBegin(c) \/ PopReload(c) \/ PopClaimFails(c)
      BY <2>1, PopMoveStep
  <2>2. CASE PopCheck(c)
      BY <2>2, PopCheckStep
  <2>3. CASE PopClaim(c)
      BY <2>3, PopClaimStep
  <2>4. CASE PopConsume(c)
      BY <2>4, PopConsumeStep
  <2>5. CASE PopFree(c)
      BY <2>5, PopFreeStep
  <2>6. CASE PopAdvance(c)
      BY <2>6, PopAdvanceStep
  <2>7. QED
      BY <1>3, <2>1, <2>2, <2>3, <2>4, <2>5, <2>6 DEF ConsumerStep
<1>4. QED
    BY <1>1, <1>2, <1>3 DEF Next

(* The inductive invariant holds in every reachable state. *)
THEOREM Inductive == Spec => []IInv
BY InitIInv, NextIInv, PTL DEF Spec

(* A producer constructs in a vacant cell, a consumer reads the value of   *)
(* its own position, and no two of them work in the same cell.             *)
THEOREM CellsAreExclusive == Spec => []CellSafety
<1>1. IInv => CellSafety
  <2> SUFFICES ASSUME IInv PROVE CellSafety
      OBVIOUS
  <2>1. ASSUME NEW p \in Producers, pc[p] = "push.construct"
        PROVE  cell[CellOf(position[p])] = Vacant
    <3>1. sequence[CellOf(position[p])] = position[p] /\ position[p] \in Nat
        BY <2>1 DEF IInv, ProducerAt, Building, Typed, Threads
    <3>2. \A q \in Producers : pc[q] \in Built => position[q] # position[p]
        BY <2>1 DEF IInv, Distinct, Built, Building
    <3>3. ContentsAt(position[p])
        BY <3>1 DEF IInv, Contents
    <3>4. QED
        BY <3>1, <3>2, <3>3 DEF ContentsAt
  <2>2. ASSUME NEW c \in Consumers, pc[c] = "pop.consume"
        PROVE  cell[CellOf(position[c])] = log[position[c] + 1]
    <3>1. sequence[CellOf(position[c])] = position[c] + 1 /\ position[c] \in Nat
        BY <2>2 DEF IInv, ConsumerAt, Emptying, Typed, Threads
    <3>2. \A d \in Consumers : pc[d] = "pop.free" => position[d] # position[c]
        BY <2>2 DEF IInv, Distinct, Emptying
    <3>3. ContentsAt(position[c])
        BY <3>1 DEF IInv, Contents
    <3>4. QED
        BY <3>1, <3>2, <3>3 DEF ContentsAt
  <2>3. CellAccess \subseteq Busy
      BY DEF CellAccess, Busy, Building, Emptying
  <2>4. QED
      BY <2>1, <2>2, <2>3, OwnCell DEF CellSafety, At
<1>2. QED
    BY <1>1, Inductive, PTL
-----------------------------------------------------------------------------
(* The ring as a RingStorage.                                              *)
Ready == {p \in 0 .. Len(log) - 1 : sequence[CellOf(p)] > p}
Freed == {p \in 0 .. Len(log) - 1 : sequence[CellOf(p)] >= p + Capacity}

(* Two positions of one cell are equal or a lap apart.                      *)
LEMMA Laps ==
    ASSUME NEW p \in Nat, NEW q \in Nat, CellOf(p) = CellOf(q)
    PROVE  p = q \/ p + Capacity <= q \/ q + Capacity <= p
BY SameCell

(* The cell of the next position has come round to it: there is room.      *)
LEMMA RoomForNext ==
    ASSUME IInv, sequence[CellOf(Len(log))] = Len(log)
    PROVE  Storage!HasRoom
<1>1. Len(log) \in Nat /\ Capacity \in Nat
    BY Sizes DEF IInv
<1>2. CASE Len(log) < Capacity
    BY <1>2 DEF Storage!HasRoom, Storage!Claimed
<1>3. CASE Capacity <= Len(log)
  <2>1. PICK k \in Nat : k = Len(log) - Capacity
      BY <1>1, <1>3
  <2>2. k + Capacity = Len(log) /\ k \in 0 .. Len(log) - 1
      BY <1>1, <2>1, CapacityAssumption
  <2>3. sequence[CellOf(k)] = Len(log)
      BY <2>2, CellFacts
  <2>4. k \in Freed
      BY <1>1, <2>2, <2>3 DEF Freed
  <2>5. QED
      BY <2>1, <2>4 DEF Freed, Storage!HasRoom, Storage!Claimed
<1>4. QED
    BY <1>1, <1>2, <1>3

(* A claim is a Claim of the storage,                                       *)
LEMMA ClaimClaims ==
    ASSUME IInv, NEW p \in Producers, PushClaim(p) \/ PushAdvance(p)
    PROVE  Storage!StorageNext
<1>1. position[p] = Len(log) /\ sequence[CellOf(position[p])] = position[p]
    BY ClaimStep
<1>2. /\ log' = Append(log, item[p]) /\ readPosition' = readPosition /\ sequence' = sequence
      /\ item[p] \in Values
    BY DEF PushClaim, PushAdvance, At, IInv, Typed
<1>3. Len(log) \in Nat /\ Len(log') = Len(log) + 1 /\ Capacity \in Nat /\ Capacity >= 2
    BY <1>2, Sizes, AppendProperties DEF IInv, Typed
<1>4. 0 .. Len(log') - 1 = (0 .. Len(log) - 1) \cup {Len(log)}
    BY <1>3
<1>5. Ready' = Ready
    BY <1>1, <1>2, <1>3, <1>4 DEF Ready, CellOf
<1>6. Freed' = Freed
  <2>1. ~(sequence[CellOf(Len(log))] >= Len(log) + Capacity)
      BY <1>1, <1>3
  <2>2. QED
      BY <1>2, <1>4, <2>1 DEF Freed, CellOf
<1>7. Storage!HasRoom
    BY <1>1, RoomForNext
<1>8. Storage!Claim(item[p])
    BY <1>2, <1>5, <1>6, <1>7 DEF Storage!Claim, Ready, Freed
<1>9. QED
    BY <1>2, <1>8 DEF Storage!StorageNext

(* a store of the sequence number by a producer a Publish,                  *)
LEMMA PublishPublishes ==
    ASSUME IInv, NEW p \in Producers, PushPublish(p)
    PROVE  Storage!StorageNext
<1>1. PICK at \in Nat : at = position[p]
    BY Sizes DEF IInv, Threads
<1>2. /\ pc[p] = "push.publish" /\ sequence' = [sequence EXCEPT ![CellOf(at)] = at + 1]
      /\ UNCHANGED <<readPosition, log>>
    BY <1>1 DEF PushPublish, At
<1>3. /\ sequence[CellOf(at)] = at /\ at < Len(log) /\ Len(log) \in Nat
      /\ Capacity \in Nat /\ Capacity >= 2 /\ CellOf(at) \in Cells
    BY <1>1, <1>2, Sizes, CellFacts DEF IInv, ProducerAt, Building
<1>4. /\ sequence'[CellOf(at)] = at + 1
      /\ \A i \in Cells \ {CellOf(at)} : sequence'[i] = sequence[i]
    BY <1>2, <1>3 DEF IInv, Typed
<1>5. ASSUME NEW k \in 0 .. Len(log) - 1
      PROVE  /\ sequence'[CellOf(k)] > k <=> (sequence[CellOf(k)] > k \/ k = at)
             /\ sequence'[CellOf(k)] >= k + Capacity <=> sequence[CellOf(k)] >= k + Capacity
  <2>1. k \in Nat /\ CellOf(k) \in Cells
      BY CellFacts
  <2>2. CASE CellOf(k) # CellOf(at)
      BY <1>4, <2>1, <2>2
  <2>3. CASE CellOf(k) = CellOf(at)
    <3>1. k = at \/ k + Capacity <= at \/ at + Capacity <= k
        BY <2>1, <2>3, Laps
    <3>2. k + Capacity # at + 1
      <4>1. k + Capacity \in Nat /\ CellOf(k + Capacity) = CellOf(at)
          BY <1>3, <2>1, <2>3, CellFacts
      <4>2. QED
          BY <4>1, NeighboursDiffer
    <3>3. QED
        BY <1>3, <1>4, <2>1, <2>3, <3>1, <3>2
  <2>4. QED
      BY <2>2, <2>3
<1>6. Ready' = Ready \cup {at} /\ Freed' = Freed
    BY <1>2, <1>3, <1>5 DEF Ready, Freed, CellOf
<1>7. at \in 0 .. Len(log) - 1 /\ at \notin Ready
    BY <1>3 DEF Ready
<1>8. Storage!Publish(at)
    BY <1>2, <1>3, <1>6, <1>7 DEF Storage!Publish, Storage!Claimed, Ready, Freed
<1>9. QED
    BY <1>7, <1>8 DEF Storage!StorageNext, Storage!Claimed

(* a claim by a consumer, or a single consumer's advance, a Take,           *)
LEMMA TakeTakes ==
    ASSUME IInv, NEW c \in Consumers, PopClaim(c) \/ PopAdvance(c)
    PROVE  Storage!StorageNext
<1>1. readPosition < Len(log) /\ readPosition < sequence[CellOf(readPosition)]
  <2>1. CASE PopClaim(c)
      BY <2>1, PopClaimStep, Sizes DEF IInv
  <2>2. CASE PopAdvance(c)
      BY <2>2, PopAdvanceStep
  <2>3. QED
      BY <2>1, <2>2
<1>2. readPosition' = readPosition + 1 /\ UNCHANGED <<log, sequence>>
    BY PopAdvanceStep DEF PopClaim, PopAdvance
<1>3. Ready' = Ready /\ Freed' = Freed
    BY <1>2 DEF Ready, Freed, CellOf
<1>4. readPosition \in Nat /\ Len(log) \in Nat /\ sequence[CellOf(readPosition)] \in Nat
    BY Sizes, CellFacts DEF IInv
<1>5. readPosition \in Ready
    BY <1>1, <1>4 DEF Ready
<1>6. Storage!Take
    BY <1>2, <1>3, <1>5 DEF Storage!Take, Storage!HasItem, Ready, Freed
<1>7. QED
    BY <1>6 DEF Storage!StorageNext

(* a store of the sequence number by a consumer a Free,                     *)
LEMMA FreeFrees ==
    ASSUME IInv, NEW c \in Consumers, PopFree(c)
    PROVE  Storage!StorageNext
<1>1. PICK at \in Nat : at = position[c]
    BY Sizes DEF IInv, Threads
<1>2. /\ pc[c] = "pop.free" /\ sequence' = [sequence EXCEPT ![CellOf(at)] = at + Capacity]
      /\ UNCHANGED <<readPosition, log>>
    BY <1>1 DEF PopFree, At
<1>3. /\ sequence[CellOf(at)] = at + 1 /\ Len(log) \in Nat /\ readPosition \in Nat
      /\ Capacity \in Nat /\ Capacity >= 2 /\ CellOf(at) \in Cells
    BY <1>1, <1>2, Sizes, CellFacts DEF IInv, ConsumerAt, Emptying
<1>4. at < Len(log) /\ at <= readPosition
  <2>1. at < readPosition \/ at = readPosition
      BY <1>1, <1>2 DEF IInv, ConsumerAt, Emptying
  <2>2. QED
      BY <1>3, <2>1, Holding
<1>5. /\ sequence'[CellOf(at)] = at + Capacity
      /\ \A i \in Cells \ {CellOf(at)} : sequence'[i] = sequence[i]
    BY <1>2, <1>3 DEF IInv, Typed
<1>6. ASSUME NEW k \in 0 .. Len(log) - 1
      PROVE  /\ sequence'[CellOf(k)] > k <=> sequence[CellOf(k)] > k
             /\ (sequence'[CellOf(k)] >= k + Capacity) <=>
                (sequence[CellOf(k)] >= k + Capacity \/ k = at)
  <2>1. k \in Nat /\ CellOf(k) \in Cells
      BY CellFacts
  <2>2. CASE CellOf(k) # CellOf(at)
      BY <1>5, <2>1, <2>2
  <2>3. CASE CellOf(k) = CellOf(at)
    <3>1. k = at \/ k + Capacity <= at \/ at + Capacity <= k
        BY <2>1, <2>3, Laps
    <3>2. QED
        BY <1>3, <1>5, <2>1, <2>3, <3>1
  <2>4. QED
      BY <2>2, <2>3
<1>7. Ready' = Ready /\ Freed' = Freed \cup {at}
  <2>1. Ready' = Ready
      BY <1>2, <1>6 DEF Ready, CellOf
  <2>2. at \in 0 .. Len(log) - 1
      BY <1>3, <1>4
  <2>3. Freed' = Freed \cup {at}
      BY <1>2, <1>6, <2>2 DEF Freed, CellOf
  <2>4. QED
      BY <2>1, <2>3
<1>8. at \in 0 .. Len(log) - 1 /\ at \in Ready \ Freed
    BY <1>3, <1>4 DEF Ready, Freed
<1>9. Storage!Free(at)
    BY <1>2, <1>4, <1>7, <1>8 DEF Storage!Free, Ready, Freed
<1>10. QED
    BY <1>8, <1>9 DEF Storage!StorageNext, Storage!Claimed

(* and every other step is invisible.                                       *)
LEMMA OthersStutter ==
    ASSUME UNCHANGED <<readPosition, sequence, log>>
    PROVE  UNCHANGED Storage!storageVars
BY DEF Storage!storageVars, CellOf

(* The ring implements the abstract storage: positions are claimed one     *)
(* after the other and only when the cell of the position a lap earlier    *)
(* was given back, published once, taken in order and only when published, *)
(* and given back once.                                                    *)
THEOREM Implements == Spec => StorageSpec
<1>1. Init => Storage!StorageInit
  <2> SUFFICES ASSUME Init PROVE Storage!StorageInit
      OBVIOUS
  <2>1. log = << >> /\ 0 .. Len(log) - 1 = {} /\ readPosition = 0
      BY DEF Init
  <2>2. QED
      BY <2>1 DEF Storage!StorageInit
<1>2. IInv /\ [Next]_vars => [Storage!StorageNext]_(Storage!storageVars)
  <2> SUFFICES ASSUME IInv, [Next]_vars
               PROVE  Storage!StorageNext \/ UNCHANGED Storage!storageVars
      OBVIOUS
  <2>1. CASE UNCHANGED vars
      BY <2>1, OthersStutter DEF vars
  <2>2. ASSUME NEW p \in Producers, ProducerStep(p)
        PROVE  Storage!StorageNext \/ UNCHANGED Storage!storageVars
    <3>1. CASE PushClaim(p) \/ PushAdvance(p)
        BY <3>1, ClaimClaims
    <3>2. CASE PushPublish(p)
        BY <3>2, PublishPublishes
    <3>3. CASE ~(PushClaim(p) \/ PushAdvance(p) \/ PushPublish(p))
      <4>1. UNCHANGED <<readPosition, sequence, log>>
          BY <2>2, <3>3
             DEF ProducerStep, PushBegin, PushCheck, PushReload, PushClaimFails, PushConstruct
      <4>2. QED
          BY <4>1, OthersStutter
    <3>4. QED
        BY <3>1, <3>2, <3>3
  <2>3. ASSUME NEW c \in Consumers, ConsumerStep(c)
        PROVE  Storage!StorageNext \/ UNCHANGED Storage!storageVars
    <3>1. CASE PopClaim(c) \/ PopAdvance(c)
        BY <3>1, TakeTakes
    <3>2. CASE PopFree(c)
        BY <3>2, FreeFrees
    <3>3. CASE ~(PopClaim(c) \/ PopAdvance(c) \/ PopFree(c))
      <4>1. UNCHANGED <<readPosition, sequence, log>>
          BY <2>3, <3>3
             DEF ConsumerStep, PopBegin, PopCheck, PopReload, PopClaimFails, PopConsume
      <4>2. QED
          BY <4>1, OthersStutter
    <3>4. QED
        BY <3>1, <3>2, <3>3
  <2>4. QED
      BY <2>1, <2>2, <2>3 DEF Next
<1>3. QED
    BY <1>1, <1>2, Inductive, PTL DEF Spec, StorageSpec, Storage!StorageSpec
-----------------------------------------------------------------------------
(* What a failure tells.                                                   *)

(* Only the check of a call ends it there. *)
LEMMA OwnCheck ==
    ASSUME IInv, [Next]_vars, NEW t \in Threads, pc[t] \in {"push.check", "pop.check"},
           pc'[t] = "idle"
    PROVE  /\ t \in Producers => PushCheck(t)
           /\ t \in Consumers => PopCheck(t)
<1>1. DOMAIN pc = Threads
    BY DEF IInv, Typed
<1>2. \A u \in Threads : (\E l : Goto(u, l)) /\ u # t => pc'[t] = pc[t]
    BY <1>1 DEF Goto
<1>3. ASSUME NEW p \in Producers, ProducerStep(p)
      PROVE  p = t /\ PushCheck(p)
  <2>1. \E l : Goto(p, l)
      BY <1>3 DEF ProducerStep, PushBegin, PushCheck, PushReload, PushClaim, PushClaimFails,
                  PushConstruct, PushAdvance, PushPublish
  <2>2. p = t
      BY <1>2, <2>1 DEF Threads
  <2>3. QED
      BY <1>1, <1>3, <2>2
         DEF ProducerStep, PushBegin, PushReload, PushClaim, PushClaimFails,
             PushConstruct, PushAdvance, PushPublish, At, Goto
<1>4. ASSUME NEW c \in Consumers, ConsumerStep(c)
      PROVE  c = t /\ PopCheck(c)
  <2>1. \E l : Goto(c, l)
      BY <1>4 DEF ConsumerStep, PopBegin, PopCheck, PopReload, PopClaim, PopClaimFails,
                  PopConsume, PopFree, PopAdvance
  <2>2. c = t
      BY <1>2, <2>1 DEF Threads
  <2>3. QED
      BY <1>1, <1>4, <2>2
         DEF ConsumerStep, PopBegin, PopReload, PopClaim, PopClaimFails,
             PopConsume, PopFree, PopAdvance, At, Goto
<1>5. CASE UNCHANGED vars
    BY <1>5 DEF vars
<1>6. QED
    BY <1>3, <1>4, <1>5, ThreadAssumption DEF Next

(* A push gives up at the end of a full ring,                               *)
LEMMA FullIsFull ==
    ASSUME IInv, NEW p \in Producers, PushCheck(p), pc'[p] = "idle"
    PROVE  ~Storage!HasRoom
<1> DEFINE at == position[p]
           number == sequence[CellOf(at)]
<1>1. at \in Nat /\ number \in Nat /\ Len(log) \in Nat /\ p \in Threads /\ Capacity \in Nat
    BY Sizes DEF IInv, Threads
<1>2. pc[p] = "push.check" /\ (number < at \/ (~MultipleProducers /\ number # at))
    BY <1>1 DEF PushCheck, At, Goto, Difference, IInv, Typed
<1>3. at <= Len(log) /\ (~MultipleProducers => at = Len(log))
    BY <1>2 DEF IInv, ProducerAt
<1>4. at = Len(log) /\ number < at
  <2>1. at < Len(log) => at <= number
    <3>1. at < Len(log) => at \in 0 .. Len(log) - 1
        BY <1>1
    <3>2. QED
        BY <3>1 DEF IInv, Behind
  <2>2. at = Len(log) => number <= at
      BY <1>1, Unclaimed
  <2>3. QED
      BY <1>1, <1>2, <1>3, <2>1, <2>2
<1>5. ~(Len(log) < Capacity)
  <2> SUFFICES ASSUME at < Capacity PROVE FALSE
      BY <1>4
  <2>1. CellOf(at) = at /\ at \in Cells
      BY <1>1, CellFacts
  <2>2. PICK q \in Nat : CellOf(q) = at /\ (sequence[at] = q \/ sequence[at] = q + 1)
      BY <2>1 DEF IInv, CellStates
  <2>3. q = at \/ q + Capacity <= at \/ at + Capacity <= q
      BY <1>1, <2>1, <2>2, Laps
  <2>4. QED
      BY <1>1, <1>4, <2>1, <2>2, <2>3
<1>6. ~(Len(log) - Capacity \in Freed)
  <2> SUFFICES ASSUME NEW k \in Freed, k = Len(log) - Capacity PROVE FALSE
      OBVIOUS
  <2>1. k \in Nat /\ k + Capacity = at /\ sequence[CellOf(k)] >= at
      BY <1>1, <1>4 DEF Freed
  <2>2. CellOf(k) = CellOf(at)
      BY <2>1, CellFacts
  <2>3. QED
      BY <1>1, <1>4, <2>1, <2>2
<1>7. QED
    BY <1>5, <1>6 DEF Storage!HasRoom, Storage!Claimed, Freed

(* and a pop at a head that is not published.                               *)
LEMMA EmptyIsEmpty ==
    ASSUME IInv, NEW c \in Consumers, PopCheck(c), pc'[c] = "idle"
    PROVE  ~Storage!HasItem
<1> DEFINE at == position[c]
           number == sequence[CellOf(at)]
<1>1. at \in Nat /\ number \in Nat /\ readPosition \in Nat /\ c \in Threads
    BY Sizes DEF IInv, Threads
<1>2. pc[c] = "pop.check" /\ (number < at + 1 \/ (~MultipleConsumers /\ number > at + 1))
    BY <1>1 DEF PopCheck, At, Goto, Difference, IInv, Typed
<1>3. at <= readPosition /\ (~MultipleConsumers => at = readPosition)
    BY <1>2 DEF IInv, ConsumerAt
<1>4. ASSUME ~MultipleConsumers PROVE number <= at + 1
  <2>1. \A d \in Consumers : pc[d] # "pop.advance"
      BY <1>2, <1>4 DEF IInv, Alone
  <2>2. QED
      BY <1>1, <1>3, <1>4, <2>1, Untaken
<1>5. at < readPosition => at < number
  <2>1. at < readPosition => at \in 0 .. readPosition - 1
      BY <1>1
  <2>2. QED
      BY <2>1 DEF IInv, Behind
<1>6. at = readPosition /\ number <= at
    BY <1>1, <1>2, <1>3, <1>4, <1>5
<1>7. readPosition \notin Ready
    BY <1>1, <1>6 DEF Ready
<1>8. QED
    BY <1>7 DEF Storage!HasItem, Ready

(* A push fails only while the ring is full and a pop only while its head  *)
(* is not published, whatever happened since they loaded their position.   *)
THEOREM FailuresAreTrue == Spec => FailuresAreReal
<1> DEFINE Real == /\ \A p \in Producers :
                        At(p, "push.check") /\ pc'[p] = "idle" => ~Storage!HasRoom
                   /\ \A c \in Consumers :
                        At(c, "pop.check") /\ pc'[c] = "idle" => ~Storage!HasItem
<1>1. IInv /\ [Next]_vars => [Real]_vars
    BY OwnCheck, FullIsFull, EmptyIsEmpty DEF At, Threads
<1>2. QED
    BY <1>1, Inductive, PTL DEF Spec, FailuresAreReal
=============================================================================
