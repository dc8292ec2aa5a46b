-------------------------- MODULE ObjectPool_proofs --------------------------
(***************************************************************************)
(* Proofs about ObjectPool for any capacity, threads and generations that  *)
(* handles tell apart: the free list stays intact, no slot is lost or has  *)
(* two owners, and a release destroys what its handle was given out for.   *)
(***************************************************************************)
EXTENDS ObjectPool, SequenceTheorems, TLAPS

Heads == [index : 0 .. Capacity, tag : Nat]
Handles == [index : Slots, gen : Nat]
Fields == {"pc", "seen", "last", "count", "want", "bulk", "first", "todo",
           "current", "calls"}

Once(s) == \A i, j \in 1 .. Len(s) : s[i] = s[j] => i = j

Shape ==
    /\ head \in Heads
    /\ link \in [Slots -> 0 .. Capacity] /\ gen \in [Slots -> Nat]
    /\ stack \in Seq(Slots) /\ hold \in [Threads -> Seq(Slots)]
    /\ abandoned \subseteq Slots /\ DOMAIN thread = Threads

(* A chain in a thread's hands is linked as it will be pushed. *)
Linked(chain) == \A i \in 2 .. Len(chain) : link[chain[i]] = chain[i - 1]
Chains == \A t \in Threads : Linked(hold[t])

(* As long as the head is the one a thread has seen, tag and all, its walk *)
(* has followed the free list: no change of the head leaves its tag.       *)
Walking(th) ==
    /\ th.seen \in Heads /\ th.seen.tag <= head.tag
    /\ th.count \in Nat \ {0} /\ th.last \in 0 .. Capacity
    /\ th.pc = "walk" => th.last \in Slots
    /\ th.seen = head =>
         /\ th.count <= Len(stack)
         /\ th.pc = "walk" => th.last = stack[Len(stack) - th.count + 1]
         /\ th.pc = "detach" => th.last = IF th.count = Len(stack) THEN Sentinel
                                          ELSE stack[Len(stack) - th.count]

(* The handles a thread is still to release are not from the future. *)
Releasing(th) ==
    /\ th.todo \in Seq(Handles) /\ th.todo # << >>
    /\ \A i \in 1 .. Len(th.todo) : th.todo[i].gen <= gen[th.todo[i].index]

(* What a thread knows at each place of its call. *)
Local(th, chain) ==
    /\ DOMAIN th = Fields
    /\ th.pc \in {"idle", "again", "walk", "detach"} => chain = << >>
    /\ th.pc \in {"walk", "detach"} => Walking(th)
    /\ th.pc \in {"construct", "push", "attach"} => chain # << >>
    /\ th.pc = "construct" => th.first = Top(chain)
    /\ th.pc \in {"check", "reclaim"} => Releasing(th)
    /\ th.pc = "reclaim" =>
         /\ th.current \in Nat /\ Matches(th.current, Head(th.todo))
         /\ Head(th.todo).gen <= th.current
    /\ th.pc = "attach" => link[chain[1]] = th.seen.index

Locals == \A t \in Threads : Local(thread[t], hold[t])

HandlesKnown == issued \subseteq Handles /\ \A h \in issued : h.gen <= gen[h.index]

IInv ==
    /\ Shape /\ FreeListIntact /\ SlotsAccountedFor /\ Chains /\ Locals
    /\ HandlesKnown /\ DestroysItsOwn
-----------------------------------------------------------------------------
(* Sequences of slots, and the sets of their elements.                     *)
LEMMA Basics ==
    /\ Capacity \in Nat \ {0} /\ Slots \subseteq Nat
    /\ \A s \in Slots : s < Capacity
    /\ \A s \in Seq(Slots) : /\ Len(s) \in Nat /\ \A i \in 1 .. Len(s) : s[i] \in Slots
                             /\ s # << >> => Len(s) > 0
                             /\ s = << >> => Len(s) = 0
BY PoolAssumption, LenProperties, ElementOfSeq, EmptySeq DEF Slots

LEMMA SplitChain ==
    ASSUME NEW s \in Seq(Slots), NEW n \in 0 .. Len(s)
    PROVE  LET low == SubSeq(s, 1, n)
               high == SubSeq(s, n + 1, Len(s)) IN
           /\ low \in Seq(Slots) /\ high \in Seq(Slots)
           /\ Len(low) = n /\ Len(high) = Len(s) - n
           /\ \A i \in 1 .. n : low[i] = s[i]
           /\ \A i \in 1 .. Len(s) - n : high[i] = s[n + i]
           /\ Elements(s) = Elements(low) \cup Elements(high)
           /\ Once(s) => /\ Once(low) /\ Once(high)
                         /\ Elements(low) \cap Elements(high) = {}
<1> DEFINE low == SubSeq(s, 1, n)
           high == SubSeq(s, n + 1, Len(s))
<1>1. /\ low \in Seq(Slots) /\ Len(low) = n
      /\ \A i \in 1 .. n : low[i] = s[i]
  <2>1. \A i \in 1 .. n : s[i] \in Slots
      BY Basics
  <2>2. QED
      BY <2>1, SubSeqProperties, Basics
<1>2. /\ high \in Seq(Slots) /\ Len(high) = Len(s) - n
      /\ \A i \in 1 .. Len(s) - n : high[i] = s[n + i]
  <2>1. \A i \in n + 1 .. Len(s) : s[i] \in Slots
      BY Basics
  <2>2. QED
      BY <2>1, SubSeqProperties, Basics
<1> HIDE DEF low, high
<1>3. Elements(s) = Elements(low) \cup Elements(high)
  <2>1. ASSUME NEW i \in 1 .. Len(s) PROVE s[i] \in Elements(low) \cup Elements(high)
    <3>1. CASE i <= n
        BY <1>1, <3>1, Basics DEF Elements
    <3>2. CASE i > n
      <4>1. i - n \in 1 .. Len(s) - n /\ s[i] = high[i - n]
          BY <1>2, <3>2, Basics
      <4>2. QED
          BY <1>2, <4>1 DEF Elements
    <3>3. QED
        BY <3>1, <3>2, Basics
  <2>2. \A i \in 1 .. n : i \in 1 .. Len(s) /\ low[i] = s[i]
      BY <1>1, Basics
  <2>3. \A i \in 1 .. Len(s) - n : n + i \in 1 .. Len(s) /\ high[i] = s[n + i]
      BY <1>2, Basics
  <2>4. Elements(low) \subseteq Elements(s) /\ Elements(high) \subseteq Elements(s)
    <3>1. Elements(low) \subseteq Elements(s)
        BY <1>1, <2>2 DEF Elements
    <3>2. ASSUME NEW i \in 1 .. Len(high) PROVE high[i] \in Elements(s)
        BY <1>2, <2>3 DEF Elements
    <3>3. QED
        BY <3>1, <3>2 DEF Elements
  <2>5. QED
      BY <2>1, <2>4 DEF Elements
<1>4. ASSUME Once(s)
      PROVE  Once(low) /\ Once(high) /\ Elements(low) \cap Elements(high) = {}
  <2>1. Once(low)
      BY <1>1, <1>4, Basics DEF Once
  <2>2. ASSUME NEW i \in 1 .. Len(s) - n, NEW j \in 1 .. Len(s) - n, high[i] = high[j]
        PROVE  i = j
    <3>1. n + i \in 1 .. Len(s) /\ n + j \in 1 .. Len(s) /\ s[n + i] = s[n + j]
        BY <1>2, <2>2, Basics
    <3>2. n + i = n + j
        BY <1>4, <3>1 DEF Once
    <3>3. QED
        BY <3>2, Basics
  <2>3. ASSUME NEW i \in 1 .. n, NEW j \in 1 .. Len(s) - n PROVE low[i] # high[j]
    <3>1. n + j \in 1 .. Len(s) /\ i \in 1 .. Len(s) /\ i # n + j
        BY Basics
    <3>2. QED
        BY <1>1, <1>2, <1>4, <3>1 DEF Once
  <2>4. QED
      BY <1>1, <1>2, <2>1, <2>2, <2>3 DEF Once, Elements
<1>5. QED
    BY <1>1, <1>2, <1>3, <1>4 DEF low, high

LEMMA JoinChains ==
    ASSUME NEW s \in Seq(Slots), NEW r \in Seq(Slots)
    PROVE  LET both == s \o r IN
           /\ both \in Seq(Slots) /\ Len(both) = Len(s) + Len(r)
           /\ \A i \in 1 .. Len(s) : both[i] = s[i]
           /\ \A i \in 1 .. Len(r) : both[Len(s) + i] = r[i]
           /\ Elements(both) = Elements(s) \cup Elements(r)
           /\ Once(s) /\ Once(r) /\ Elements(s) \cap Elements(r) = {} => Once(both)
<1> DEFINE both == s \o r
<1>1. /\ both \in Seq(Slots) /\ Len(both) = Len(s) + Len(r)
      /\ \A i \in 1 .. Len(s) : both[i] = s[i]
      /\ \A i \in 1 .. Len(r) : both[Len(s) + i] = r[i]
    BY ConcatProperties, Basics
<1> HIDE DEF both
<1>2. ASSUME NEW i \in 1 .. Len(both)
      PROVE  \/ i \in 1 .. Len(s) /\ both[i] = s[i]
             \/ i - Len(s) \in 1 .. Len(r) /\ both[i] = r[i - Len(s)]
  <2>1. CASE i <= Len(s)
      BY <1>1, <2>1, Basics
  <2>2. CASE i > Len(s)
    <3>1. i - Len(s) \in 1 .. Len(r) /\ Len(s) + (i - Len(s)) = i
        BY <1>1, <2>2, Basics
    <3>2. QED
        BY <1>1, <3>1
  <2>3. QED
      BY <1>1, <2>1, <2>2, Basics
<1>3. Elements(both) = Elements(s) \cup Elements(r)
  <2>1. Elements(both) \subseteq Elements(s) \cup Elements(r)
      BY <1>2 DEF Elements
  <2>2. Elements(s) \subseteq Elements(both)
      BY <1>1, Basics DEF Elements
  <2>3. ASSUME NEW i \in 1 .. Len(r) PROVE r[i] \in Elements(both)
    <3>1. Len(s) + i \in 1 .. Len(both)
        BY <1>1, Basics
    <3>2. QED
        BY <1>1, <3>1 DEF Elements
  <2>4. QED
      BY <2>1, <2>2, <2>3 DEF Elements
<1>4. ASSUME Once(s), Once(r), Elements(s) \cap Elements(r) = {}
      PROVE  Once(both)
  <2> SUFFICES ASSUME NEW i \in 1 .. Len(both), NEW j \in 1 .. Len(both), both[i] = both[j]
               PROVE  i = j
      BY DEF Once
  <2>1. CASE i \in 1 .. Len(s) /\ j \in 1 .. Len(s)
      BY <1>1, <1>4, <2>1 DEF Once
  <2>2. CASE i \notin 1 .. Len(s) /\ j \notin 1 .. Len(s)
    <3>1. /\ i - Len(s) \in 1 .. Len(r) /\ j - Len(s) \in 1 .. Len(r)
          /\ r[i - Len(s)] = r[j - Len(s)]
        BY <1>2, <2>2
    <3>2. i - Len(s) = j - Len(s)
        BY <1>4, <3>1 DEF Once
    <3>3. QED
        BY <1>1, <3>2, Basics
  <2>3. CASE ~(i \in 1 .. Len(s) <=> j \in 1 .. Len(s))
    <3>1. \A k \in 1 .. Len(both) :
             both[k] \in IF k \in 1 .. Len(s) THEN Elements(s) ELSE Elements(r)
        BY <1>1, <1>2 DEF Elements
    <3>2. QED
        BY <1>4, <2>3, <3>1
  <2>4. QED
      BY <2>1, <2>2, <2>3
<1>5. QED
    BY <1>1, <1>3, <1>4 DEF both

LEMMA OneLess ==
    ASSUME NEW n \in Nat \ {0}
    PROVE  (IF 1 <= n - 1 THEN n - 1 - 1 + 1 ELSE 0) = n - 1
OBVIOUS

(* The first slot of a chain. *)
LEMMA TopOfChain ==
    ASSUME NEW s \in Seq(Slots), s # << >>
    PROVE  /\ Top(s) \in Slots /\ Top(s) \in Elements(s)
           /\ Front(s) \in Seq(Slots) /\ Len(Front(s)) = Len(s) - 1
           /\ \A i \in 1 .. Len(s) - 1 : Front(s)[i] = s[i]
           /\ Elements(s) = Elements(Front(s)) \cup {Top(s)}
           /\ Once(s) => Once(Front(s)) /\ Top(s) \notin Elements(Front(s))
<1>1. Len(s) \in Nat \ {0}
    BY EmptySeq
<1>2. Top(s) \in Slots /\ Top(s) \in Elements(s)
    BY <1>1, Basics DEF Top, Elements
<1>3. /\ Front(s) \in Seq(Slots) /\ Len(Front(s)) = Len(s) - 1
      /\ \A i \in 1 .. Len(s) - 1 : Front(s)[i] = s[i]
  <2>1. Len(s) - 1 \in Int /\ \A i \in 1 .. Len(s) - 1 : s[i] \in Slots
      BY <1>1, Basics
  <2>2. /\ Front(s) \in Seq(Slots)
        /\ Len(Front(s)) = IF 1 <= Len(s) - 1 THEN Len(s) - 1 - 1 + 1 ELSE 0
        /\ \A i \in 1 .. Len(s) - 1 - 1 + 1 : Front(s)[i] = s[1 + i - 1]
      BY <2>1, SubSeqProperties DEF Front
  <2>3. \A i \in 1 .. Len(s) - 1 : i \in 1 .. Len(s) - 1 - 1 + 1 /\ 1 + i - 1 = i
      BY <1>1
  <2>4. Len(Front(s)) = Len(s) - 1
      BY <1>1, <2>2, OneLess
  <2>5. \A i \in 1 .. Len(s) - 1 : Front(s)[i] = s[1 + i - 1]
      BY <2>2, <2>3
  <2>6. QED
      BY <2>2, <2>3, <2>4, <2>5
<1>4. Elements(s) = Elements(Front(s)) \cup {Top(s)}
    BY <1>1, <1>3 DEF Elements, Top
<1>5. ASSUME Once(s) PROVE Once(Front(s)) /\ Top(s) \notin Elements(Front(s))
    BY <1>1, <1>3, <1>5 DEF Once, Elements, Top
<1>6. QED
    BY <1>2, <1>3, <1>4, <1>5

LEMMA Growing ==
    ASSUME NEW s \in Seq(Slots), NEW x \in Slots
    PROVE  /\ Append(s, x) \in Seq(Slots) /\ Len(Append(s, x)) = Len(s) + 1
           /\ Append(s, x) # << >> /\ Top(Append(s, x)) = x
           /\ \A i \in 1 .. Len(s) : Append(s, x)[i] = s[i]
           /\ Elements(Append(s, x)) = Elements(s) \cup {x}
           /\ Once(s) /\ x \notin Elements(s) => Once(Append(s, x))
<1>1. /\ Append(s, x) \in Seq(Slots) /\ Len(Append(s, x)) = Len(s) + 1
      /\ \A i \in 1 .. Len(s) : Append(s, x)[i] = s[i]
      /\ Append(s, x)[Len(s) + 1] = x /\ Len(s) \in Nat
    BY AppendProperties, Basics
<1>2. Append(s, x) # << >> /\ Top(Append(s, x)) = x
    BY <1>1, Basics DEF Top
<1>3. Elements(Append(s, x)) = Elements(s) \cup {x}
    BY <1>1 DEF Elements
<1>4. ASSUME Once(s), x \notin Elements(s) PROVE Once(Append(s, x))
    BY <1>1, <1>4 DEF Once, Elements
<1>5. QED
    BY <1>1, <1>2, <1>3, <1>4

LEMMA NoElements == << >> \in Seq(Slots) /\ Elements(<< >>) = {} /\ Once(<< >>) /\ Len(<< >>) = 0
BY EmptySeq DEF Elements, Once
-----------------------------------------------------------------------------
(* What a step of one thread leaves to the others.                         *)

(* A step of t changes no thread but t, counts the tag up when it changes  *)
(* the list, never counts a generation down and relinks nobody's chain.    *)
Gentle(t) ==
    /\ \A u \in Threads \ {t} : thread'[u] = thread[u] /\ hold'[u] = hold[u]
    /\ (head' = head /\ stack' = stack) \/ head.tag < head'.tag
    /\ \A s \in Slots : gen[s] <= gen'[s]
    /\ \A u \in Threads \ {t} : \A s \in Elements(hold[u]) : link'[s] = link[s]

(* Generations only grow: no handle comes to be from the future. *)
LEMMA StillKnown ==
    ASSUME IInv, Shape', \A s \in Slots : gen[s] <= gen'[s], NEW th, Releasing(th)
    PROVE  \A i \in 1 .. Len(th.todo) : th.todo[i].gen <= gen'[th.todo[i].index]
<1> SUFFICES ASSUME NEW i \in 1 .. Len(th.todo)
             PROVE  th.todo[i].gen <= gen'[th.todo[i].index]
    OBVIOUS
<1>1. th.todo[i] \in Handles
    BY ElementOfSeq DEF Releasing
<1>2. /\ th.todo[i].index \in Slots /\ th.todo[i].gen \in Nat
      /\ gen[th.todo[i].index] \in Nat /\ gen'[th.todo[i].index] \in Nat
    BY <1>1 DEF Handles, IInv, Shape, Slots
<1>3. th.todo[i].gen <= gen[th.todo[i].index]
    BY DEF Releasing
<1>4. gen[th.todo[i].index] <= gen'[th.todo[i].index]
    BY <1>2
<1>5. QED
    BY <1>2, <1>3, <1>4

LEMMA OthersKeep ==
    ASSUME IInv, NEW t \in Threads, Gentle(t), Shape', NEW u \in Threads \ {t}
    PROVE  Local(thread[u], hold[u])' /\ Linked(hold[u])'
<1> DEFINE th == thread[u]
           chain == hold[u]
<1>1. th' = th /\ chain' = chain
    BY DEF Gentle
<1>2. chain \in Seq(Slots) /\ Local(th, chain) /\ Linked(chain)
    BY DEF IInv, Shape, Locals, Chains
<1>3. \A i \in 1 .. Len(chain) : link'[chain[i]] = link[chain[i]]
    BY <1>2 DEF Gentle, Elements
<1> HIDE DEF th, chain
<1>4. Linked(chain)'
    BY <1>1, <1>2, <1>3, Basics DEF Linked
<1>5. ASSUME th.pc \in {"walk", "detach"} PROVE Walking(th)'
  <2>1. Walking(th)
      BY <1>2, <1>5 DEF Local
  <2>2. CASE head' = head /\ stack' = stack
      BY <1>1, <2>1, <2>2 DEF Walking, Heads, Slots
  <2>3. CASE head.tag < head'.tag
    <3>1. head.tag \in Nat /\ head'.tag \in Nat /\ th.seen.tag \in Nat
        BY <2>1 DEF IInv, Shape, Heads, Walking
    <3>2. th.seen.tag <= head.tag
        BY <2>1 DEF Walking
    <3>3. th.seen.tag <= head'.tag /\ th.seen # head'
        BY <2>3, <3>1, <3>2
    <3>4. QED
        BY <1>1, <2>1, <3>3 DEF Walking, Heads, Slots
  <2>4. QED
      BY <2>2, <2>3 DEF Gentle
<1>6. ASSUME th.pc \in {"check", "reclaim"} PROVE Releasing(th)'
  <2>1. Releasing(th)
      BY <1>2, <1>6 DEF Local
  <2>2. QED
      BY <1>1, <2>1, StillKnown DEF Gentle, Releasing, Handles, Slots
<1>7. ASSUME th.pc = "attach" PROVE link'[chain[1]] = th.seen.index
  <2>1. chain # << >> /\ link[chain[1]] = th.seen.index
      BY <1>2, <1>7 DEF Local
  <2>2. 1 \in 1 .. Len(chain)
      BY <1>2, <2>1, Basics
  <2>3. QED
      BY <1>3, <2>1, <2>2
<1>8. Local(th, chain)'
    BY <1>1, <1>2, <1>5, <1>6, <1>7 DEF Local, Top, Matches
<1>9. QED
    BY <1>4, <1>8 DEF th, chain

LEMMA HandlesStay ==
    ASSUME IInv, NEW t \in Threads, Gentle(t), Shape', issued' = issued
    PROVE  HandlesKnown'
<1> SUFFICES ASSUME NEW h \in issued PROVE h.gen <= gen'[h.index]
    BY DEF IInv, HandlesKnown, Handles, Slots
<1>1. h.index \in Slots /\ h.gen \in Nat /\ h.gen <= gen[h.index]
    BY DEF IInv, HandlesKnown, Handles
<1>2. gen[h.index] \in Nat /\ gen'[h.index] \in Nat /\ gen[h.index] <= gen'[h.index]
    BY <1>1 DEF IInv, Shape, Gentle
<1>3. QED
    BY <1>1, <1>2

(* The parts of the invariant that a step of t can disturb. *)
LEMMA Assemble ==
    ASSUME IInv, NEW t \in Threads, Gentle(t), Shape', FreeListIntact',
           SlotsAccountedFor', Local(thread[t], hold[t])', Linked(hold[t])',
           HandlesKnown', DestroysItsOwn'
    PROVE  IInv'
<1>1. Locals'
    BY OthersKeep DEF Locals
<1>2. Chains'
    BY OthersKeep DEF Chains
<1>3. QED
    BY <1>1, <1>2 DEF IInv

(* A step that moves only its own thread along. *)
LEMMA OnlyThread ==
    ASSUME IInv, NEW t \in Threads,
           thread' = [thread EXCEPT ![t] = thread'[t]],
           UNCHANGED <<poolVars, stack, hold, abandoned, issued, destroyed>>,
           Local(thread'[t], hold[t])
    PROVE  IInv'
<1>1. Shape'
    BY DEF IInv, Shape, poolVars, Heads, Slots
<1>2. Gentle(t)
  <2>1. \A s \in Slots : gen[s] \in Nat /\ gen'[s] = gen[s]
      BY DEF IInv, Shape, poolVars
  <2>2. QED
      BY <2>1 DEF Gentle, IInv, Shape, poolVars
<1>3. FreeListIntact'
    BY DEF IInv, FreeListIntact, poolVars, Top, Sentinel
<1>4. SlotsAccountedFor'
  <2>1. /\ gen' = gen /\ hold' = hold /\ abandoned' = abandoned
        /\ Elements(stack)' = Elements(stack) /\ \A s : InHand(s)' <=> InHand(s)
      BY DEF poolVars, InHand, Elements
  <2>2. \A u \in Threads : Elements(hold'[u]) = Elements(hold[u])
      BY <2>1
  <2>3. QED
      BY <2>1, <2>2 DEF IInv, SlotsAccountedFor, Slots
<1>5. Linked(hold[t])'
    BY DEF IInv, Chains, Linked, poolVars
<1>6. HandlesKnown'
    BY <1>1, <1>2, HandlesStay
<1>7. DestroysItsOwn'
    BY DEF IInv, DestroysItsOwn
<1>8. Local(thread[t], hold[t])'
    BY DEF poolVars, Local, Walking, Releasing, Heads, Handles, Slots, Sentinel, Top, Matches
<1>9. QED
    BY <1>1, <1>2, <1>3, <1>4, <1>5, <1>6, <1>7, <1>8, Assemble

(* The slots that are free, left behind or in the hands of t. *)
Mine(t) == Elements(stack) \cup Elements(hold[t]) \cup abandoned

(* A step of t keeps a slot where it is or within Mine, collects one that  *)
(* holds an object or puts an object into one of its own.                  *)
LEMMA Recount ==
    ASSUME IInv, NEW t \in Threads,
           \A u \in Threads \ {t} : hold'[u] = hold[u],
           Once(hold'[t]),
           Elements(hold'[t]) \cap (Elements(stack') \cup abandoned') = {},
           Elements(stack') \cap abandoned' = {},
           \A s \in Slots :
             \/ gen'[s] % 2 = gen[s] % 2 /\ (s \in Mine(t)' <=> s \in Mine(t))
             \/ gen[s] % 2 = 1 /\ gen'[s] % 2 = 0 /\ s \in Mine(t)'
             \/ s \in Elements(hold[t]) /\ gen'[s] % 2 = 1 /\ s \notin Mine(t)',
           Mine(t)' \subseteq Slots
    PROVE  SlotsAccountedFor'
<1> DEFINE Others(s) == \E u \in Threads \ {t} : s \in Elements(hold[u])
<1>1. \A s \in Slots : Others(s)' <=> Others(s)
    BY DEF Elements
<1>2. \A s \in Slots : /\ gen[s] % 2 = 0 <=> s \in Mine(t) \/ Others(s)
                       /\ ~(s \in Mine(t) /\ Others(s))
  <2>1. \A s \in Slots : gen[s] % 2 = 0 <=> s \in Mine(t) \/ Others(s)
      BY DEF IInv, SlotsAccountedFor, InHand, Mine
  <2>2. \A u \in Threads \ {t} : Elements(hold[u]) \cap Mine(t) = {}
      BY DEF IInv, SlotsAccountedFor, Mine
  <2>3. QED
      BY <2>1, <2>2
<1>3. \A s \in Slots : /\ gen'[s] % 2 = 0 <=> s \in Mine(t)' \/ Others(s)'
                       /\ ~(s \in Mine(t)' /\ Others(s)')
  <2> HIDE DEF Others
  <2> TAKE s \in Slots
  <2>1. CASE gen'[s] % 2 = gen[s] % 2 /\ (s \in Mine(t)' <=> s \in Mine(t))
      BY <1>1, <1>2, <2>1
  <2>2. CASE gen[s] % 2 = 1 /\ gen'[s] % 2 = 0 /\ s \in Mine(t)'
      BY <1>1, <1>2, <2>2
  <2>3. CASE s \in Elements(hold[t]) /\ gen'[s] % 2 = 1 /\ s \notin Mine(t)'
    <3>1. s \in Mine(t)
        BY <2>3 DEF Mine
    <3>2. QED
        BY <1>1, <1>2, <2>3, <3>1
  <2>4. QED
      BY <2>1, <2>2, <2>3
<1>4. \A s \in Slots : gen'[s] % 2 = 0 <=>
                         s \in Elements(stack') \/ InHand(s)' \/ s \in abandoned'
    BY <1>3 DEF InHand, Mine
<1>5. \A u \in Threads : Once(hold'[u])
    BY DEF IInv, SlotsAccountedFor, Once
<1>6. \A u \in Threads \ {t} : Elements(hold'[u]) \cap Mine(t)' = {}
    BY <1>3 
<1>7. \A u \in Threads : Elements(hold'[u]) \cap (Elements(stack') \cup abandoned') = {}
    BY <1>6 DEF Mine
<1>8. \A u, v \in Threads : u # v => Elements(hold'[u]) \cap Elements(hold'[v]) = {}
    BY <1>6 DEF IInv, SlotsAccountedFor, Mine
<1>9. QED
    BY <1>4, <1>5, <1>7, <1>8 DEF SlotsAccountedFor, Once, Elements
-----------------------------------------------------------------------------
(* The steps of a call that acquires.                                      *)

(* Where a walk of c slots is in a list of n, and the place above r slots. *)
LEMMA Places ==
    ASSUME NEW n \in Nat, NEW c \in Nat \ {0}, c <= n
    PROVE  /\ n - c + 1 \in 1 .. n
           /\ n - c + 1 = 1 <=> c = n
           /\ n - c + 1 - 1 = n - c
OBVIOUS

LEMMA Shifted ==
    ASSUME NEW n \in Nat, NEW c \in Nat \ {0}, NEW r \in 0 .. n, n - r = c
    PROVE  /\ c \in 1 .. c /\ r + c = n
           /\ \A i \in 2 .. c : /\ i \in 1 .. c /\ i - 1 \in 1 .. c
                                 /\ r + i \in 1 .. n /\ r + i # 1
                                 /\ (r + i) - 1 = r + (i - 1)
OBVIOUS

LEMMA LookLocal ==
    ASSUME IInv, NEW th, DOMAIN th = Fields
    PROVE  Local(Look(th), << >>)
<1>1. CASE head.index = Sentinel
  <2>1. Look(th) = Return(th) /\ DOMAIN Return(th) = Fields /\ Return(th).pc = "idle"
      BY <1>1 DEF Look, Return, Idle, Fields
  <2>2. QED
      BY <2>1 DEF Local
<1>2. CASE head.index # Sentinel
  <2> DEFINE new == Look(th)
  <2>1. /\ DOMAIN new = Fields /\ new.pc = "walk" /\ new.seen = head
        /\ new.last = head.index /\ new.count = 1
      BY <1>2 DEF Look, Fields
  <2>2. /\ stack # << >> /\ head.index = stack[Len(stack)]
      BY <1>2 DEF IInv, FreeListIntact, Top
  <2>3. Len(stack) > 0 /\ Len(stack) \in Nat
      BY <2>2, Basics DEF IInv, Shape
  <2>4. head \in Heads /\ head.tag \in Nat /\ head.index \in Slots
      BY <2>2, <2>3, Basics DEF IInv, Shape, Heads
  <2>5. head.index \in 0 .. Capacity
      BY <2>4 DEF Heads
  <2> HIDE DEF new
  <2>6. Walking(new)
      BY <2>1, <2>2, <2>3, <2>4, <2>5 DEF Walking
  <2>7. Local(new, << >>)
      BY <2>1, <2>6 DEF Local
  <2>8. QED
      BY <2>7 DEF new
<1>3. QED
    BY <1>1, <1>2

LEMMA AcquireStep ==
    ASSUME IInv, NEW t \in Threads, NEW size, NEW bulk, Acquire(t, size, bulk)
    PROVE  IInv'
<1> DEFINE th == [thread[t] EXCEPT !.calls = @ + 1, !.want = size, !.bulk = bulk]
<1>1. DOMAIN thread = Threads /\ DOMAIN thread[t] = Fields /\ hold[t] = << >>
    BY DEF IInv, Shape, Locals, Local, Acquire, At
<1>2. DOMAIN th = Fields
    BY <1>1 DEF Fields
<1>3. thread' = [thread EXCEPT ![t] = Look(th)]
    BY DEF Acquire
<1> HIDE DEF th
<1>4. thread'[t] = Look(th) /\ thread' = [thread EXCEPT ![t] = thread'[t]]
    BY <1>1, <1>3
<1>5. Local(thread'[t], hold[t])
    BY <1>1, <1>2, <1>4, LookLocal
<1>6. QED
    BY <1>4, <1>5, OnlyThread DEF Acquire

LEMMA AgainStep ==
    ASSUME IInv, NEW t \in Threads, Again(t)
    PROVE  IInv'
<1>1. DOMAIN thread = Threads /\ DOMAIN thread[t] = Fields /\ hold[t] = << >>
    BY DEF IInv, Shape, Locals, Local, Again, At
<1>2. thread'[t] = Look(thread[t]) /\ thread' = [thread EXCEPT ![t] = thread'[t]]
    BY <1>1 DEF Again
<1>3. QED
    BY <1>1, <1>2, LookLocal, OnlyThread DEF Again

(* A walk over a list that changed meanwhile may lead anywhere; its swap   *)
(* will fail.                                                              *)
LEMMA WalkStep ==
    ASSUME IInv, NEW t \in Threads, Walk(t)
    PROVE  IInv'
<1> DEFINE th == thread[t]
           next == link[th.last]
           new == thread'[t]
<1>1. DOMAIN thread = Threads /\ DOMAIN th = Fields /\ hold[t] = << >> /\ Walking(th)
      /\ th.pc = "walk"
    BY DEF IInv, Shape, Locals, Local, Walk, At
<1>2. /\ new = IF th.count < th.want /\ next # Sentinel
               THEN [th EXCEPT !.last = next, !.count = @ + 1]
               ELSE [th EXCEPT !.last = next, !.pc = "detach"]
      /\ thread' = [thread EXCEPT ![t] = new]
    BY <1>1 DEF Walk
<1>3. th.last \in Slots /\ next \in 0 .. Capacity
    BY <1>1 DEF Walking, IInv, Shape
<1>4. /\ th.seen \in Heads /\ th.seen.tag <= head.tag /\ th.count \in Nat \ {0}
      /\ th.seen = head => th.count <= Len(stack) /\ th.last = stack[Len(stack) - th.count + 1]
    BY <1>1 DEF Walking
<1>5. ASSUME th.seen = head
      PROVE  next = IF th.count = Len(stack) THEN Sentinel ELSE stack[Len(stack) - th.count]
  <2> DEFINE place == Len(stack) - th.count + 1
  <2>1. /\ place \in 1 .. Len(stack)
        /\ place = 1 <=> th.count = Len(stack)
        /\ place - 1 = Len(stack) - th.count /\ th.last = stack[place]
    <3>1. Len(stack) \in Nat
        BY Basics DEF IInv, Shape
    <3>2. QED
        BY <1>4, <1>5, <3>1, Places
  <2> HIDE DEF place
  <2>2. link[stack[place]] = IF place = 1 THEN Sentinel ELSE stack[place - 1]
      BY <2>1 DEF IInv, FreeListIntact
  <2>3. QED
      BY <2>1, <2>2
<1>6. Len(stack) \in Nat
    BY Basics DEF IInv, Shape
<1> HIDE DEF next, new
<1>7. ASSUME th.count < th.want /\ next # Sentinel PROVE Local(new, << >>)
  <2>1. /\ DOMAIN new = Fields /\ new.pc = "walk" /\ new.seen = th.seen
        /\ new.last = next /\ new.count = th.count + 1
      BY <1>1, <1>2, <1>7 DEF Fields
  <2>2. next \in Slots
      BY <1>3, <1>7, Basics DEF Slots, Sentinel
  <2>3. ASSUME th.seen = head
        PROVE  new.count <= Len(stack) /\ new.last = stack[Len(stack) - new.count + 1]
    <3>1. th.count # Len(stack) /\ next = stack[Len(stack) - th.count]
        BY <1>5, <1>7, <2>3
    <3>2. Len(stack) - (th.count + 1) + 1 = Len(stack) - th.count
        BY <1>4, <1>6
    <3>3. th.count + 1 <= Len(stack)
        BY <1>4, <1>6, <2>3, <3>1
    <3>4. QED
        BY <2>1, <3>1, <3>2, <3>3
  <2>4. Walking(new)
      BY <1>3, <1>4, <2>1, <2>2, <2>3 DEF Walking
  <2>5. QED
      BY <2>1, <2>4 DEF Local
<1>8. ASSUME ~(th.count < th.want /\ next # Sentinel) PROVE Local(new, << >>)
  <2>1. /\ DOMAIN new = Fields /\ new.pc = "detach" /\ new.seen = th.seen
        /\ new.last = next /\ new.count = th.count
      BY <1>1, <1>2, <1>8 DEF Fields
  <2>2. Walking(new)
      BY <1>3, <1>4, <1>5, <2>1 DEF Walking
  <2>3. QED
      BY <2>1, <2>2 DEF Local
<1>9. Local(new, hold[t])
    BY <1>1, <1>7, <1>8
<1>10. QED
    BY <1>2, <1>9, OnlyThread DEF Walk, new

(* A swap that succeeds takes a piece of the list as it is, because no     *)
(* change since the look at the head has left its tag.                     *)
LEMMA DetachStep ==
    ASSUME IInv, NEW t \in Threads, Detach(t)
    PROVE  IInv'
<1> DEFINE th == thread[t]
           rest == Len(stack) - th.count
           low == SubSeq(stack, 1, rest)
           high == SubSeq(stack, rest + 1, Len(stack))
<1>1. DOMAIN thread = Threads /\ DOMAIN th = Fields /\ hold[t] = << >> /\ Walking(th)
      /\ th.pc = "detach"
    BY DEF IInv, Shape, Locals, Local, Detach, At
<1>2. CASE head # th.seen
  <2>1. /\ thread' = [thread EXCEPT ![t] = Look(th)]
        /\ UNCHANGED <<poolVars, stack, hold, abandoned, issued, destroyed>>
      BY <1>2 DEF Detach, poolVars
  <2>2. thread'[t] = Look(th) /\ thread' = [thread EXCEPT ![t] = thread'[t]]
      BY <1>1, <2>1
  <2>3. QED
      BY <1>1, <2>1, <2>2, LookLocal, OnlyThread
<1>3. CASE head = th.seen
  <2>1. /\ th.count \in Nat \ {0} /\ th.count <= Len(stack) /\ th.last \in 0 .. Capacity
        /\ th.last = IF th.count = Len(stack) THEN Sentinel ELSE stack[Len(stack) - th.count]
      BY <1>1, <1>3 DEF Walking
  <2>2. stack \in Seq(Slots) /\ Once(stack) /\ head \in Heads /\ Len(stack) \in Nat
      BY Basics DEF IInv, Shape, FreeListIntact, Once
  <2>3. rest \in 0 .. Len(stack) /\ Len(stack) - rest = th.count
      BY <2>1, <2>2
  <2>4. /\ head' = Pack(th.last, head) /\ stack' = low
        /\ hold' = [hold EXCEPT ![t] = high]
        /\ thread' = [thread EXCEPT ![t] =
             [th EXCEPT !.pc = "construct", !.first = th.seen.index, !.want = @ - th.count]]
        /\ UNCHANGED <<link, gen, abandoned, issued, destroyed>>
      BY <1>3 DEF Detach
  <2> HIDE DEF rest
  <2>5. /\ low \in Seq(Slots) /\ high \in Seq(Slots) /\ Len(low) = rest
        /\ Len(high) = th.count
        /\ \A i \in 1 .. rest : low[i] = stack[i]
        /\ \A i \in 1 .. th.count : high[i] = stack[rest + i]
        /\ Elements(stack) = Elements(low) \cup Elements(high)
        /\ Once(low) /\ Once(high) /\ Elements(low) \cap Elements(high) = {}
      BY <2>2, <2>3, SplitChain
  <2> HIDE DEF low, high, th
  <2>6. /\ hold'[t] = high /\ \A u \in Threads \ {t} : hold'[u] = hold[u]
        /\ thread'[t] = [th EXCEPT !.pc = "construct", !.first = th.seen.index,
                                   !.want = @ - th.count]
        /\ \A u \in Threads \ {t} : thread'[u] = thread[u]
      BY <1>1, <2>4 DEF IInv, Shape
  <2>7. head' = [index |-> th.last, tag |-> head.tag + 1] /\ head.tag \in Nat
      BY <2>2, <2>4 DEF Pack, Heads
  <2>8. Shape'
      BY <1>1, <2>1, <2>4, <2>5, <2>7 DEF IInv, Shape, Heads, Slots
  <2>9. Gentle(t)
    <3>1. \A s \in Slots : gen[s] \in Nat /\ gen'[s] = gen[s]
        BY <2>4 DEF IInv, Shape
    <3>2. QED
        BY <2>4, <2>6, <2>7, <3>1 DEF Gentle
  <2>10. high # << >> /\ (low = << >> <=> rest = 0)
      BY <2>1, <2>3, <2>5, Basics, NoElements
  <2>11. FreeListIntact'
    <3>1. th.last = IF low = << >> THEN Sentinel ELSE Top(low)
        BY <2>1, <2>2, <2>3, <2>5, <2>10 DEF Top, rest
    <3>2. \A i \in 1 .. Len(low) : link[low[i]] = IF i = 1 THEN Sentinel ELSE low[i - 1]
      <4>1. \A i \in 1 .. rest : i \in 1 .. Len(stack) /\ (i # 1 => i - 1 \in 1 .. rest)
          BY <2>2, <2>3
      <4>2. QED
          BY <2>5, <4>1 DEF IInv, FreeListIntact
    <3>3. QED
        BY <2>4, <2>5, <2>7, <3>1, <3>2 DEF FreeListIntact, Once, Sentinel, Top
  <2>12. SlotsAccountedFor'
    <3>1. Mine(t)' = Mine(t)
        BY <1>1, <2>4, <2>5, <2>6, NoElements DEF Mine
    <3>2. Elements(high) \cap (Elements(low) \cup abandoned) = {}
          /\ Elements(low) \cap abandoned = {}
        BY <2>5 DEF IInv, SlotsAccountedFor
    <3>3. Mine(t) \subseteq Slots
        BY <1>1, <2>2, Basics DEF Mine, Elements, IInv, Shape
    <3>4. QED
        BY <2>4, <2>5, <2>6, <3>1, <3>2, <3>3, Recount
  <2>13. Linked(hold[t])'
    <3>1. \A i \in 2 .. th.count :
             /\ i \in 1 .. th.count /\ i - 1 \in 1 .. th.count
             /\ rest + i \in 1 .. Len(stack) /\ rest + i # 1
             /\ (rest + i) - 1 = rest + (i - 1)
        BY <2>1, <2>2, <2>3, Shifted
    <3>2. ASSUME NEW i \in 2 .. Len(high) PROVE link[high[i]] = high[i - 1]
      <4>1. /\ i \in 1 .. th.count /\ i - 1 \in 1 .. th.count
            /\ rest + i \in 1 .. Len(stack) /\ rest + i # 1
            /\ (rest + i) - 1 = rest + (i - 1)
          BY <2>5, <3>1
      <4>2. link[stack[rest + i]] = stack[(rest + i) - 1]
          BY <4>1 DEF IInv, FreeListIntact
      <4>3. QED
          BY <2>5, <4>1, <4>2
    <3>3. QED
        BY <2>4, <2>6, <3>2 DEF Linked
  <2>14. Local(thread[t], hold[t])'
    <3>1. /\ DOMAIN thread'[t] = Fields /\ thread'[t].pc = "construct"
          /\ thread'[t].first = th.seen.index
        BY <1>1, <2>6 DEF Fields, th
    <3>2. th.seen.index = Top(high)
      <4>1. stack # << >> /\ head.index = stack[Len(stack)]
          BY <2>1, <2>2, Basics DEF IInv, FreeListIntact, Top
      <4>2. th.count \in 1 .. th.count /\ rest + th.count = Len(stack)
          BY <2>1, <2>2, <2>3, Shifted
      <4>3. QED
          BY <1>3, <2>5, <4>1, <4>2 DEF Top, th
    <3>3. QED
        BY <2>6, <2>10, <3>1, <3>2 DEF Local, Top
  <2>15. HandlesKnown'
      BY <2>4, <2>8, <2>9, HandlesStay
  <2>16. DestroysItsOwn'
      BY <2>4 DEF IInv, DestroysItsOwn
  <2>17. QED
      BY <2>8, <2>9, <2>11, <2>12, <2>13, <2>14, <2>15, <2>16, Assemble
<1>4. QED
    BY <1>2, <1>3

(* Two generations further on, or one: odd becomes even and even odd. *)
LEMMA Parity ==
    ASSUME NEW g \in Nat
    PROVE  /\ g + 1 \in Nat /\ g <= g + 1 /\ g % 2 \in {0, 1}
           /\ g % 2 = 0 => (g + 1) % 2 = 1
           /\ g % 2 = 1 => (g + 1) % 2 = 0
OBVIOUS

(* An object is put into the first slot of the chain, and what is left is  *)
(* a chain still.                                                          *)
LEMMA ConstructStep ==
    ASSUME IInv, NEW t \in Threads, Construct(t)
    PROVE  IInv'
<1> DEFINE th == thread[t]
           s == th.first
           chain == hold[t]
           left == Front(hold[t])
<1>1. /\ DOMAIN thread = Threads /\ DOMAIN th = Fields /\ chain # << >>
      /\ th.pc = "construct" /\ s = Top(chain) /\ chain \in Seq(Slots)
    BY DEF IInv, Shape, Locals, Local, Construct, At
<1>2. Once(chain)
    BY DEF IInv, SlotsAccountedFor, Once
<1>3. /\ s \in Slots /\ s \in Elements(chain)
      /\ left \in Seq(Slots) /\ Len(left) = Len(chain) - 1
      /\ \A i \in 1 .. Len(chain) - 1 : left[i] = chain[i]
      /\ Elements(chain) = Elements(left) \cup {s}
      /\ Once(left) /\ s \notin Elements(left)
      /\ Len(chain) \in Nat /\ Len(chain) > 0
    BY <1>1, <1>2, TopOfChain, Basics
<1>4. /\ gen[s] \in Nat /\ gen[s] % 2 = 0
      /\ gen[s] + 1 \in Nat /\ gen[s] <= gen[s] + 1 /\ (gen[s] + 1) % 2 = 1
  <2>1. gen[s] \in Nat
      BY <1>3 DEF IInv, Shape
  <2>2. gen[s] % 2 = 0
      BY <1>3 DEF IInv, SlotsAccountedFor, InHand
  <2>3. QED
      BY <2>1, <2>2, Parity
<1>5. /\ gen' = [gen EXCEPT ![s] = gen[s] + 1]
      /\ issued' = issued \cup {Handle(s, gen[s] + 1)}
      /\ hold' = [hold EXCEPT ![t] = left]
      /\ thread' = [thread EXCEPT ![t] =
           IF Len(chain) > 1 THEN [th EXCEPT !.first = link[s]]
           ELSE IF th.want > 0 THEN [th EXCEPT !.pc = "again"] ELSE Return(th)]
      /\ UNCHANGED <<head, link, stack, abandoned, destroyed>>
    BY DEF Construct
<1>6. /\ hold'[t] = left /\ \A u \in Threads \ {t} : hold'[u] = hold[u]
      /\ thread'[t] = IF Len(chain) > 1 THEN [th EXCEPT !.first = link[s]]
                      ELSE IF th.want > 0 THEN [th EXCEPT !.pc = "again"] ELSE Return(th)
      /\ \A u \in Threads \ {t} : thread'[u] = thread[u]
      /\ gen'[s] = gen[s] + 1 /\ \A r \in Slots \ {s} : gen'[r] = gen[r]
    BY <1>1, <1>3, <1>5 DEF IInv, Shape
<1>7. Linked(chain)
    BY DEF IInv, Chains
<1> HIDE DEF th, s, chain, left
<1>8. Shape'
  <2>1. DOMAIN thread' = Threads
      BY <1>1, <1>5
  <2>2. gen' \in [Slots -> Nat] /\ hold' \in [Threads -> Seq(Slots)]
      BY <1>3, <1>4, <1>5 DEF IInv, Shape
  <2>3. QED
      BY <1>5, <2>1, <2>2 DEF IInv, Shape, Heads, Slots
<1>9. Gentle(t)
  <2>1. \A r \in Slots : gen[r] \in Nat /\ gen[r] <= gen'[r]
    <3>1. \A r \in Slots : gen[r] \in Nat /\ gen[r] <= gen[r]
        BY DEF IInv, Shape
    <3>2. QED
        BY <1>4, <1>6, <3>1
  <2>2. QED
      BY <1>5, <1>6, <2>1 DEF Gentle
<1>10. FreeListIntact'
    BY <1>5 DEF IInv, FreeListIntact, Sentinel, Top
<1>11. SlotsAccountedFor'
  <2>1. Elements(chain) \cap (Elements(stack) \cup abandoned) = {}
        /\ Elements(stack) \cap abandoned = {}
      BY DEF IInv, SlotsAccountedFor, chain
  <2>2. Mine(t)' = Mine(t) \ {s}
      BY <1>3, <1>5, <1>6, <2>1 DEF Mine, chain
  <2>3. Mine(t) \subseteq Slots
      BY <1>1, Basics DEF Mine, Elements, IInv, Shape, chain
  <2>4. \A r \in Slots :
           \/ gen'[r] % 2 = gen[r] % 2 /\ (r \in Mine(t)' <=> r \in Mine(t))
           \/ r \in Elements(chain) /\ gen'[r] % 2 = 1 /\ r \notin Mine(t)'
      BY <1>3, <1>4, <1>6, <2>2
  <2>5. Elements(hold'[t]) \cap (Elements(stack') \cup abandoned') = {}
        /\ Elements(stack') \cap abandoned' = {}
      BY <1>3, <1>5, <1>6, <2>1
  <2>6. Once(hold'[t])
      BY <1>3, <1>6
  <2>7. QED
      BY <1>6, <2>2, <2>3, <2>4, <2>5, <2>6, Recount DEF chain
<1>12. Linked(hold[t])'
  <2>1. \A i \in 2 .. Len(left) : /\ i \in 1 .. Len(chain) - 1 /\ i - 1 \in 1 .. Len(chain) - 1
                                   /\ i \in 2 .. Len(chain)
      BY <1>3
  <2>2. \A i \in 2 .. Len(left) : link'[left[i]] = left[i - 1]
      BY <1>3, <1>5, <1>7, <2>1 DEF Linked
  <2>3. QED
      BY <1>6, <2>2 DEF Linked
<1>13. Local(thread[t], hold[t])'
  <2>1. CASE Len(chain) > 1
    <3>1. DOMAIN thread'[t] = Fields /\ thread'[t].pc = "construct"
          /\ thread'[t].first = link[s]
        BY <1>1, <1>6, <2>1 DEF Fields
    <3>2. left # << >> /\ Len(left) \in 1 .. Len(chain) - 1 /\ Len(chain) \in 2 .. Len(chain)
        BY <1>3, <2>1, NoElements
    <3>3. link[s] = Top(left)
        BY <1>1, <1>3, <1>7, <3>2 DEF Linked, Top
    <3>4. QED
        BY <1>6, <3>1, <3>2, <3>3 DEF Local, Top
  <2>2. CASE ~(Len(chain) > 1)
    <3>1. DOMAIN thread'[t] = Fields /\ thread'[t].pc \in {"again", "idle"}
        BY <1>1, <1>6, <2>2 DEF Fields, Return, Idle
    <3>2. left = << >>
        BY <1>3, <2>2, Basics
    <3>3. QED
        BY <1>6, <3>1, <3>2 DEF Local
  <2>3. QED
      BY <2>1, <2>2
<1>14. HandlesKnown'
  <2>1. Handle(s, gen[s] + 1) \in Handles /\ Handle(s, gen[s] + 1).index = s
        /\ Handle(s, gen[s] + 1).gen = gen[s] + 1
      BY <1>3, <1>4 DEF Handle, Handles
  <2>2. ASSUME NEW h \in issued PROVE h \in Handles /\ h.gen <= gen'[h.index]
    <3>1. h \in Handles /\ h.gen <= gen[h.index]
        BY DEF IInv, HandlesKnown
    <3>2. h.index \in Slots /\ h.gen \in Nat /\ gen[h.index] \in Nat
          /\ gen'[h.index] \in Nat /\ gen[h.index] <= gen'[h.index]
        BY <1>8, <1>9, <3>1 DEF Handles, IInv, Shape, Gentle, Slots
    <3>3. QED
        BY <3>1, <3>2
  <2>3. gen[s] + 1 <= gen'[s]
      BY <1>4, <1>6
  <2>4. QED
      BY <1>5, <2>1, <2>2, <2>3 DEF HandlesKnown, Handles, Slots
<1>15. DestroysItsOwn'
    BY <1>5 DEF IInv, DestroysItsOwn
<1>16. QED
    BY <1>8, <1>9, <1>10, <1>11, <1>12, <1>13, <1>14, <1>15, Assemble

(* The slot goes back to the list, or the whole chain is left behind. *)
LEMMA ThrowStep ==
    ASSUME IInv, NEW t \in Threads, ConstructThrows(t)
    PROVE  IInv'
<1> DEFINE th == thread[t]
<1>1. /\ DOMAIN thread = Threads /\ DOMAIN th = Fields /\ hold[t] # << >>
      /\ th.pc = "construct" /\ hold[t] \in Seq(Slots)
    BY DEF IInv, Shape, Locals, Local, ConstructThrows, At
<1>2. CASE ~th.bulk
  <2>1. /\ thread' = [thread EXCEPT ![t] = [th EXCEPT !.pc = "push"]]
        /\ UNCHANGED <<poolVars, stack, hold, abandoned, issued, destroyed>>
      BY <1>2 DEF ConstructThrows
  <2>2. /\ thread' = [thread EXCEPT ![t] = thread'[t]]
        /\ DOMAIN thread'[t] = Fields /\ thread'[t].pc = "push"
      BY <1>1, <2>1 DEF Fields
  <2>3. Local(thread'[t], hold[t])
      BY <1>1, <2>2 DEF Local
  <2>4. QED
      BY <2>1, <2>2, <2>3, OnlyThread
<1>3. CASE th.bulk
  <2>1. /\ abandoned' = abandoned \cup Elements(hold[t])
        /\ hold' = [hold EXCEPT ![t] = << >>]
        /\ thread' = [thread EXCEPT ![t] = Return(th)]
        /\ UNCHANGED <<head, link, gen, stack, issued, destroyed>>
      BY <1>3 DEF ConstructThrows, poolVars
  <2>2. /\ hold'[t] = << >> /\ \A u \in Threads \ {t} : hold'[u] = hold[u]
        /\ thread'[t] = Return(th) /\ \A u \in Threads \ {t} : thread'[u] = thread[u]
      BY <1>1, <2>1 DEF IInv, Shape
  <2>3. Elements(hold[t]) \subseteq Slots
      BY <1>1, Basics DEF Elements
  <2>4. Shape'
      BY <1>1, <2>1, <2>3, NoElements DEF IInv, Shape, Heads, Slots
  <2>5. Gentle(t)
    <3>1. \A r \in Slots : gen[r] \in Nat /\ gen'[r] = gen[r]
        BY <2>1 DEF IInv, Shape
    <3>2. QED
        BY <2>1, <2>2, <3>1 DEF Gentle
  <2>6. FreeListIntact'
      BY <2>1 DEF IInv, FreeListIntact, Sentinel, Top
  <2>7. SlotsAccountedFor'
    <3>1. Mine(t)' = Mine(t)
        BY <2>1, <2>2, NoElements DEF Mine
    <3>2. Mine(t) \subseteq Slots
        BY <2>3, Basics DEF Mine, Elements, IInv, Shape
    <3>3. Elements(hold'[t]) = {} /\ Once(hold'[t])
        BY <2>2, NoElements
    <3>4. Elements(stack') \cap abandoned' = {}
        BY <2>1 DEF IInv, SlotsAccountedFor
    <3>5. QED
        BY <2>1, <2>2, <3>1, <3>2, <3>3, <3>4, Recount
  <2>8. Linked(hold[t])'
      BY <2>2, NoElements DEF Linked
  <2>9. Local(thread[t], hold[t])'
    <3>1. DOMAIN thread'[t] = Fields /\ thread'[t].pc = "idle"
        BY <2>2 DEF Return, Idle, Fields
    <3>2. QED
        BY <2>2, <3>1 DEF Local
  <2>10. HandlesKnown'
      BY <2>1, <2>4, <2>5, HandlesStay
  <2>11. DestroysItsOwn'
      BY <2>1 DEF IInv, DestroysItsOwn
  <2>12. QED
      BY <2>4, <2>5, <2>6, <2>7, <2>8, <2>9, <2>10, <2>11, Assemble
<1>4. QED
    BY <1>2, <1>3
-----------------------------------------------------------------------------
(* The steps of a call that releases.                                      *)

(* The next handle, or the push of what was collected, or the end.         *)
LEMMA PassLocal ==
    ASSUME IInv, NEW th, DOMAIN th = Fields, th.pc \in {"check", "reclaim"}, Releasing(th),
           NEW chain, NEW collected, collected = << >> <=> chain = << >>
    PROVE  /\ Local(Pass(th, collected), chain)
           /\ Pass(th, collected).pc \in {"check", "push", "idle"}
<1> DEFINE new == Pass(th, collected)
<1>1. th.todo \in Seq(Handles) /\ th.todo # << >>
      /\ \A i \in 1 .. Len(th.todo) : th.todo[i].gen <= gen[th.todo[i].index]
    BY DEF Releasing
<1>2. CASE Len(th.todo) > 1
  <2>1. DOMAIN new = Fields /\ new.pc = "check" /\ new.todo = Tail(th.todo)
      BY <1>2 DEF Pass, Fields
  <2>2. /\ Tail(th.todo) \in Seq(Handles) /\ Len(th.todo) \in Nat
        /\ Len(Tail(th.todo)) = Len(th.todo) - 1
        /\ \A i \in 1 .. Len(th.todo) - 1 : Tail(th.todo)[i] = th.todo[i + 1]
      BY <1>1, HeadTailProperties, LenProperties
  <2>3. \A i \in 1 .. Len(th.todo) - 1 : i + 1 \in 1 .. Len(th.todo)
      BY <2>2
  <2>4. Tail(th.todo) # << >>
    <3> DEFINE rest == Tail(th.todo)
               n == Len(th.todo)
    <3>1. Len(rest) = n - 1 /\ n \in Nat /\ n > 1
        BY <1>2, <2>2
    <3> HIDE DEF rest, n
    <3>2. Len(rest) # 0
        BY <3>1
    <3>3. rest # << >>
        BY <3>2, NoElements
    <3>4. QED
        BY <3>3 DEF rest
  <2>5. Releasing(new)
      BY <1>1, <2>1, <2>2, <2>3, <2>4 DEF Releasing
  <2> HIDE DEF new
  <2>6. Local(new, chain)
      BY <2>1, <2>5 DEF Local
  <2>7. QED
      BY <2>1, <2>6 DEF new
<1>3. CASE ~(Len(th.todo) > 1) /\ collected = << >>
  <2>1. DOMAIN new = Fields /\ new.pc = "idle"
      BY <1>3 DEF Pass, Return, Idle, Fields
  <2>2. QED
      BY <1>3, <2>1 DEF Local
<1>4. CASE ~(Len(th.todo) > 1) /\ collected # << >>
  <2>1. DOMAIN new = Fields /\ new.pc = "push"
      BY <1>4 DEF Pass, Fields
  <2>2. QED
      BY <1>4, <2>1 DEF Local
<1>5. QED
    BY <1>2, <1>3, <1>4

LEMMA FirstHandle ==
    ASSUME IInv, NEW th, Releasing(th)
    PROVE  LET h == Head(th.todo) IN
           /\ h \in Handles /\ h.index \in Slots /\ h.gen \in Nat
           /\ gen[h.index] \in Nat /\ h.gen <= gen[h.index]
<1>1. /\ th.todo \in Seq(Handles) /\ th.todo # << >>
      /\ \A i \in 1 .. Len(th.todo) : th.todo[i].gen <= gen[th.todo[i].index]
    BY DEF Releasing
<1>2. Head(th.todo) = th.todo[1] /\ 1 \in 1 .. Len(th.todo) /\ Head(th.todo) \in Handles
    BY <1>1, EmptySeq, LenProperties, ElementOfSeq, HeadTailProperties
<1>3. Head(th.todo).index \in Slots /\ Head(th.todo).gen \in Nat
    BY <1>2 DEF Handles
<1>4. gen[Head(th.todo).index] \in Nat
    BY <1>3 DEF IInv, Shape
<1>5. QED
    BY <1>1, <1>2, <1>3, <1>4

LEMMA JudgeLocal ==
    ASSUME IInv, NEW t \in Threads, thread[t].pc \in {"check", "reclaim"}
    PROVE  Local(Judge(t), hold[t])
<1> DEFINE th == thread[t]
           h == Head(th.todo)
           new == [th EXCEPT !.pc = "reclaim", !.current = gen[h.index]]
<1>1. DOMAIN th = Fields /\ Releasing(th)
    BY DEF IInv, Locals, Local
<1>2. CASE Matches(gen[h.index], h)
  <2>1. Judge(t) = new
      BY <1>2 DEF Judge
  <2>2. DOMAIN new = Fields /\ new.pc = "reclaim" /\ new.current = gen[h.index]
        /\ new.todo = th.todo
      BY <1>1 DEF Fields
  <2>3. gen[h.index] \in Nat /\ h.gen <= gen[h.index]
      BY <1>1, FirstHandle
  <2> HIDE DEF th, new
  <2>4. Releasing(new)
      BY <1>1, <2>2 DEF Releasing
  <2>5. Local(new, hold[t])
      BY <1>2, <2>2, <2>3, <2>4 DEF Local
  <2>6. QED
      BY <2>1, <2>5
<1>3. CASE ~Matches(gen[h.index], h)
  <2>1. Judge(t) = Pass(th, hold[t])
      BY <1>3 DEF Judge
  <2>2. QED
      BY <1>1, <2>1, PassLocal
<1>4. QED
    BY <1>2, <1>3

LEMMA ReleaseStep ==
    ASSUME IInv, NEW t \in Threads, NEW handles \in Lists(issued), Release(t, handles)
    PROVE  IInv'
<1> DEFINE th == [thread[t] EXCEPT !.calls = thread[t].calls + 1, !.pc = "check",
                                   !.todo = handles]
<1>1. DOMAIN thread = Threads /\ DOMAIN thread[t] = Fields
    BY DEF IInv, Shape, Locals, Local
<1>2. PICK n \in 1 .. MaxBulk : handles \in [1 .. n -> issued]
    BY DEF Lists
<1>3. handles \in Seq(Handles) /\ Len(handles) = n /\ handles # << >>
      /\ \A i \in 1 .. n : handles[i] \in issued
  <2>1. n \in Nat /\ n > 0 /\ issued \subseteq Handles
      BY PoolAssumption DEF IInv, HandlesKnown
  <2>2. handles \in [1 .. n -> Handles] /\ \A i \in 1 .. n : handles[i] \in issued
      BY <1>2, <2>1
  <2>3. handles \in Seq(Handles)
      BY <2>1, <2>2, SeqDef
  <2>4. Len(handles) = n
      BY <2>1, <2>2, <2>3, LenProperties
  <2>5. QED
      BY <2>1, <2>2, <2>3, <2>4, EmptySeq
<1>4. /\ DOMAIN th = Fields /\ th.pc = "check" /\ th.todo = handles
      /\ thread' = [thread EXCEPT ![t] = th]
    BY <1>1 DEF Release, Fields
<1> HIDE DEF th
<1>5. Releasing(th)
    BY <1>3, <1>4 DEF Releasing, IInv, HandlesKnown
<1>6. Local(th, hold[t])
    BY <1>4, <1>5 DEF Local
<1>7. thread'[t] = th /\ thread' = [thread EXCEPT ![t] = thread'[t]]
    BY <1>1, <1>4
<1>8. QED
    BY <1>6, <1>7, OnlyThread DEF Release

LEMMA CheckStep ==
    ASSUME IInv, NEW t \in Threads, Check(t)
    PROVE  IInv'
<1>1. thread'[t] = Judge(t) /\ thread' = [thread EXCEPT ![t] = thread'[t]]
    BY DEF Check, IInv, Shape
<1>2. Local(thread'[t], hold[t])
    BY <1>1, JudgeLocal DEF Check, At
<1>3. QED
    BY <1>1, <1>2, OnlyThread DEF Check

(* What agrees in the bits of a handle is the same or a whole round away.  *)
LEMMA Divided ==
    ASSUME NEW a \in Nat, NEW n \in Nat \ {0}
    PROVE  a = n * (a \div n) + (a % n) /\ a \div n \in Int /\ (a % n) \in Int
<1>1. a = n * (a \div n) + (a % n)
    OBVIOUS
<1>2. a \div n \in Int /\ (a % n) \in Int
    OBVIOUS
<1>3. QED
    BY <1>1, <1>2

LEMMA RoundAway ==
    ASSUME NEW n \in Nat \ {0}, NEW p \in Int, NEW q \in Int, q < p
    PROVE  n * p - n * q >= n
<1>1. n * p - n * q = n * (p - q)
    OBVIOUS
<1>2. n * (p - q) >= n
    OBVIOUS
<1>3. QED
    BY <1>1, <1>2

LEMMA SameBits ==
    ASSUME NEW a \in Nat, NEW b \in Nat, NEW n \in Nat \ {0}, b <= a, a % n = b % n
    PROVE  a = b \/ a - b >= n
<1> DEFINE p == a \div n
           q == b \div n
           r == a % n
           x == n * p
           y == n * q
<1>1. a = x + r /\ b = y + r /\ p \in Int /\ q \in Int /\ r \in Int
    BY Divided
<1> HIDE DEF p, q, r
<1>2. x \in Int /\ y \in Int
    BY <1>1
<1>3. CASE q < p
  <2>1. x - y >= n
      BY <1>1, <1>3, RoundAway
  <2> HIDE DEF x, y
  <2>2. QED
      BY <1>1, <1>2, <2>1
<1>4. CASE p < q
  <2>1. y - x >= n
      BY <1>1, <1>4, RoundAway
  <2> HIDE DEF x, y
  <2>2. QED
      BY <1>1, <1>2, <2>1
<1>5. CASE p = q
    BY <1>1, <1>5
<1>6. QED
    BY <1>1, <1>3, <1>4, <1>5

(* A release that is won: while the generation is the odd one that matched *)
(* the slot is nobody's but its object's.                                  *)
LEMMA CollectStep ==
    ASSUME IInv, NEW t \in Threads, Reclaim(t),
           gen[Head(thread[t].todo).index] = thread[t].current
    PROVE  IInv'
<1> DEFINE th == thread[t]
           h == Head(th.todo)
           s == h.index
           chain == hold[t]
           collected == Append(chain, s)
<1>1. /\ DOMAIN thread = Threads /\ DOMAIN th = Fields /\ chain \in Seq(Slots)
      /\ Releasing(th) /\ th.current \in Nat /\ Matches(th.current, h)
      /\ h.gen <= th.current /\ th.pc = "reclaim"
    BY DEF IInv, Shape, Locals, Local, Reclaim, At
<1>2. h \in Handles /\ s \in Slots /\ h.gen \in Nat /\ gen[s] = th.current
    BY <1>1, FirstHandle
<1>3. th.current % 2 = 1 /\ th.current % HandleGens = h.gen % HandleGens
    BY <1>1 DEF Matches
<1>4. th.current + 1 \in Nat /\ th.current <= th.current + 1 /\ (th.current + 1) % 2 = 0
    BY <1>1, <1>3, Parity
<1>5. s \notin Elements(stack) /\ s \notin abandoned /\ \A u \in Threads : s \notin Elements(hold[u])
  <2>1. ~(gen[s] % 2 = 0)
      BY <1>2, <1>3
  <2>2. QED
      BY <1>2, <2>1 DEF IInv, SlotsAccountedFor, InHand
<1>6. /\ gen' = [gen EXCEPT ![s] = th.current + 1]
      /\ link' = IF chain = << >> THEN link ELSE [link EXCEPT ![s] = Top(chain)]
      /\ hold' = [hold EXCEPT ![t] = collected]
      /\ destroyed' = destroyed \cup {[handle |-> h, at |-> th.current]}
      /\ thread' = [thread EXCEPT ![t] = Pass(th, collected)]
      /\ UNCHANGED <<head, stack, abandoned, issued>>
    BY DEF Reclaim, Collect
<1>7. Once(chain) /\ Linked(chain) /\ \A u \in Threads : hold[u] \in Seq(Slots)
    BY DEF IInv, SlotsAccountedFor, Once, Chains, Shape
<1>8. /\ collected \in Seq(Slots) /\ Len(collected) = Len(chain) + 1
      /\ collected # << >> /\ Top(collected) = s
      /\ \A i \in 1 .. Len(chain) : collected[i] = chain[i]
      /\ Elements(collected) = Elements(chain) \cup {s}
      /\ Once(collected)
    BY <1>1, <1>2, <1>5, <1>7, Growing
<1>9. \A r \in Slots \ {s} : link'[r] = link[r] /\ gen'[r] = gen[r]
    BY <1>6
<1>10. /\ gen'[s] = th.current + 1 /\ hold'[t] = collected
       /\ \A u \in Threads \ {t} : hold'[u] = hold[u] /\ thread'[u] = thread[u]
       /\ thread'[t] = Pass(th, collected)
    BY <1>1, <1>2, <1>6 DEF IInv, Shape
<1> HIDE DEF th, h, s, chain, collected
<1>11. Shape'
  <2>1. chain # << >> => Top(chain) \in 0 .. Capacity
      BY <1>1, TopOfChain, Basics DEF Slots
  <2>2. link' \in [Slots -> 0 .. Capacity]
      BY <1>2, <1>6, <2>1 DEF IInv, Shape
  <2>3. gen' \in [Slots -> Nat] /\ hold' \in [Threads -> Seq(Slots)] /\ DOMAIN thread' = Threads
      BY <1>1, <1>2, <1>4, <1>6, <1>8 DEF IInv, Shape
  <2>4. QED
      BY <1>6, <2>2, <2>3 DEF IInv, Shape, Heads, Slots
<1>12. Gentle(t)
  <2>1. \A r \in Slots : gen[r] <= gen'[r]
    <3>1. \A r \in Slots : gen[r] \in Nat /\ gen[r] <= gen[r]
        BY DEF IInv, Shape
    <3>2. QED
        BY <1>2, <1>4, <1>9, <1>10, <3>1
  <2>2. \A u \in Threads \ {t} : \A r \in Elements(hold[u]) : r \in Slots \ {s}
      BY <1>5, <1>7, Basics DEF Elements
  <2>3. QED
      BY <1>6, <1>9, <1>10, <2>1, <2>2 DEF Gentle
<1>13. FreeListIntact'
  <2>1. \A i \in 1 .. Len(stack) : stack[i] \in Slots \ {s}
      BY <1>5, Basics DEF Elements, IInv, Shape
  <2>2. \A i \in 1 .. Len(stack) : link'[stack[i]] = link[stack[i]]
      BY <1>9, <2>1
  <2>3. QED
      BY <1>6, <2>2 DEF IInv, FreeListIntact, Sentinel, Top
<1>14. SlotsAccountedFor'
  <2>1. Elements(chain) \cap (Elements(stack) \cup abandoned) = {}
        /\ Elements(stack) \cap abandoned = {}
      BY DEF IInv, SlotsAccountedFor, chain
  <2>2. Mine(t)' = Mine(t) \cup {s}
      BY <1>6, <1>8, <1>10 DEF Mine, chain
  <2>3. Mine(t) \subseteq Slots
      BY <1>1, Basics DEF Mine, Elements, IInv, Shape, chain
  <2>4. \A r \in Slots :
           \/ gen'[r] % 2 = gen[r] % 2 /\ (r \in Mine(t)' <=> r \in Mine(t))
           \/ gen[r] % 2 = 1 /\ gen'[r] % 2 = 0 /\ r \in Mine(t)'
      BY <1>2, <1>3, <1>4, <1>9, <1>10, <2>2
  <2>5. Elements(hold'[t]) \cap (Elements(stack') \cup abandoned') = {}
        /\ Elements(stack') \cap abandoned' = {}
      BY <1>5, <1>6, <1>8, <1>10, <2>1
  <2>6. Once(hold'[t]) /\ Mine(t)' \subseteq Slots
      BY <1>2, <1>8, <1>10, <2>2, <2>3
  <2>7. QED
      BY <1>10, <2>4, <2>5, <2>6, Recount
<1>15. Linked(hold[t])'
  <2>1. Len(chain) \in Nat /\ (chain = << >> <=> Len(chain) = 0)
      BY <1>1, Basics
  <2>2. \A i \in 1 .. Len(chain) : chain[i] \in Slots \ {s}
      BY <1>1, <1>5, Basics DEF Elements, chain
  <2>3. ASSUME NEW i \in 2 .. Len(chain) PROVE link'[collected[i]] = collected[i - 1]
    <3>1. i \in 1 .. Len(chain) /\ i - 1 \in 1 .. Len(chain)
        BY <2>1
    <3>2. QED
        BY <1>7, <1>8, <1>9, <2>2, <3>1 DEF Linked
  <2>4. Len(chain) > 0 => link'[collected[Len(chain) + 1]] = collected[Len(chain)]
    <3>1. collected[Len(chain) + 1] = s
        BY <1>8 DEF Top
    <3>2. ASSUME Len(chain) > 0 PROVE link'[s] = chain[Len(chain)]
        BY <1>2, <1>6, <2>1, <3>2 DEF IInv, Shape, Top
    <3>3. Len(chain) > 0 => collected[Len(chain)] = chain[Len(chain)]
        BY <1>8, <2>1
    <3>4. QED
        BY <3>1, <3>2, <3>3
  <2>5. \A i \in 2 .. Len(chain) + 1 :
           i \in 2 .. Len(chain) \/ (i = Len(chain) + 1 /\ i - 1 = Len(chain) /\ Len(chain) > 0)
      BY <2>1
  <2>6. \A i \in 2 .. Len(chain) + 1 : link'[collected[i]] = collected[i - 1]
      BY <2>3, <2>4, <2>5
  <2>7. QED
      BY <1>8, <1>10, <2>6 DEF Linked
<1>16. Local(thread[t], hold[t])'
  <2> DEFINE new == Pass(th, collected)
  <2>1. Local(new, collected) /\ new.pc \in {"check", "push", "idle"}
      BY <1>1, <1>8, PassLocal
  <2> HIDE DEF new
  <2>2. ASSUME new.pc = "check"
        PROVE  /\ Releasing(new)
               /\ \A i \in 1 .. Len(new.todo) : new.todo[i].gen <= gen'[new.todo[i].index]
    <3>1. Releasing(new)
        BY <2>1, <2>2 DEF Local
    <3>2. QED
        BY <1>11, <1>12, <3>1, StillKnown DEF Gentle
  <2>3. thread'[t] = new
      BY <1>10 DEF new
  <2>4. thread'[t].pc = "check" => Releasing(thread[t])'
      BY <2>2, <2>3 DEF Releasing, Handles, Slots
  <2>5. QED
      BY <1>10, <2>1, <2>3, <2>4 DEF Local
<1>17. HandlesKnown'
    BY <1>6, <1>11, <1>12, HandlesStay
<1>18. DestroysItsOwn'
  <2>1. th.current = h.gen \/ th.current - h.gen >= HandleGens
      BY <1>1, <1>2, <1>3, PoolAssumption, SameBits
  <2>2. QED
      BY <1>6, <2>1 DEF IInv, DestroysItsOwn
<1>19. QED
    BY <1>11, <1>12, <1>13, <1>14, <1>15, <1>16, <1>17, <1>18, Assemble

LEMMA ReclaimStep ==
    ASSUME IInv, NEW t \in Threads, Reclaim(t)
    PROVE  IInv'
<1>1. CASE gen[Head(thread[t].todo).index] = thread[t].current
    BY <1>1, CollectStep
<1>2. CASE gen[Head(thread[t].todo).index] # thread[t].current
  <2>1. /\ thread' = [thread EXCEPT ![t] = Judge(t)] /\ thread[t].pc = "reclaim"
        /\ UNCHANGED <<poolVars, stack, hold, abandoned, issued, destroyed>>
      BY <1>2 DEF Reclaim, At, poolVars
  <2>2. thread'[t] = Judge(t) /\ thread' = [thread EXCEPT ![t] = thread'[t]]
      BY <2>1 DEF IInv, Shape
  <2>3. Local(thread'[t], hold[t])
      BY <2>1, <2>2, JudgeLocal
  <2>4. QED
      BY <2>1, <2>2, <2>3, OnlyThread
<1>3. QED
    BY <1>1, <1>2

(* The last slot of the chain is linked to the head just seen: no other    *)
(* chain and no free slot has that link.                                   *)
LEMMA LinkStep ==
    ASSUME IInv, NEW t \in Threads, thread[t].pc \in {"push", "attach"}, LinkLast(t),
           UNCHANGED <<head, gen, stack, hold, abandoned, issued, destroyed>>
    PROVE  IInv'
<1> DEFINE th == thread[t]
           chain == hold[t]
           s == hold[t][1]
<1>1. /\ DOMAIN thread = Threads /\ DOMAIN th = Fields /\ chain \in Seq(Slots)
      /\ chain # << >> /\ Once(chain) /\ Linked(chain)
      /\ \A u \in Threads : hold[u] \in Seq(Slots)
    BY DEF IInv, Shape, Locals, Local, SlotsAccountedFor, Once, Chains
<1>2. Len(chain) \in Nat /\ Len(chain) > 0
    BY <1>1, Basics
<1>3. 1 \in 1 .. Len(chain) /\ s \in Slots /\ s \in Elements(chain)
    BY <1>1, <1>2, Basics DEF Elements
<1>4. s \notin Elements(stack) /\ \A u \in Threads \ {t} : s \notin Elements(hold[u])
    BY <1>3 DEF IInv, SlotsAccountedFor
<1>5. /\ link' = [link EXCEPT ![s] = head.index]
      /\ thread' = [thread EXCEPT ![t] = [th EXCEPT !.pc = "attach", !.seen = head]]
    BY <1>1 DEF LinkLast, Fields
<1>6. /\ link'[s] = head.index /\ \A r \in Slots \ {s} : link'[r] = link[r]
      /\ \A u \in Threads \ {t} : thread'[u] = thread[u]
      /\ DOMAIN thread'[t] = Fields /\ thread'[t].pc = "attach" /\ thread'[t].seen = head
    BY <1>1, <1>3, <1>5 DEF IInv, Shape, Fields
<1> HIDE DEF th, chain, s
<1>7. Shape'
    BY <1>1, <1>3, <1>5 DEF IInv, Shape, Heads, Slots
<1>8. Gentle(t)
  <2>1. \A r \in Slots : gen[r] \in Nat /\ gen'[r] = gen[r]
      BY DEF IInv, Shape
  <2>2. \A u \in Threads \ {t} : \A r \in Elements(hold[u]) : r \in Slots \ {s}
      BY <1>1, <1>4, Basics DEF Elements
  <2>3. QED
      BY <1>6, <2>1, <2>2 DEF Gentle
<1>9. FreeListIntact'
  <2>1. \A i \in 1 .. Len(stack) : stack[i] \in Slots \ {s}
      BY <1>4, Basics DEF Elements, IInv, Shape
  <2>2. \A i \in 1 .. Len(stack) : link'[stack[i]] = link[stack[i]]
      BY <1>6, <2>1
  <2>3. QED
      BY <2>2 DEF IInv, FreeListIntact, Sentinel, Top
<1>10. SlotsAccountedFor'
  <2>1. Mine(t)' = Mine(t)
      BY DEF Mine, Elements
  <2>2. Mine(t) \subseteq Slots
      BY <1>1, Basics DEF Mine, Elements, IInv, Shape
  <2>3. /\ Once(hold'[t]) /\ Elements(stack') \cap abandoned' = {}
        /\ Elements(hold'[t]) \cap (Elements(stack') \cup abandoned') = {}
      BY DEF IInv, SlotsAccountedFor, Once
  <2>4. QED
      BY <2>1, <2>2, <2>3, Recount
<1>11. Linked(hold[t])'
  <2>1. ASSUME NEW i \in 2 .. Len(chain) PROVE link'[chain[i]] = chain[i - 1]
    <3>1. i \in 1 .. Len(chain) /\ i # 1
        BY <1>2
    <3>2. chain[i] \in Slots \ {s}
        BY <1>1, <1>3, <3>1, Basics DEF Once, chain, s
    <3>3. QED
        BY <1>1, <1>6, <3>2 DEF Linked
  <2>2. QED
      BY <2>1 DEF Linked, chain
<1>12. Local(thread[t], hold[t])'
    BY <1>1, <1>6 DEF Local, chain, s
<1>13. HandlesKnown'
    BY <1>7, <1>8, HandlesStay
<1>14. DestroysItsOwn'
    BY DEF IInv, DestroysItsOwn
<1>15. QED
    BY <1>7, <1>8, <1>9, <1>10, <1>11, <1>12, <1>13, <1>14, Assemble

LEMMA PushStep ==
    ASSUME IInv, NEW t \in Threads, Push(t)
    PROVE  IInv'
BY LinkStep DEF Push, At

(* The chain joins the list at once, its last slot linked to the head. *)
LEMMA AttachStep ==
    ASSUME IInv, NEW t \in Threads, Attach(t)
    PROVE  IInv'
<1> DEFINE th == thread[t]
           chain == hold[t]
           both == stack \o hold[t]
<1>1. CASE head # th.seen
    BY <1>1, LinkStep DEF Attach, At
<1>2. CASE head = th.seen
  <2>1. /\ DOMAIN thread = Threads /\ DOMAIN th = Fields /\ chain \in Seq(Slots)
        /\ chain # << >> /\ link[chain[1]] = th.seen.index
        /\ stack \in Seq(Slots) /\ head \in Heads
      BY DEF IInv, Shape, Locals, Local, Attach, At
  <2>2. /\ Once(chain) /\ Linked(chain) /\ Once(stack)
        /\ Elements(stack) \cap Elements(chain) = {}
      BY DEF IInv, SlotsAccountedFor, FreeListIntact, Once, Chains
  <2>3. /\ head' = Pack(Top(chain), head) /\ stack' = both
        /\ hold' = [hold EXCEPT ![t] = << >>]
        /\ thread' = [thread EXCEPT ![t] = Return(th)]
        /\ UNCHANGED <<link, gen, abandoned, issued, destroyed>>
      BY <1>2 DEF Attach
  <2>4. /\ both \in Seq(Slots) /\ Len(both) = Len(stack) + Len(chain)
        /\ \A i \in 1 .. Len(stack) : both[i] = stack[i]
        /\ \A i \in 1 .. Len(chain) : both[Len(stack) + i] = chain[i]
        /\ Elements(both) = Elements(stack) \cup Elements(chain)
        /\ Once(both)
      BY <2>1, <2>2, JoinChains
  <2>5. /\ hold'[t] = << >> /\ thread'[t] = Return(th)
        /\ \A u \in Threads \ {t} : hold'[u] = hold[u] /\ thread'[u] = thread[u]
      BY <2>1, <2>3 DEF IInv, Shape
  <2> HIDE DEF both, chain, th
  <2>6. Top(chain) \in Slots /\ Len(chain) \in Nat /\ Len(chain) > 0 /\ Len(stack) \in Nat
      BY <2>1, TopOfChain, Basics
  <2>7. head' = [index |-> Top(chain), tag |-> head.tag + 1] /\ head.tag \in Nat
      BY <2>1, <2>3 DEF Pack, Heads
  <2>8. Shape'
    <3>1. Top(chain) \in 0 .. Capacity
        BY <2>6, Basics DEF Slots
    <3>2. head' \in Heads /\ hold' \in [Threads -> Seq(Slots)] /\ DOMAIN thread' = Threads
        BY <2>1, <2>3, <2>7, <3>1, NoElements DEF Heads, IInv, Shape
    <3>3. QED
        BY <2>3, <2>4, <3>2 DEF IInv, Shape, Heads, Slots
  <2>9. Gentle(t)
    <3>1. \A r \in Slots : gen[r] \in Nat /\ gen'[r] = gen[r]
        BY <2>3 DEF IInv, Shape
    <3>2. QED
        BY <2>3, <2>5, <2>7, <3>1 DEF Gentle
  <2>10. FreeListIntact'
    <3>1. both # << >> /\ Top(both) = Top(chain)
      <4>1. Len(both) # 0 /\ Len(chain) \in 1 .. Len(chain)
          BY <2>4, <2>6
      <4>2. both # << >>
          BY <4>1, NoElements
      <4>3. QED
          BY <2>4, <4>1, <4>2 DEF Top
    <3>2. ASSUME NEW i \in 1 .. Len(stack)
          PROVE  link[both[i]] = IF i = 1 THEN Sentinel ELSE both[i - 1]
      <4>1. i # 1 => i - 1 \in 1 .. Len(stack)
          BY <2>6
      <4>2. QED
          BY <2>4, <4>1 DEF IInv, FreeListIntact
    <3>3. ASSUME NEW i \in 2 .. Len(chain)
          PROVE  link[both[Len(stack) + i]] = both[Len(stack) + i - 1]
      <4>1. i \in 1 .. Len(chain) /\ i - 1 \in 1 .. Len(chain)
            /\ Len(stack) + (i - 1) = Len(stack) + i - 1
          BY <2>6
      <4>2. both[Len(stack) + i] = chain[i] /\ both[Len(stack) + i - 1] = chain[i - 1]
          BY <2>4, <4>1
      <4>3. QED
          BY <2>2, <4>2 DEF Linked
    <3>4. link[both[Len(stack) + 1]] = IF Len(stack) = 0 THEN Sentinel ELSE both[Len(stack)]
      <4>1. 1 \in 1 .. Len(chain) /\ (Len(stack) # 0 => Len(stack) \in 1 .. Len(stack))
          BY <2>6
      <4>2. link[both[Len(stack) + 1]] = head.index
          BY <1>2, <2>1, <2>4, <4>1
      <4>3. head.index = IF Len(stack) = 0 THEN Sentinel ELSE stack[Len(stack)]
          BY <2>1, Basics DEF IInv, FreeListIntact, Top
      <4>4. QED
          BY <2>4, <4>1, <4>2, <4>3
    <3>5. ASSUME NEW i \in 1 .. Len(both)
          PROVE  link[both[i]] = IF i = 1 THEN Sentinel ELSE both[i - 1]
      <4>1. CASE i <= Len(stack)
        <5>1. i \in 1 .. Len(stack)
            BY <2>6, <4>1
        <5>2. QED
            BY <3>2, <5>1
      <4>2. CASE i = Len(stack) + 1
        <5>1. (i = 1 <=> Len(stack) = 0) /\ i - 1 = Len(stack)
            BY <2>6, <4>2
        <5>2. QED
            BY <3>4, <4>2, <5>1
      <4>3. CASE i > Len(stack) + 1
        <5> DEFINE j == i - Len(stack)
        <5>1. j \in 2 .. Len(chain) /\ Len(stack) + j = i /\ i # 1
            BY <2>4, <2>6, <4>3
        <5> HIDE DEF j
        <5>2. QED
            BY <3>3, <5>1
      <4>4. QED
          BY <2>4, <2>6, <4>1, <4>2, <4>3
    <3>6. QED
        BY <2>3, <2>4, <2>7, <3>1, <3>5 DEF FreeListIntact, Once, Sentinel, Top
  <2>11. SlotsAccountedFor'
    <3>1. Mine(t)' = Mine(t)
        BY <2>3, <2>4, <2>5, NoElements DEF Mine, chain
    <3>2. Mine(t) \subseteq Slots
        BY <2>1, Basics DEF Mine, Elements, IInv, Shape, chain
    <3>3. Once(hold'[t]) /\ Elements(hold'[t]) = {}
        BY <2>5, NoElements
    <3>4. Elements(stack') \cap abandoned' = {}
        BY <2>3, <2>4 DEF IInv, SlotsAccountedFor, chain
    <3>5. QED
        BY <2>3, <2>5, <3>1, <3>2, <3>3, <3>4, Recount
  <2>12. Linked(hold[t])'
      BY <2>5, NoElements DEF Linked
  <2>13. Local(thread[t], hold[t])'
    <3>1. DOMAIN thread'[t] = Fields /\ thread'[t].pc = "idle"
        BY <2>5 DEF Return, Idle, Fields
    <3>2. QED
        BY <2>5, <3>1 DEF Local
  <2>14. HandlesKnown'
      BY <2>3, <2>8, <2>9, HandlesStay
  <2>15. DestroysItsOwn'
      BY <2>3 DEF IInv, DestroysItsOwn
  <2>16. QED
      BY <2>8, <2>9, <2>10, <2>11, <2>12, <2>13, <2>14, <2>15, Assemble
<1>3. QED
    BY <1>1, <1>2
-----------------------------------------------------------------------------
(* The pool as it is made, and as Clear leaves it.                         *)
LEMMA WholeList ==
    LET whole == [i \in 1 .. Capacity |-> Capacity - i] IN
    /\ whole \in Seq(Slots) /\ Len(whole) = Capacity /\ whole # << >> /\ Top(whole) = 0
    /\ Elements(whole) = Slots /\ Once(whole)
    /\ \A i \in 1 .. Capacity : whole[i] \in Slots
         /\ whole[i] + 1 = IF i = 1 THEN Sentinel ELSE whole[i - 1]
<1> DEFINE whole == [i \in 1 .. Capacity |-> Capacity - i]
<1>1. Capacity \in Nat /\ Capacity > 0
    BY PoolAssumption
<1>2. \A i \in 1 .. Capacity : /\ whole[i] = Capacity - i /\ Capacity - i \in Slots
                               /\ i # 1 => i - 1 \in 1 .. Capacity
    BY <1>1 DEF Slots
<1>3. whole \in [1 .. Capacity -> Slots]
    BY <1>2
<1>4. whole \in Seq(Slots) /\ DOMAIN whole = 1 .. Capacity
    BY <1>1, <1>3, SeqDef
<1> HIDE DEF whole
<1>5. Len(whole) = Capacity
    BY <1>1, <1>4, LenProperties
<1>6. Top(whole) = 0 /\ whole # << >>
    BY <1>1, <1>2, <1>5, NoElements DEF Top
<1>7. Elements(whole) = Slots
  <2>1. \A s \in Slots : Capacity - s \in 1 .. Capacity /\ whole[Capacity - s] = s
      BY <1>1, <1>2 DEF Slots
  <2>2. QED
      BY <1>2, <1>5, <2>1 DEF Elements
<1>8. Once(whole)
    BY <1>1, <1>2, <1>5 DEF Once
<1>9. \A i \in 1 .. Capacity : whole[i] + 1 = IF i = 1 THEN Sentinel ELSE whole[i - 1]
    BY <1>1, <1>2 DEF Sentinel
<1>10. QED
    BY <1>2, <1>4, <1>5, <1>6, <1>7, <1>8, <1>9 DEF whole

LEMMA WholeLinks ==
    LET next == [s \in Slots |-> s + 1] IN
    /\ next \in [Slots -> 0 .. Capacity] /\ \A s \in Slots : next[s] = s + 1
BY PoolAssumption DEF Slots

LEMMA Rounding ==
    ASSUME NEW g \in Nat
    PROVE  g + (g % 2) \in Nat /\ g <= g + (g % 2) /\ (g + (g % 2)) % 2 = 0
<1>1. g % 2 \in {0, 1}
    BY Parity
<1>2. CASE g % 2 = 0
    BY <1>2
<1>3. CASE g % 2 = 1
    BY <1>3, Parity
<1>4. QED
    BY <1>1, <1>2, <1>3

LEMMA ClearStep ==
    ASSUME IInv, NEW t \in Threads, Clear(t)
    PROVE  IInv'
<1>1. /\ \A u \in Threads : thread[u].pc = "idle" /\ hold[u] = << >>
      /\ DOMAIN thread = Threads /\ DOMAIN thread[t] = Fields /\ head \in Heads
    BY DEF Clear, At, IInv, Shape, Locals, Local
<1>2. /\ thread' = [thread EXCEPT ![t].calls = @ + 1]
      /\ gen' = [s \in Slots |-> gen[s] + (gen[s] % 2)]
      /\ link' = [s \in Slots |-> s + 1]
      /\ head' = Pack(0, head)
      /\ stack' = [i \in 1 .. Capacity |-> Capacity - i]
      /\ abandoned' = {}
      /\ UNCHANGED <<hold, issued, destroyed>>
    BY DEF Clear
<1>3. /\ \A u \in Threads \ {t} : thread'[u] = thread[u] /\ hold'[u] = hold[u]
      /\ DOMAIN thread' = Threads /\ DOMAIN thread'[t] = Fields /\ thread'[t].pc = "idle"
    BY <1>1, <1>2 DEF Fields
<1>4. \A s \in Slots : gen'[s] \in Nat /\ gen[s] <= gen'[s] /\ gen'[s] % 2 = 0
  <2> TAKE s \in Slots
  <2>1. gen[s] \in Nat /\ gen'[s] = gen[s] + (gen[s] % 2)
      BY <1>2 DEF IInv, Shape
  <2>2. QED
      BY <2>1, Rounding
<1>5. head' = [index |-> 0, tag |-> head.tag + 1] /\ head.tag \in Nat
    BY <1>1, <1>2 DEF Pack, Heads
<1>6. /\ stack' \in Seq(Slots) /\ Len(stack') = Capacity /\ stack' # << >> /\ Top(stack') = 0
      /\ Elements(stack') = Slots /\ Once(stack')
      /\ \A i \in 1 .. Capacity : stack'[i] \in Slots
           /\ stack'[i] + 1 = IF i = 1 THEN Sentinel ELSE stack'[i - 1]
    BY <1>2, WholeList
<1>7. link' \in [Slots -> 0 .. Capacity] /\ \A s \in Slots : link'[s] = s + 1
    BY <1>2, WholeLinks
<1>8. Shape'
  <2>1. head' \in Heads
      BY <1>5, PoolAssumption DEF Heads
  <2>2. gen' \in [Slots -> Nat]
      BY <1>2, <1>4
  <2>3. QED
      BY <1>2, <1>3, <1>6, <1>7, <2>1, <2>2 DEF IInv, Shape, Heads, Slots
<1>9. Gentle(t)
    BY <1>1, <1>3, <1>4, <1>5, NoElements DEF Gentle
<1>10. FreeListIntact'
    BY <1>5, <1>6, <1>7 DEF FreeListIntact, Once, Sentinel, Top
<1>11. SlotsAccountedFor'
  <2>1. \A u \in Threads : hold'[u] = << >>
      BY <1>1, <1>2
  <2>2. \A u \in Threads : Elements(hold'[u]) = {} /\ Once(hold'[u])
      BY <2>1, NoElements
  <2>3. QED
      BY <1>2, <1>4, <1>6, <2>2 DEF SlotsAccountedFor, Once, Slots
<1>12. Linked(hold[t])'
    BY <1>1, <1>2, NoElements DEF Linked
<1>13. Local(thread[t], hold[t])'
    BY <1>1, <1>2, <1>3 DEF Local
<1>14. HandlesKnown'
    BY <1>2, <1>8, <1>9, HandlesStay
<1>15. DestroysItsOwn'
    BY <1>2 DEF IInv, DestroysItsOwn
<1>16. QED
    BY <1>8, <1>9, <1>10, <1>11, <1>12, <1>13, <1>14, <1>15, Assemble

LEMMA InitIInv == Init => IInv
<1> SUFFICES ASSUME Init PROVE IInv
    OBVIOUS
<1>1. /\ stack \in Seq(Slots) /\ Len(stack) = Capacity /\ stack # << >> /\ Top(stack) = 0
      /\ Elements(stack) = Slots /\ Once(stack)
      /\ \A i \in 1 .. Capacity : stack[i] \in Slots
           /\ stack[i] + 1 = IF i = 1 THEN Sentinel ELSE stack[i - 1]
    BY WholeList DEF Init
<1>2. link \in [Slots -> 0 .. Capacity] /\ \A s \in Slots : link[s] = s + 1
    BY WholeLinks DEF Init
<1>3. head = [index |-> 0, tag |-> 1] /\ \A s \in Slots : gen[s] = 0
    BY DEF Init
<1>4. \A t \in Threads : /\ hold[t] = << >> /\ Elements(hold[t]) = {} /\ Once(hold[t])
                         /\ DOMAIN thread[t] = Fields /\ thread[t].pc = "idle"
    BY NoElements DEF Init, Idle, Fields
<1>5. Shape
  <2>1. head \in Heads
      BY <1>3, PoolAssumption DEF Heads
  <2>2. QED
      BY <1>1, <1>2, <2>1, NoElements DEF Init, Shape
<1>6. FreeListIntact
    BY <1>1, <1>2, <1>3 DEF FreeListIntact, Once
<1>7. SlotsAccountedFor
  <2>1. abandoned = {} /\ \A s \in Slots : gen[s] % 2 = 0
      BY <1>3 DEF Init
  <2>2. QED
      BY <1>1, <1>4, <2>1 DEF SlotsAccountedFor, Once
<1>8. Chains /\ Locals
    BY <1>4, NoElements DEF Chains, Linked, Locals, Local
<1>9. HandlesKnown /\ DestroysItsOwn
    BY DEF Init, HandlesKnown, DestroysItsOwn
<1>10. QED
    BY <1>5, <1>6, <1>7, <1>8, <1>9 DEF IInv

LEMMA NextIInv == IInv /\ [Next]_vars => IInv'
<1> SUFFICES ASSUME IInv, [Next]_vars PROVE IInv'
    OBVIOUS
<1>1. ASSUME NEW t \in Threads, Acquire(t, 1, FALSE) PROVE IInv'
    BY <1>1, AcquireStep
<1>2. ASSUME NEW t \in Threads, NEW size \in 1 .. MaxBulk, Acquire(t, size, TRUE)
      PROVE  IInv'
    BY <1>2, AcquireStep
<1>3. ASSUME NEW t \in Threads, NEW handles \in Lists(issued), Release(t, handles)
      PROVE  IInv'
    BY <1>3, ReleaseStep
<1>4. ASSUME NEW t \in Threads, Clear(t) PROVE IInv'
    BY <1>4, ClearStep
<1>5. ASSUME NEW t \in Threads, Step(t) PROVE IInv'
    BY <1>5, WalkStep, DetachStep, ConstructStep, AgainStep, ThrowStep, CheckStep,
       ReclaimStep, PushStep, AttachStep DEF Step
<1>6. CASE UNCHANGED vars
  <2>1. Shape' /\ FreeListIntact' /\ Chains' /\ HandlesKnown' /\ DestroysItsOwn'
      BY <1>6 DEF IInv, Shape, FreeListIntact, Chains, Linked, HandlesKnown, DestroysItsOwn,
                  Heads, Handles, Slots, Sentinel, Top, vars, poolVars
  <2>2. SlotsAccountedFor'
    <3>1. /\ gen' = gen /\ hold' = hold /\ abandoned' = abandoned
          /\ Elements(stack)' = Elements(stack) /\ \A s : InHand(s)' <=> InHand(s)
        BY <1>6 DEF vars, poolVars, InHand, Elements
    <3>2. \A u \in Threads : Elements(hold'[u]) = Elements(hold[u])
        BY <3>1
    <3>3. QED
        BY <3>1, <3>2 DEF IInv, SlotsAccountedFor, Slots
  <2>3. Locals'
      BY <1>6 DEF IInv, Locals, Local, Walking, Releasing, Heads, Handles, Slots, Sentinel,
                  Top, Matches, vars, poolVars
  <2>4. QED
      BY <2>1, <2>2, <2>3 DEF IInv
<1>7. QED
    BY <1>1, <1>2, <1>3, <1>4, <1>5, <1>6 DEF Next

(* The strengthened invariant holds of every behaviour. *)
THEOREM Inductive == Spec => []IInv
<1>1. Init => IInv
    BY InitIInv
<1>2. IInv /\ [Next]_vars => IInv'
    BY NextIInv
<1>3. QED
    BY <1>1, <1>2, PTL DEF Spec

(* Whatever is taken from the free list and given back between a thread's  *)
(* look at the head and its swap, the list leads from the head through     *)
(* each free slot once to the sentinel: the tag excludes the swap that     *)
(* would put an old link into the head.                                    *)
THEOREM ListStaysIntact == Spec => []FreeListIntact
<1>1. IInv => FreeListIntact
    BY DEF IInv
<1>2. QED
    BY <1>1, Inductive, PTL

(* No slot is lost and none is given to two calls. *)
THEOREM NoSlotLost == Spec => []SlotsAccountedFor
<1>1. IInv => SlotsAccountedFor
    BY DEF IInv
<1>2. QED
    BY <1>1, Inductive, PTL

(* A release destroys what its handle was given out for, or a generation   *)
(* that is at least one round of the handle's bits away.                   *)
THEOREM ReleaseIsExact == Spec => []DestroysItsOwn
<1>1. IInv => DestroysItsOwn
    BY DEF IInv
<1>2. QED
    BY <1>1, Inductive, PTL
=============================================================================
