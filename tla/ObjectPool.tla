----------------------------- MODULE ObjectPool -----------------------------
(***************************************************************************)
(* Mashiro's ConcurrentObjectPool (Core/ConcurrentObjectPool.h): slots on  *)
(* a lock-free free list whose head carries a tag against ABA, and handles *)
(* that carry the low bits of their slot's generation.  A generation is    *)
(* odd while the slot holds an object.                                     *)
(*                                                                         *)
(* Emplace is AcquireBulk of one slot and Release is ReleaseBulk of one    *)
(* handle, step for step, but for what a throwing constructor leaves.      *)
(* Memory is sequentially consistent; a weak compare-and-swap that fails   *)
(* for no reason is a failure that finds the head it expected.             *)
(***************************************************************************)
EXTENDS Integers, Sequences

CONSTANTS
    Capacity, Threads,
    HandleGens,     \* generations a handle tells apart: 2^16
    MaxBulk,        \* bound: slots or handles in one call
    MaxCalls,       \* bound: calls of each thread
    MayThrow        \* does the element's constructor throw

Slots == 0 .. Capacity - 1
Sentinel == Capacity

ASSUME PoolAssumption ==
    /\ Capacity \in Nat \ {0} /\ HandleGens \in Nat \ {0}
    /\ MaxBulk \in Nat /\ MaxCalls \in Nat /\ MayThrow \in BOOLEAN

VARIABLES
    head,           \* index and tag of the free list's first slot
    link, gen,      \* of each slot
    thread,         \* program counter and locals
    stack,          \* history: the free list, its first slot last
    hold,           \* history: the chain a thread has detached or collected
    abandoned,      \* history: slots a throwing bulk acquire left behind
    issued,         \* history: the handles given out, in full
    destroyed       \* history: the handle and generation of each release

poolVars == <<head, link, gen>>
vars == <<poolVars, thread, stack, hold, abandoned, issued, destroyed>>

Handle(s, g) == [index |-> s, gen |-> g]
Top(s) == s[Len(s)]
Front(s) == SubSeq(s, 1, Len(s) - 1)
Elements(s) == {s[i] : i \in 1 .. Len(s)}

Idle == [pc |-> "idle", seen |-> [index |-> 0, tag |-> 0], last |-> 0,
         count |-> 0, want |-> 0, bulk |-> FALSE, first |-> 0,
         todo |-> << >>, current |-> 0, calls |-> 0]

Init ==
    /\ link = [s \in Slots |-> s + 1]
    /\ head = [index |-> 0, tag |-> 1]
    /\ gen = [s \in Slots |-> 0]
    /\ thread = [t \in Threads |-> Idle]
    /\ stack = [i \in 1 .. Capacity |-> Capacity - i]
    /\ hold = [t \in Threads |-> << >>]
    /\ abandoned = {} /\ issued = {} /\ destroyed = {}

At(t, label) == thread[t].pc = label
Return(th) == [Idle EXCEPT !.calls = th.calls]

(* Mutant: the tag is kept. *)
PackUntagged(index, previous) == [index |-> index, tag |-> previous.tag]

(* Every change of the head counts its tag up. *)
Pack(index, previous) == [index |-> index, tag |-> previous.tag + 1]
-----------------------------------------------------------------------------
(* Acquiring.                                                              *)

(* Load the head, or get it from a failed swap; an empty list ends the     *)
(* call with what it has.                                                  *)
Look(th) ==
    IF head.index = Sentinel THEN Return(th)
    ELSE [th EXCEPT !.pc = "walk", !.seen = head, !.last = head.index,
                    !.count = 1]

Acquire(t, size, bulk) ==
    /\ At(t, "idle") /\ thread[t].calls < MaxCalls
    /\ thread' = [thread EXCEPT
         ![t] = Look([@ EXCEPT !.calls = thread[t].calls + 1, !.want = size,
                                !.bulk = bulk])]
    /\ UNCHANGED <<poolVars, stack, hold, abandoned, issued, destroyed>>

(* One link at a time, while others may take the slots walked over. *)
Walk(t) ==
    LET th == thread[t]
        next == link[th.last] IN
    /\ At(t, "walk")
    /\ thread' = [thread EXCEPT ![t] =
         IF th.count < th.want /\ next # Sentinel
         THEN [th EXCEPT !.last = next, !.count = @ + 1]
         ELSE [th EXCEPT !.last = next, !.pc = "detach"]]
    /\ UNCHANGED <<poolVars, stack, hold, abandoned, issued, destroyed>>

Detach(t) ==
    LET th == thread[t]
        rest == Len(stack) - th.count IN
    /\ At(t, "detach")
    /\ IF head = th.seen
       THEN /\ head' = Pack(th.last, head)
            /\ stack' = SubSeq(stack, 1, rest)
            /\ hold' = [hold EXCEPT ![t] = SubSeq(stack, rest + 1, Len(stack))]
            /\ thread' = [thread EXCEPT ![t] =
                 [th EXCEPT !.pc = "construct", !.first = th.seen.index,
                            !.want = @ - th.count]]
       ELSE /\ thread' = [thread EXCEPT ![t] = Look(th)]
            /\ UNCHANGED <<head, stack, hold>>
    /\ UNCHANGED <<link, gen, abandoned, issued, destroyed>>

(* The slots of the chain one by one; a bulk acquire that got fewer than   *)
(* it wants looks at the list again.                                       *)
Construct(t) ==
    LET th == thread[t]
        s == th.first IN
    /\ At(t, "construct")
    /\ gen' = [gen EXCEPT ![s] = @ + 1]
    /\ issued' = issued \cup {Handle(s, gen[s] + 1)}
    /\ hold' = [hold EXCEPT ![t] = Front(@)]
    /\ thread' = [thread EXCEPT ![t] =
         IF Len(hold[t]) > 1 THEN [th EXCEPT !.first = link[s]]
         ELSE IF th.want > 0 THEN [th EXCEPT !.pc = "again"] ELSE Return(th)]
    /\ UNCHANGED <<head, link, stack, abandoned, destroyed>>

Again(t) ==
    /\ At(t, "again")
    /\ thread' = [thread EXCEPT ![t] = Look(@)]
    /\ UNCHANGED <<poolVars, stack, hold, abandoned, issued, destroyed>>

(* Emplace gives the slot back; AcquireBulk has nothing that does. *)
ConstructThrows(t) ==
    LET th == thread[t] IN
    /\ MayThrow /\ At(t, "construct")
    /\ IF th.bulk
       THEN /\ abandoned' = abandoned \cup Elements(hold[t])
            /\ hold' = [hold EXCEPT ![t] = << >>]
            /\ thread' = [thread EXCEPT ![t] = Return(th)]
       ELSE /\ thread' = [thread EXCEPT ![t].pc = "push"]
            /\ UNCHANGED <<hold, abandoned>>
    /\ UNCHANGED <<poolVars, stack, issued, destroyed>>
-----------------------------------------------------------------------------
(* Releasing.                                                              *)

(* Mutant: any handle of a live slot will do. *)
MatchesLive(current, h) == current % 2 = 1

(* Deref, IsLive and Release: live, and equal in the bits a handle has. *)
Matches(current, h) ==
    current % 2 = 1 /\ current % HandleGens = h.gen % HandleGens

(* Handles that do not match are passed over.  After the last one what was *)
(* collected is pushed, if anything.                                       *)
Pass(th, collected) ==
    IF Len(th.todo) > 1 THEN [th EXCEPT !.pc = "check", !.todo = Tail(@)]
    ELSE IF collected = << >> THEN Return(th)
    ELSE [th EXCEPT !.pc = "push", !.todo = << >>]

Judge(t) ==
    LET h == Head(thread[t].todo) IN
    IF Matches(gen[h.index], h)
    THEN [thread[t] EXCEPT !.pc = "reclaim", !.current = gen[h.index]]
    ELSE Pass(thread[t], hold[t])

Release(t, handles) ==
    /\ At(t, "idle") /\ thread[t].calls < MaxCalls
    /\ thread' = [thread EXCEPT ![t] =
         [@ EXCEPT !.calls = thread[t].calls + 1, !.pc = "check", !.todo = handles]]
    /\ UNCHANGED <<poolVars, stack, hold, abandoned, issued, destroyed>>

Check(t) ==
    /\ At(t, "check")
    /\ thread' = [thread EXCEPT ![t] = Judge(t)]
    /\ UNCHANGED <<poolVars, stack, hold, abandoned, issued, destroyed>>

(* The release is won: the object goes, the slot joins the local chain. *)
Collect(t) ==
    LET th == thread[t]
        h == Head(th.todo)
        collected == Append(hold[t], h.index) IN
    /\ gen' = [gen EXCEPT ![h.index] = th.current + 1]
    /\ link' = IF hold[t] = << >> THEN link
               ELSE [link EXCEPT ![h.index] = Top(hold[t])]
    /\ hold' = [hold EXCEPT ![t] = collected]
    /\ destroyed' = destroyed \cup {[handle |-> h, at |-> th.current]}
    /\ thread' = [thread EXCEPT ![t] = Pass(th, collected)]

(* Mutant: the generation is stored without another look at it. *)
ReclaimByStore(t) ==
    /\ At(t, "reclaim") /\ Collect(t)
    /\ UNCHANGED <<head, stack, abandoned, issued>>

Reclaim(t) ==
    /\ At(t, "reclaim")
    /\ IF gen[Head(thread[t].todo).index] = thread[t].current THEN Collect(t)
       ELSE /\ thread' = [thread EXCEPT ![t] = Judge(t)]
            /\ UNCHANGED <<gen, link, hold, destroyed>>
    /\ UNCHANGED <<head, stack, abandoned, issued>>

(* The chain's last slot is linked to the head, first and after each       *)
(* failed swap.                                                            *)
LinkLast(t) ==
    /\ link' = [link EXCEPT ![hold[t][1]] = head.index]
    /\ thread' = [thread EXCEPT ![t].pc = "attach", ![t].seen = head]

Push(t) ==
    /\ At(t, "push") /\ LinkLast(t)
    /\ UNCHANGED <<head, gen, stack, hold, abandoned, issued, destroyed>>

Attach(t) ==
    /\ At(t, "attach")
    /\ IF head = thread[t].seen
       THEN /\ head' = Pack(Top(hold[t]), head)
            /\ stack' = stack \o hold[t]
            /\ hold' = [hold EXCEPT ![t] = << >>]
            /\ thread' = [thread EXCEPT ![t] = Return(@)]
            /\ UNCHANGED link
       ELSE LinkLast(t) /\ UNCHANGED <<head, stack, hold>>
    /\ UNCHANGED <<gen, abandoned, issued, destroyed>>

(* Clear is for one thread alone; it finds abandoned slots again. *)
Clear(t) ==
    /\ \A u \in Threads : At(u, "idle")
    /\ thread[t].calls < MaxCalls
    /\ thread' = [thread EXCEPT ![t].calls = @ + 1]
    /\ gen' = [s \in Slots |-> gen[s] + (gen[s] % 2)]
    /\ link' = [s \in Slots |-> s + 1]
    /\ head' = Pack(0, head)
    /\ stack' = [i \in 1 .. Capacity |-> Capacity - i]
    /\ abandoned' = {}
    /\ UNCHANGED <<hold, issued, destroyed>>

Lists(S) == UNION {[1 .. n -> S] : n \in 1 .. MaxBulk}

Step(t) ==
    \/ Walk(t) \/ Detach(t) \/ Construct(t) \/ Again(t) \/ ConstructThrows(t)
    \/ Check(t) \/ Reclaim(t) \/ Push(t) \/ Attach(t)

Next ==
    \E t \in Threads :
        \/ Acquire(t, 1, FALSE)
        \/ \E size \in 1 .. MaxBulk : Acquire(t, size, TRUE)
        \/ \E handles \in Lists(issued) : Release(t, handles)
        \/ Clear(t)
        \/ Step(t)

Spec == Init /\ [][Next]_vars
-----------------------------------------------------------------------------
(* The links lead from the head through the free slots, each once, to the  *)
(* sentinel: the list is neither cut nor tied into a circle, whatever was  *)
(* taken and given back between a thread's look at the head and its swap.  *)
FreeListIntact ==
    /\ head.index = IF stack = << >> THEN Sentinel ELSE Top(stack)
    /\ \A i \in 1 .. Len(stack) :
         link[stack[i]] = IF i = 1 THEN Sentinel ELSE stack[i - 1]
    /\ \A i, j \in 1 .. Len(stack) : stack[i] = stack[j] => i = j

InHand(s) == \E t \in Threads : s \in Elements(hold[t])

(* No slot is lost and none is given to two: each is on the free list, in  *)
(* the hands of one call, left behind by a throwing bulk acquire or holds  *)
(* an object.                                                              *)
SlotsAccountedFor ==
    /\ \A s \in Slots :
         gen[s] % 2 = 0 <=> s \in Elements(stack) \/ InHand(s) \/ s \in abandoned
    /\ \A t \in Threads : \A i, j \in 1 .. Len(hold[t]) :
         hold[t][i] = hold[t][j] => i = j
    /\ \A t \in Threads :
         Elements(hold[t]) \cap (Elements(stack) \cup abandoned) = {}
    /\ \A t, u \in Threads : t # u => Elements(hold[t]) \cap Elements(hold[u]) = {}
    /\ Elements(stack) \cap abandoned = {}

(* A release destroys the object its handle was given out for, although    *)
(* the slot may be released and acquired again by others meanwhile; unless *)
(* the slot's generation has gone once round the handle's bits.            *)
DestroysItsOwn ==
    \A d \in destroyed :
        d.at = d.handle.gen \/ d.at - d.handle.gen >= HandleGens

=============================================================================
