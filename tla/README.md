# A verification development for Mashiro and Sora

The repository holds two C++ engine libraries, **Mashiro** and **Sora** (and the
skeleton of a third, Nova).  Most of their code is pure: mathematics, reflection,
text formats, layout computed by the compiler.  What is hard to get right and
hard to test is the part with protocols: rings and queues without locks, an
asynchronous queue with parked operations and cancellation, an event pump with
its platform thread and channels, a lock-free object pool, event ports whose
emissions race with their owners, documents with undo.  This directory models
that part in TLA+, checks it with TLC and proves some of it with TLAPS.

Paths below are relative to `src/Mashiro/include/Mashiro/` unless they say Sora.

## 1. Inventory

| Component | State | Operations | What makes it correct |
|---|---|---|---|
| `RingBuffer` (`Core/RingBuffer.h`), three protocols chosen at compile time: local, published cursor (SPSC), sequence cell (MPSC, SPMC, MPMC) | two cursors, private copies of them (SPSC) or a sequence number per cell, slots with or without a live object | `TryEmplace`/`TryPush`/`Push`, `TryPop`/`Pop`/`Front`/`PopFront`, `Drain`, `SizeApprox`, destructor | bounded FIFO; slots are never used by two threads; live objects exactly between the cursors; "full" and "empty" are true when reported |
| `AsyncQueue` (`Concurrency/AsyncQueue.h`, `QueueAdapter.h`, `Backpressure.h`, `QueueBatch.h`, `IntrusiveWaitQueue.h`) | lifecycle, mutex, two lists of parked operations, their atomic counters, count of active producers, the phase and result of each operation state | the senders `Push`, `PushBatch`, `Pop`, `PopBatch`; `TryPush`, `TryPop`; `Close`, `Abort`; stop callbacks | each operation completes once, with what happened to its value; nothing lost; order per port; nobody parked without a reason; the end of the stream is final |
| `EventChannel` (`Platform/EventChannel.h`) | SPSC ring, push epoch, stop callback of the operation | `TryPush`, `TryPop`, `NextBatch` | events in order; no lost wake; stop completes |
| `EventPump` (`Platform/EventPump.h`) with the platform backend | inbox, mailbox of coroutine handles, wake event, channels, managers | `TryPostExternal`, `SubmitResume`, `AddChannel`, `Run` and its drains | nothing posted is slept on; what is posted is drained; the loop ends when asked to |
| `PlatformThread` (`Platform/PlatformThread.h`, `src/Platform/PlatformThread.cpp`) | lifecycle state, stop flag, stop bridge, published channel, readiness epoch | `Run`, `RequestStop`, `WhenReady` | a stop request is never lost; every waiter gets its answer; nothing of `Run`'s stack is used after it returns |
| `ConcurrentObjectPool` (`Core/ConcurrentObjectPool.h`) | tagged head of the free list, links, a generation per slot | `Emplace`, `Release`, `Deref`, bulk forms, `Clear` | a slot has one owner; released handles stay dead as long as the 16-bit generation lasts; the list keeps every free slot once |
| Sora `EventPort` (`Core/EventPort.h`) | subscription snapshots, dispatch words (canceled, suspended, budget), inbound relations, deferred batches | `Connect`, `Disconnect`, `SetBudget`, suspension, `Emit`, `EmitOn` and its batches, `CancelAll`, destruction of a receiver | budget never exceeded; order by priority and age; nobody skipped; nothing begins after a disconnect |
| Sora `CommandRuntime` (`Kernel/Experimental/CommandRuntime.h`): documents and their transactions | objects, their index, version, undo records of each runtime | `Commit`, `UndoLast`, `Snapshot` | no lost update; undo restores exactly what a commit found; the index leads to every object |
| `SeqLock` (`Core/SeqLock.h`, Sora `Core/Concurrency/SequenceLock.h`) | counter, payload | `Write`, `Update`, `Read`, `TryRead` | no torn value |
| `SpscChannel` (`Core/SpscChannel.h`) | SPSC ring and two epochs | push, pop, drain, wait on either side | no lost wake in either direction |
| `SpscByteRing` (`Core/SpscByteRing.h`) | bytes, wrapping 32-bit cursors | `TryWrite`, `ReadAll`, `Reset` | whole messages, in order |
| `ConcurrentSlabArena` (`Core/ConcurrentSlabArena.h`) | ticket counter, chain of slabs | `Allocate`, `Reset` | one cell per ticket |

`PROJECT.json` lists these and the rest of the repository (pure mathematics,
text formats, reflection, operating system wrappers), with the reason where a
part is not modelled, and the hazards of the modelled code by line.

How they interact: the asynchronous queue, the channels and the pump own rings
and call them; the asynchronous queue is called by producer and consumer
threads, by whoever closes it and by stop sources, and calls receivers back; the
pump's thread drains what others post and pushes into event channels, which
subscribers read; `PlatformThread` runs the pump, publishes the application's
channel to whoever waits for it, and is stopped from other threads.  In Sora,
emitters walk snapshots of a port's relations while the holders of handles change
them; transaction runtimes commit to a document they may share.

## 2. What is modelled

```
BoundedFifo        what a ring promises
   ^   ^
   |   +-- RingStorage     claim / publish / take / free as separate steps
   |          ^       ^
   |          |       +--- AsyncQueue   (uses its state and its actions)
   |     SequenceRing      MPSC, SPMC and MPMC cells
PublishedRing              SPSC cursors

EventChannel  <--- EventPump <---+
                PlatformThread <-+- EventLoop    the three together

ObjectPool                 the lock-free free list and its handles
EventPort                  Sora's relations, emissions and batches
UndoHistory  <---  DocumentTransactions          what undo promises

PublishedRing_proofs, SequenceRing_proofs, AsyncQueue_proofs (begins with RingStorage),
AsyncQueueValues_proofs, EventLoop_proofs (with EventChannel), EventPort_proofs,
DocumentTransactions_proofs, ObjectPool_proofs
```

An arrow to `BoundedFifo` or `UndoHistory`, or from `SequenceRing`, is "implements",
checked by TLC (`FifoSpec`, `StorageSpec` and `HistorySpec` as properties) and proved.  `AsyncQueue` extends `RingStorage` and runs its
actions inside its own; `EventPump` extends `EventChannel` and pushes with its actions;
`EventLoop` extends all three and says which of their steps go together.  Each `MC...`
module gives the constants their values.

### PublishedRing

`writePosition`, `cachedReadPosition`, `readPosition` and `cachedWritePosition`
are the members of the same names; `slots` says which slot holds a live object.
`producer` and `consumer` are the places the two threads have reached inside
`TryEmplace` and inside `TryPop` or `Drain`.  There is one action for each access
to memory the other thread can see: load of the other cursor (`PushRefresh`,
`PopRefresh`, `DrainBegin`), construction (`PushConstruct`), store of a cursor
(`PushPublish`, `ReleaseSlots`), move and destruction (`TakeSlot`).  A constructor
or a move that throws is an action (`ConstructThrows`, `MoveThrows`).  A batch
push is `BatchAdmit`, which is the test in `PushSingleProducerBatch`, followed by
single pushes; the state `terminated` is its `std::terminate`.

The release stores and acquire loads make every access before the store visible
to the thread that loads it, and each cursor has one writer, so interleaving of
the steps is what the memory model allows here: a thread may read an old value
of the other cursor only as if it had read earlier.

### RingStorage and SequenceRing

`SequenceRing` has the cursors, a sequence number and an object per cell, and the
local `position` of each thread.  `topology` is the template parameter, chosen once
in the initial state: whether claims are compare-and-swaps or stores, and on which
side of the sequence store, follows from it as from the `if constexpr` of the code.
The single side of a topology may be used by any thread, but by one at a time
(`Admitted`), which is what `QueueCardinality` says of it.
`PushClaimFails` and `PopClaimFails` include the spurious failures of the weak
compare-and-swap.  `log` is a history variable: the value claimed for each
position.  `RingStorage` forgets cells and keeps positions: claimed, published
(`ready`), taken, given back (`freed`).  It is what the queue is built on, and
`StorageSpec` says that the cells implement it.  Sequence numbers are natural
numbers here; the code's wrap at 2^64 is not modelled (Capacity divides 2^64, and
`SequenceDifference` is a signed modular difference).

### AsyncQueue

Threads are producers, consumers, controllers (they call `Close` or `Abort`) and
one stop source for each operation in `Stoppable`.  `thread[t]` is a program
counter with the few locals that matter:

- `goal`: the call the thread is in (start of an operation, a service of the
  waiters, close, abort, cancel); `call`: the operation or the value of `TryPush`;
- `job`, `from`: the transfer under way and where its outcome goes (`fast` path,
  `TryPop`'s `poll`, under the lock `reserved` or at the `front` of a list);
- `ok`: `StartOperation` has succeeded so far; `progress`: `madeProgress`;
- `done`: the `CompletionList`, delivered after the unlock, one receiver at a time.

Each access to an atomic, each lock and unlock and each storage access is a
step; what happens in between on the thread's own data is part of it.  While the
mutex is held, the lists are the holder's own, so passing over an empty list is
not a step.  `op[o]` has the phase of the operation, what it moved out of the ring,
the retries left, the result decided for it, whether its stop source was asked to
stop and whether the callback is registered, and counts the signals its receiver
got.  `calls` is a history variable for the order properties.

Details that are easy to miss and are in the model: `TryPush` and the fast path
enter (`EnterProducer`) and leave the count of active producers, and the last one
out serves the waiters if the queue is closing; a starting operation that finds
its stop source already fired completes at once; registering the callback may run
it in place; a callback that finds the operation `Starting` marks it
`StopRequested` for the starting thread to complete; releasing a callback waits
for it unless the callback itself does the completing; a batch is admitted whole
and then pushed value by value; a batch pop takes what there is.

One branch of `StartOperation` is left out because no call reaches it: an operation
that may not suspend (lines 537-548) has been resolved on the path without the lock,
or finds the queue closed or its batch too large under it.  `PushesCommitOnce` says
so: such a push would park in the model, and never does.

The state of an operation is written under the lock or by its starter; the model
lets those stores be seen at once.  Where the code uses a release store followed by
a load of another variable, x86 may delay the store past the load.  With
`StoreBuffers` the model has that, on the SPSC storage, for the two stores where it
matters: the lifecycle in `Close` and `Abort` and the read cursor.  A push is followed by the
count of active producers, a read-modify-write that drains the buffer.  A pop from a
sequence-cell ring is like one from the SPSC ring: it ends with the release store of the
cell's number (and, with one consumer, of the cursor), and the load of the waiting producers comes after
it without a fence (`RingBuffer.h:697`, `AsyncQueue.h:508`).  The model has no delayed stores on those
rings (`TopologyAssumption`), so what it says about them holds for stores that are seen
at once; section 5 lists the consequence.  The model takes lock and unlock for full fences.

### EventChannel

The ring is a sequence; a drain takes the events that were there when it began,
and their slots become free at its end.  `std::atomic::wait` compares and goes to
sleep in one step; a notification wakes the sleeper, which compares again.  The
stop source and the platform thread run concurrently.

### EventPump, PlatformThread and EventLoop

`EventPump` has the two rings other threads post into as sequences of claimed
cells, each of which is published later by the thread that claimed it; a drain ends
at the first cell that is not published.  The wait is the Windows backend's
(`WaitForAnySource`): a manual-reset event, which a poster sets after it has posted
and which the loop clears *after* its wait has returned and *before* it drains, a
native queue that is looked at itself, and a stop callback registered for the time
of the wait.  A `WM_QUIT` in the native queue is no event: it ends the native drain and
the messages behind it stay in the queue.  A coroutine that is resumed may submit itself again.  `SubmitResume` to
a full mailbox ends the program (`terminated`).

`PlatformThread` is `Run` step by step (`run`), `RequestStop` (`requester`), and the
sender of `WhenReady` (`waiter`), which registers a stop callback, takes a snapshot of
`readinessEpoch_`, looks at the channel, the state and its token, and sleeps while the
epoch is the snapshot.  Its token may fire before the call or at any time during it.  `moved` says that the epoch has moved since the snapshot;
that is all a comparison can tell.  `RequestStop` stores `stopRequested_` and loads
the bridge's address, `Run` stores the address and loads the flag, all with release
and acquire order: `todo` lets each thread's two accesses happen in either order, as
they may.  A request that has loaded the address uses it whenever it likes, also
when `Run` has returned; then it finds no bridge, or hangs in the memory of one.

`EventLoop` starts the pump when the channel is published (`StartLoop`) and lets `Run`
go on when the pump has returned and the tasks that post have been joined
(`LeaveLoop`).  The waiter `application` becomes the channel's subscriber when its
`WhenReady` completes.  Its `NextBatch` is not repeated here: in the composition it
polls.

### ObjectPool

The head is a record of an index and a tag, a slot has a link and a generation, and
every load and compare-and-swap of these is a step: a thread walks links that others
change (`Walk`), and swaps the head it saw (`Detach`, `Attach`).  `Emplace` and
`Release` are the bulk forms with one slot, which they are, step for step, except
after a constructor that throws: `Emplace` gives the slot back, `AcquireBulk` leaves the
rest of the chain behind (`abandoned`) until `Clear` builds the list anew.  Handles
keep the generation modulo `HandleGens`.  `stack` and `hold`, history variables, say
what the list and the chains in the threads' hands ought to be; `FreeListIntact`
compares the links with them.

### EventPort

`word[r]` is the dispatch word of a relation: two flags and the budget, where the
largest number of the bits (`Mask`) stands for a persistent budget.  `PackDispatchState` is
modelled with what it does to budgets that do not fit.  `Emit` takes the snapshot in
one step, then leases the receiver, enters (`BeginDispatch`, `Spend`) and calls back,
relation by relation; `EmitOn` selects and retains relation by relation and ends with a
batch, which is run or dropped later, in any order.  The sorting of a new snapshot is
modelled by its result (`Ranked`): the relations of the old one and the new relation, by
`Before`.  `Connect` numbers the relation before
it takes the mutex, so relations may be inserted out of their order.  A handle works as
long as somebody keeps the record alive (`Held`), and can be had from `Connections` as
soon as the relation is in the snapshot, also before its `Connect` has returned.  A receiver is destroyed only when no
callback runs on it (`Leased`), which is what the borrowed lifetimes require of their
owner and what the shared ones ensure.

### DocumentTransactions and UndoHistory

A client reads the document (`Prepare`) and makes a sender; the sender runs when it is
started, on one of the runtimes (`Commit`), and is refused when the version has moved or
the change is not valid.  `Apply` and `UndoAppliedChange` follow the order of the code:
erases, updates, inserts, and back.  A record of undo keeps the position of an erased
object, clamped on the way back.  Kind and parameters of an object are one datum.
`ForEach` is the loop over the parts of a change; it is a function of the number of rounds
and not a fold, so that its proofs can unfold it.  `Names` are the ids clients may write in
a change, `Data` the data of objects; `ChangesAssumption` types the change sets by them.
`UndoHistory` is what undo promises: the contents come back exactly, in their order.

## 3. Runs

| Run | Instance | Shows |
|---|---|---|
| `published_ring` | capacity 4, two values, polling consumer, fairness | slot safety, exact lifetimes, batch never terminates, implements `BoundedFifo`, every value is taken |
| `sequence_ring` | each topology, two threads a side, capacity 2, 4 pushes, symmetric | cells are exclusive; implements `RingStorage`; full and empty are real |
| `queue_policies` | pushes of 2, 1, 3 and 0 values of which one retries and is rejected, one is too large and one may be dropped; a batch pop, `TryPop`s, `Close`, delayed stores | the outcome is true, all or nothing, contiguous; nothing lost |
| `queue_cancel` | a batch of two, a stoppable pop, a `TryPush`, `Close` and `Abort`, fairness | completes once; counters right; calls return; the end releases everybody |
| `queue_shared` | each topology, two threads a side, three pushes, two pops, `Close`, symmetric | order per port; nobody parked in front of room or of a value; the end of the stream is final; the single side is entered by one thread at a time; the ring inside stays a FIFO with disjoint cells |
| `event_channel` | capacity 2, 5 events, any stops, fairness | order, no lost wake, a parked subscriber gets its events |
| `event_loop` | two posters, one requester, the application as waiter, channel of 1, inbox of 2, mailbox of 1, two posts, resumptions or native events, fairness | `WhenReady` misses no answer; the loop sleeps on no post; posts are drained; a stop ends `Run` |
| `object_pool` | 3 slots, two threads with three calls each, bulk of two, handles that tell 4 generations apart, a constructor that may throw, symmetric | the free list is intact; every slot is somewhere, once; a release destroys what its handle was given out for |
| `event_port` | two relations to two receivers of which one is shared, budgets of 2 bits, two emitters with an emission each, two owners with two calls each, symmetric | budgets; order by priority and age; nobody skipped; a disconnect is final |
| `documents` | two clients, one runtime, twelve change sets, 6 versions, symmetric | no lost update; a commit can be undone; the index is right; implements `UndoHistory` |
| `event_channel_stop`, `documents_shared` | the smallest instance each | the findings of section 5 |

**Bounds.**  Capacity 2 is the least a ring may have (`ValidateRingCapacity`).  A
ring of two is full after two pushes and wraps after three (its SPSC form has
three slots), so the runs of the rings fill it and wrap it.
`MaxPushes` and `MaxEvents` bound the values that ever enter; with
capacity 2 and four of them every cell is used twice and a stale position lags by a
whole lap.  In `AsyncQueue` each operation state is started at most once, which is
what a sender's operation state allows; the number of operations is the bound.  In
`queue_cancel` a push of two values (`Filling`) fills the ring in one call, and parks if
a `TryPush` came first.  In `queue_shared` three single pushes make one park, in front of two
that filled the ring, and two pops park one behind the other.  That two pushes park one
behind the other takes a fourth push, which is more than TLC can go through; the order
of parked pushes and the single producer side then rest on the theorems `CallsKeepOrder` and
`OneThreadAtATime` (section 4), where the number of pushes is not bounded.

In `event_loop` two posts suffice for one to be hidden behind another that is not yet
published, for a channel of one to be full, and for a resumed coroutine to submit
itself; a full inbox is not reached, and neither is the termination by a resumed
coroutine.  In `object_pool` three slots and a bulk of two make a walk over a chain that
changes under it and comes back with another tag; three calls a thread release and
acquire a slot often enough for its generation to go round the four a handle tells
apart (`HandleGens`; 2^16 in the code).  In `event_port`
`Mask = 3` leaves the finite budgets 1 and 2 and the persistent one; `Forever` stands for
the enumerator outside the bits.  In `documents` a change may insert with or without a
chosen id, update twice, erase, and do several of these at once; six versions allow
three commits undone in a row.

**Deadlock.**  All runs but those of the rings stop when their bounded calls, posts or
events are used up, hence `CHECK_DEADLOCK FALSE`; that no thread is stuck inside a call
is what `CallsReturn`, `EventsWake` and `StopEndsRun` say.  The ring runs check deadlock.

**Symmetry** is used only in runs whose properties are invariants, action properties or
refinements without fairness, over sets whose members the constants treat alike.

**Fairness.**  A thread inside a call is scheduled (weak fairness on its steps).
The mutex of the queue is granted to a thread that keeps asking (strong fairness on
`Lock`: a thread loses the race for the mutex to others again and again, but not for
ever, as the operating system's mutexes see to).  A payload's move does not throw each
time.  In `event_loop` there is one condition for the thread in `Run`, with the pump it
drives, and one that *some* begun call that can go on does; the second is weaker than
one for each thread and is enough.  Nobody is obliged to begin a call, to close the
queue, to stop an operation, to post or to push another event.  `EventuallyTaken` assumes
a consumer that polls, as `Pop` does.

**Mutants.**  Next to the definitions stand mutated forms, marked `Mutant:` in
their comments: a dropped guard, a wrong wrap, a lost wake-up.  For each property
`PROJECT.json` names one under which it fails; none is used by the specifications.

## 4. Proofs

`PublishedRing_proofs` proves for every capacity greater than zero and every set of values,
from the named assumptions `CapacityAssumption` and `VacantAssumption`:

- `TypeCorrect`, `SlotAccessSafe`, `LiveObjects`, `BatchSafe`: the four invariants
  that `published_ring` checks;
- `Implements`: `Spec` implies the `Spec` of `BoundedFifo` under the mapping
  `queue <- Queue`.

The invariants are not inductive.  `IInv` adds what makes them so: each private
copy of a cursor lags behind the cursor it copies by less than a lap (`Copies`),
what the producer has established at each place of `TryEmplace` (`ProducerPhase`:
after the test, the slot after `writePosition` is not the one the copy points at;
the rest of an admitted batch fits into the room that is left), and the same for
the consumer (`ConsumerPhase`).  `SlotSafety` then follows from `LiveExactly` and
the two phases.  For the refinement, publishing a value appends it to `Queue`, taking
a slot removes its head, and everything else leaves the queue alone.

`AsyncQueue_proofs` begins with `RingStorage` and proves for every capacity greater than
zero (`CapacityAssumption`) and every set of values:

- `StorageTypeCorrect` and `CellsExclusive`: positions are given back only after they
  were published, and two positions in use never share a cell;
- `StorageImplementsFifo`: `StorageSpec` implies the `Spec` of `BoundedFifo`.

What makes it inductive is `LapFreed`: every position a lap or more behind the next
one to be claimed has been given back.  Cells may be given back out of order, so no
comparison of two counters says this.  Two positions with the same cell are a
multiple of `Capacity` apart (`SameCellLap`, from the division theorem), so the earlier
one has been given back.  For the refinement, the queue begins at `FirstHeld`, which
moves when the head is taken or, on a single consumer's side, when its cell is given
back, whichever comes first; a claim fits because the position a lap earlier, being
given back, is before `FirstHeld`.

`SequenceRing_proofs` proves, from `CapacityAssumption` (above one), `ThreadAssumption` and
`TopologyAssumption`, for every capacity, any threads and values and the three topologies:

- `CellsAreExclusive`: a producer constructs in a vacant cell, a consumer reads the
  value of its own position, and no two threads work in one cell;
- `Implements`: `Spec` implies `StorageSpec`, so that with `StorageImplementsFifo` all the
  rings implement the bounded FIFO;
- `FailuresAreTrue`: a push gives up on a full ring and a pop at an unpublished head.

No lock protects a cell; the argument is that its number does.  `CellStates` says which
numbers a cell may bear: a position `p` of its own, once the position a lap earlier was
given back, or `p + 1` once `p` is claimed.  Positions of one cell are a lap apart
(`SameCell`), so nothing can be ahead of the cursors (`Unclaimed`, `Untaken`), while
`Behind` says that nothing lags behind them either: a thread that finds its number at the
cursor knows the state of the cell however long ago it loaded the cursor, and a thread that
finds a smaller one is at the cursor.  `Distinct` and the neighbours of a position having
other cells (`NeighboursDiffer`, false for a capacity of one) give each cell to one thread.
A single consumer stores its cursor after the number: `Returned` counts the head as given
back meanwhile.

About the queue it proves, from `QueueAssumption`, `NamesAssumption` (calls, operations and
threads have names of their own), `FiniteAssumption` (a run has finitely many threads and
operations, and values have names of their own) and `TopologyAssumption`, for any operations,
threads, sizes, policies and topologies:

- `WaitersAreCounted`: the counters that are read without the lock are never below the
  length of the lists, and equal to it while the mutex is free;
- `CompletesAtMostOnce`: an operation is signalled once, whatever start, cancellation,
  service, `Close` and `Abort` race, and nobody refers to it afterwards;
- `OneThreadAtATime`: the single side of a storage is on one thread at a time.

The inductive invariant is `BaseInv`.  It says where an operation is: with the thread that
started it (`CarriedOnce`, `CarriedPhase`), in one list of waiters, exactly while it is
`Pending` (`PendingPhase`), or in the list of one thread that will complete it (`HandedOnce`,
`HandedPhase`); never in two of these, which is why it completes once.  `Shapes` says what a
thread's locals can be at each place of its code, `LockHeld` that the lock is held exactly
between lock and unlock, `Heads` that the operation being served is the head of its list, and
`Counted` that a counter is the length of its list and one more while the lock's holder has
reserved a place.  `StopThreads` is about callbacks: a registered one belongs to an operation
that is neither new nor completed.  For the single sides `SingleUser` is added: a thread
on the path without the lock was let in while nobody of its side waited, and as long as it
is inside, nobody of that side can begin to wait, so the lock's holder has nobody to serve.
One lemma for each operation of the queue shows that it keeps these parts; the steps that move
no operation share `QuietStep` and `NearStep`.

The last part of `AsyncQueue_proofs` is `QueueInvariant`, and `AsyncQueueValues_proofs` draws the
conclusions from it, under the same assumptions, about what passes through the queue:

- `PushesCommit`: a push is told `Enqueued` exactly if all its values are in the ring, next to
  each other and in order, after any attempts, retries and waits; one that may not suspend
  never waits;
- `QueueImplementsFifo` and `QueueCellsExclusive`: every step on the ring inside, whoever takes
  it, is a step of `RingStorage`, so that the bounded FIFO and the disjoint cells follow from
  the storage by itself;
- `TakenIsKept`: each value that left the ring is in the hands of one pop, or of one caller
  of `TryPop`, and a pop says `Popped` exactly if it has some;
- `StoppedAtEnd`: if stores are seen at once, a pop that was not stopped is told the end only
  when everything was taken and nobody is on the way to push more.  With delayed stores this
  is false (section 5), and the theorem says so in its hypothesis;
- `QueueTypes`: the type invariant, with the bounds of the two counters;
- `NobodyIsStranded`: when every thread is between calls, whoever is parked has a reason;
- `CallsKeepOrder`: the values of a producer enter, and the calls of a consumer are served, in
  the order of its calls.

`QueueInv` is what all of these rest on (`QueueInvariant`).  To `BaseInv` and `SingleUser` it adds
what the ring and the operations say of each other: nothing was transferred for an operation
that is still to be decided (`NotBefore`), the values of one push stand together (`Together`),
as many of them as the push's result says, unless it is being run (`Placed`), and then there
is room for the rest (`Midway`).  `GateInv` is about the doors: the number of active producers is
the number of threads that have gone in and not out (`Insiders`), an operation that may not
suspend comes under the lock only to be refused (`NeverParked`), and a callback runs only
after its stop was asked for.  Each step is one of three: it transfers nothing (`Steady`), it
makes a delayed store visible, or it moves one thread's transfer on (`Moved`); each part of
the invariant is shown once for each of the three.  For `TakenIsKept` the values of the log
are distinct (a consequence of `Together`) and come from pushes (`Origin`), so each has
one owner (`Owned`).  For `StoppedAtEnd`, once the end was seen (`EndSeen`) it stays: the queue does
not open again, and a producer that comes in afterwards finds it closed (`Final`).

`NobodyStranded` speaks of quiet moments only, so its inductive form `StrandInv` has to say who
sees to what until then.  Three things can be owed to a parked operation: room to the
first push (`RoomOwed`), an item to the first pop (`ItemOwed`), the end of the stream (`EndOwed`).
For each there is a set of places in the code from which a thread is sure to come to it
(`ServesPush`, `ServesPop`, `Sweeps`): under the lock before the service loop has looked, in
the loop after it has moved something, in the middle of a transfer that brings the item or
makes the room, or on the way to `Wake`.  The invariant is that what is owed is served by
some thread; a list without hope after `Close` or `Abort` is being failed by whoever ended it
(`EndedFails`), and nobody gets into it meanwhile (`ReservedOpen`).  Each step has four
duties (`Duties`): what is owed after it is served by its thread, or was owed before and
served by another one.  The step that matters is a thread that finds the counter of waiters
zero and goes home: a thread that parks has reserved its place before it tries the
ring once more, so it is still to look.  That is where stores have to be seen at once, the
first hypothesis.  The second, `CancelsSmall`, says that a push that may be cancelled is not
larger than another one: cancelling a large one at the head leaves the smaller ones behind
it with room nobody offers them (`AsyncQueue.h:578`, section 5).  Batches exist on the SPSC
storage only (`TopologyAssumption`), so in the other topologies it holds of itself, and on
the SPSC storage it holds if only single pushes are cancelled and no batch is empty.

`CallsKeepOrder` has no hypothesis: delayed stores can leave a thread waiting, not let one past.
A thread may make its next call while the last one is parked, and whoever holds the
lock may serve either, so order is about three places.  The lists are in the order of the
calls (`InLine`): a call joins at the end, and it is the last its thread has made (`LastCall`).
A thread is inside the ring for a call of its own only if none of its calls waits on that
side (`Turns`), because the count it tested is never below the list (`WaitersCounted`) and only
that thread can add a call of its own; and while a call waits, no later one of its
thread has got anything (`Waits`), because waiters are served from the head.  `Ordered`, the
property itself for positions of the ring, then survives every claim and every take,
each of which appends to what the earlier calls have got.  Operations and values occur once
among all the calls (`CalledOnce`), so a position tells the call.

`EventLoop_proofs` proves for every capacity and any number of events, about the channel by
itself:

- `NoWakeIsLost`: a subscriber sleeps only on an empty ring or with a push on its way
  to wake it.  `ChannelEpochTells` makes it inductive: an event that came after the look at
  the ring has moved the epoch past the snapshot or is about to, and while a sleeper's
  snapshot is old its notification is still to come;
- `DeliveredInOrder`: what was delivered, followed by the ring, is what was pushed.

And, from `LoopAssumption`, for any waiters, requesters, posters and capacities, about the
composition:

- `WhenReadyNotMissed`: the same argument with three reasons to wake (the channel, the
  end of `Run`, the waiter's own stop) and as many notifiers; `NotifiersPlaced` says where
  in their code the notifiers can be;
- `PostsNeverLost`: the loop does not sleep on a post.  The difficult case is a drain
  that ends at an unpublished cell and leaves published ones behind it: `Owned` says that
  such a cell's poster is still to publish it, and so to wake the loop;
- `LoopImplementsChannel`: each step of the composition is a step of the channel or leaves it
  alone, so that `LoopDeliversInOrder` follows from the channel by itself.

`EventPort_proofs` proves, from `PortAssumption`, for any relations, receivers, threads and
number of bits in a budget:

- `BudgetKept`: what is left of a relation's budget and what was taken from it is never
  more than it was given (`Counted`), as long as it was never persistent.  Spending
  subtracts from a word that is not canceled (`Seen`) and so is not empty;
- `DisconnectedStays`: what was disconnected is canceled (`EndedCanceled`) until a budget is
  set, and what is entered is not canceled in the step that enters it (`Sends`);
- `CallsInPriority`: what an emission or a batch has called and what it has left are in the
  order of priority and age, each relation once.  `Ordered` makes it inductive: a number is
  given to one relation only (`Numbers`), though `Connect` takes its number before the mutex;
  the snapshot and every batch are sorted; and what a thread has entered comes before what it
  has left, as does what it has selected (`Walks`).  Inserting into a sorted list needs the
  first place that comes after the new relation, which `Least` finds;
- `NobodyLeftOut`: a relation that was persistent, active and alive when an immediate emission
  began, and that nobody touched since, is among those it has called or will call.  `Owing`
  says that such a relation is still `Steady`, so that the emission cannot pass it; `Settles`
  that a step which makes a relation unsteady has touched it.  `CancelInbound` touches
  nothing: it cancels relations of a receiver that is gone already.

The last two share a description of a step as one thread's (`Moves`, `Steps`): it goes on in
place, begins with a snapshot or a batch, enters a relation or passes one.

`DocumentTransactions_proofs` proves for any clients and change sets
(`ChangesAssumption`):

- `UpdatesAreKept`, for any runtimes: no two states of a document have the same version,
  since undoing counts it up too, so a client whose version is the present one has seen the
  present objects (`SeenAtBase`);
- `IndexLeads`, for any runtimes: the index leads to each object, and no two share an id;
- `CommitsCanBeUndone`, for one runtime: the checks of an undo never fail;
- `DocumentKeepsHistory`, for one runtime: `Spec` implies the `Spec` of `UndoHistory`.

The last three have the hypothesis `NamesApart`: no change writes an id the document
allocates.  The code does not check that (section 5), and without it they are false; the
instances of section 3 satisfy it.  The last two are false for several runtimes of one
document, which is finding 2.

A change and its undo are three loops each, of any length.  The proof has four layers.  *One operation*: `EraseIs` and its
likes say what an erase, update, insert or restore makes of a coherent document: `index`
leads to every object (`Leads`), ids are unique.  *A loop*: it leaves a trace from which its
rounds can be taken back; `RemovedAlong`, `ExchangedAlong` and `AddedAlong` say that there is
a sequence of contents, from the first to the last, in which each step is the removal,
exchange or addition of one recorded object (`EraseAll`, `UpdateAll`, `InsertAll`).  *The
loops of an undo*: each goes back along such a trace, the last step first (`TakeAll`,
`ExchangeAll`, `ReturnAll`); the exact position of an erased object comes back because
everything after it is taken back first.  *A record*: `LeadsBack` composes the three traces;
`ChangeApplied` shows it for a commit, `UndoApplied` uses it.  The invariant of the
document, `IndexInv`, adds that ids of objects are below `nextId` and that every record of
every runtime is well-formed (`Kept`); with one runtime, `HistoryInv` adds that record *i*
leads back from what the next commit found to what commit *i* found.  An undo therefore
ends at `log[n].found`, which is what `UndoHistory` says, and finds the ids it needs free,
which is `CommitUndoable`.

These loops are functions of the number of rounds, and induction over a *predicate* is out
of the prover's reach.  `Induction` is over a *set* of numbers and is proved from its least
element, which the library's well-founded order gives; there is one lemma for each of the
six operations, `ErasesRun` to `ReturnsRun`, which says that its loop has rounds.

`ObjectPool_proofs` proves, from `PoolAssumption`, for any capacity, threads, sizes of bulk
calls and numbers of generations that a handle tells apart, all three invariants that
`object_pool` checks:

- `ListStaysIntact`: the free list leads from the head through each free slot once.  A
  thread walks over slots that others may take, link anew and give back meanwhile.
  `Walking` makes the invariant inductive: a tag seen earlier is never ahead of the
  head's, so as long as the head equals the one seen, tag and all, the list is the one
  that was walked, and only then the swap succeeds;
- `NoSlotLost`: a slot has one owner.  A chain that a thread has taken or collected is
  linked as it will be pushed (`Chains`), and no other step touches its links (`Gentle`);
- `ReleaseIsExact`: a handle is never ahead of its slot's generation (`HandlesKnown`), and
  numbers that agree in the handle's bits are equal or a whole round apart
  (`SameBits`, from the division theorem).

Tags and generations count without end in the proof; the code's tag begins again after
2^32 changes of the head.

Only model-checked: liveness under fairness (`CallsReturn`, `EndReleasesWaiters`,
`EventuallyTaken`, `EventsWake`, `PostsAreDrained` and `StopEndsRun`), which the prover
does not handle, and the two properties that are violated.  Every other property of the
passing runs, invariant, action property or refinement, is stated by a theorem.  What the proofs do not say is that
anybody gets anywhere: `NobodyIsStranded` is about quiet moments, and that the calls
come to an end is `CallsReturn`.

## 5. Findings

1. **A stop request does not wake `NextBatch`** (`event_channel_stop`).  The callback
   notifies the epoch without changing it, and `std::atomic::wait` goes on waiting
   while the value is the old one.  `WhenReady` shows how to do it: its callback moves
   `readinessEpoch_` first.
2. **An undo of one runtime makes an older record of it valid again**
   (`documents_shared`).  One runtime commits A, another commits B, the first commits C
   and undoes it: `UndoLast` sets the record of A to the present version, so the next
   undo takes A back behind B, although the document has moved on since A
   (`CommandRuntime.h:1361`, against `CommandRuntime.md:184`).  With one runtime a document, `HistorySpec` holds.

What else the code does that a reader of its comments may not expect.  The models do the
same; the properties except these cases by name or the instances leave them out:

- *`AsyncQueue`, a cancelled batch* (`AsyncQueue.h:578`).  `CancelOperation` takes a parked
  batch off the list and does not look whether the next one fits: a single push behind
  it stays parked in front of a ring with room until another call serves the waiters.
  The instances that check `NobodyStranded` stop nothing that others may wait behind, and
  `NobodyIsStranded` has the hypothesis `CancelsSmall`, which excludes this case (section 4).
- *`AsyncQueue`, delayed stores* (`AsyncQueue.h:407`, `508`, `454`).  Close's release store of
  the lifecycle is not ordered before its load of the active producers, nor the store of
  the read cursor before the load of the waiting producers.  Where a processor delays the
  store (x86 does), a consumer can be told the end of the stream and a push succeed after
  it, and a producer can park in front of a ring with room.  The same holds of the
  sequence-cell rings, whose pop stores the cell's number with release order only
  (`RingBuffer.h:697`).  `StopIsFinal` and
  `NobodyStranded` are checked with stores that are seen at once.
- *`EventPump`, the end* (`EventPump.h:190`, `349`).  What is posted between the last drain
  and the look at the stop token is never drained; the comment promises otherwise.
  A drain goes on as long as others keep posting.  `Wake` on Linux does nothing yet.
- *`EventPump`, `SubmitResume`* (`EventPump.h:292`) terminates the program when the mailbox
  is full, and no bound in the code rules that out.
- *`EventPump`, `AddChannel`* (`EventPump.h:319`) appends to a vector that a broadcast may be
  walking.
- *`PlatformThread`, `RequestStop`* (`PlatformThread.cpp:123`): its store and load, and those of
  `Run`, have release and acquire order only, so each may miss the other and the request
  is lost; `StopEndsRun` begins where the request has reached the stop source.  A
  request that has loaded the bridge's address may use it after `Run` has returned
  (`hung` in the model).
- *`PlatformThread`, a failed start*: the managers' tasks are not joined when attaching
  fails.
- *`ConcurrentObjectPool`, `AcquireBulk`*: a constructor that throws leaves the rest of the
  chain off the list until `Clear` (`abandoned`).  `Deref` hands out a reference that a
  release on another thread may end at any time.
- *`EventPort`, budgets*: a persistent budget set while another thread's swap fails is
  worn down by it (against `EventPort.h:101`); `SetBudget` revives a canceled relation; a
  finite budget whose low 30 bits are all ones becomes persistent.  `EmitOn` to a receiver
  bound to its port cancels the relation.  A record's pointer to its owner is never
  reset (`EventPort.h:1360`).
- *`CommandRuntime`, identifiers* (`CommandRuntime.h:1163`): an allocated id `object:N` is not
  compared with ids chosen by clients; after a collision the index leads to only one of
  the two objects, and the commit on top may not be undone.

## 6. Not modelled, and the plan

Not modelled in the components above: the local ring (one thread, no ordering to get
wrong); the one-time issue of single ports and the counters of the observing
backpressure policy in `AsyncQueue`; more than one channel, managers' own state and
`AddChannel` in `EventPump`; statistics, `ForEach`, counts and `Deref` of the pool;
several types of event in one `EventPort`, the end of the emitting port and custom
lifetimes; sessions, key bindings and the compute graph of `CommandRuntime`, which are
control flow of one thread.  Wrap-around of 64-bit counters is not modelled.  Pool, port
and loop are sequentially consistent in the model except where section 2 says otherwise:
their compare-and-swaps are the points where threads meet.  That a single thread's
push or pop on a contended sequence ring comes to an end is not claimed: each
retry means that some other thread went on, and the code promises no more.

Hazards of the components that are not modelled yet: a torn read of `SeqLock`; a signal
lost between the two epochs of `SpscChannel`; the wrap of `SpscByteRing`'s 32-bit
cursors; two threads that grow the chain of `ConcurrentSlabArena` at once.

The larger part of the repository by lines is out of reach for good reasons: mathematics
and SIMD (floating point), reflection and layout (computed by the compiler), text and
data formats, tables of devices and surfaces, bindings of operating systems.
`PROJECT.json` has the reason for each.

The order of what comes next:

1. `SeqLock` against an atomic register; `SpscChannel` and `SpscByteRing` over
   `BoundedFifo`; `ConcurrentSlabArena`; Sora's render handle pool and resource registry;
2. Sora's structured logger and `AtomicFile`.
