----------------------------- MODULE AsyncQueue -----------------------------
(***************************************************************************)
(* Mashiro's AsyncQueue (Concurrency/AsyncQueue.h): senders that push to   *)
(* and pop from a bounded ring and park when they cannot, a close and an   *)
(* abort, and cancellation through stop tokens.  Calls try the ring        *)
(* without a lock first; parked operations wait in two FIFO lists under a  *)
(* mutex, and whoever changes the ring afterwards looks at an atomic count *)
(* of the waiters to decide whether to take the mutex and serve them.      *)
(*                                                                         *)
(* The ring is RingStorage.  Every access to an atomic variable, every     *)
(* lock and unlock and every storage access is a step of its own.          *)
(***************************************************************************)
EXTENDS RingStorage, FiniteSets

CONSTANTS
    Producers, Consumers,   \* threads that hold a port
    Topologies,             \* which of the ring's template parameters
    Controllers,            \* threads that call Close or Abort
    PushOps, PopOps,        \* operation states, each started at most once
    TryValues,              \* values offered to the port's TryPush
    Size,                   \* [PushOps -> Nat]: values in the (batch) push
    Limit,                  \* [PopOps -> Nat]: values the (batch) pop takes
    Policy,                 \* [PushOps -> {"Suspend", "Reject", "Drop"}]
    Retries,                \* [PushOps -> Nat]: budget before the policy
    Stoppable,              \* operations whose receiver has a stop token
    MayTryPop, MayAbort,    \* does a run call TryPop, Abort
    StoreBuffers,           \* are plain stores delayed (x86-TSO)
    None

Operations == PushOps \cup PopOps
Calls == Operations \cup TryValues
Elements == Calls \X (1 .. Capacity)   \* the ring's Values: parts of a push

(* The stop source of an operation is a thread of its own, named like it. *)
Threads == Producers \cup Consumers \cup Controllers \cup Stoppable

(* Calls, operations and threads have names of their own. *)
ASSUME NamesAssumption ==
    /\ PushOps \cap PopOps = {} /\ TryValues \cap Operations = {}
    /\ Operations \cap (Producers \cup Consumers \cup Controllers) = {}
    /\ None \notin Threads \cup Calls
    /\ None \notin {"start", "service", "close", "abort", "cancel", "Enqueued",
                    "Popped", "Stopped", "Closed", "Aborted", "TooLarge",
                    "Reject", "Drop"}

ASSUME QueueAssumption ==
    /\ Capacity # 1 /\ Values = Elements
    /\ Stoppable \subseteq Operations
    /\ Size \in [PushOps -> Nat] /\ Retries \in [PushOps -> Nat]
    /\ Limit \in [PopOps -> 1 .. Capacity]
    /\ Policy \in [PushOps -> {"Suspend", "Reject", "Drop"}]
    /\ {MayTryPop, MayAbort, StoreBuffers} \subseteq BOOLEAN

(* A run has finitely many of each, and a value is not named like a call.  *)
ASSUME FiniteAssumption ==
    /\ IsFiniteSet(Threads) /\ IsFiniteSet(Operations)
    /\ Elements \cap Calls = {}

(* Batch pushes exist only for the published-cursor ring, and delayed      *)
(* stores are modelled for it only.                                        *)
ASSUME TopologyAssumption ==
    /\ Topologies \subseteq {"Spsc", "Mpsc", "Spmc", "Mpmc"}
    /\ Topologies # {"Spsc"} => ~StoreBuffers /\ \A o \in PushOps : Size[o] = 1
    /\ StoreBuffers => Cardinality(Producers) <= 1 /\ Cardinality(Consumers) <= 1

VARIABLES
    topology,      \* of the ring: chosen once
    lifecycle,
    lock,          \* the thread that holds mutex_, or None
    active,        \* activeProducers_
    waiting,       \* waitingProducers_ and waitingConsumers_, by side
    pending,       \* pendingProducers_ and pendingConsumers_, by side
    op,            \* the operation states
    thread,        \* program counter and locals of each thread
    buffer,        \* each thread's stores that others do not see yet
    calls          \* history: what each thread's calls were, in order

waiters == <<waiting, pending>>
queueVars == <<lifecycle, lock, active, waiters>>
vars == <<topology, storageVars, queueVars, op, thread, buffer, calls>>

Topology == IF topology = "Spsc" THEN "PublishedCursor" ELSE "SequenceCell"
MultipleProducers == topology \in {"Mpsc", "Mpmc"}
MultipleConsumers == topology \in {"Spmc", "Mpmc"}

IsPush(x) == x \in PushOps \cup TryValues
SideOf(x) == IF IsPush(x) THEN "push" ELSE "pop"
Opposite(x) == IF IsPush(x) THEN "pop" ELSE "push"
SizeOf(x) == IF x \in TryValues THEN 1 ELSE Size[x]
LimitOf(x) == IF x = None THEN 1 ELSE Limit[x]
MaySuspend(x) == x \in PopOps \/ (x \in PushOps /\ Policy[x] = "Suspend")

(* Results that complete through set_error without a transfer. *)
Errors == {"Closed", "Aborted", "TooLarge"}

NewOperation == [phase |-> "Constructed", moved |-> << >>, budget |-> 0,
                 result |-> None, stop |-> FALSE, registered |-> FALSE,
                 signals |-> 0]

NewThread == [pc |-> "idle", goal |-> None, call |-> None, job |-> None,
              from |-> None, position |-> 0, ok |-> FALSE, progress |-> FALSE,
              done |-> << >>]

Init ==
    /\ topology \in Topologies
    /\ StorageInit
    /\ lifecycle = "Open" /\ lock = None /\ active = 0
    /\ waiting = [push |-> 0, pop |-> 0]
    /\ pending = [push |-> << >>, pop |-> << >>]
    /\ op = [o \in Operations |->
               [NewOperation EXCEPT
                  !.budget = IF o \in PushOps THEN Retries[o] ELSE 0]]
    /\ thread = [t \in Threads |-> NewThread]
    /\ buffer = [t \in Threads |-> << >>]
    /\ calls = [t \in Producers \cup Consumers |-> << >>]

At(t, label) == thread[t].pc = label
Call(t) == thread[t].call
Goto(t, label) == thread' = [thread EXCEPT ![t].pc = label]

(* An atomic read-modify-write, a lock or an unlock waits for the thread's *)
(* delayed stores; Flush lets the oldest of them be seen.                  *)
Fenced(t) == buffer[t] = << >>

Flush(t) ==
    /\ buffer[t] # << >>
    /\ buffer' = [buffer EXCEPT ![t] = Tail(@)]
    /\ LET store == Head(buffer[t]) IN
       IF store.variable = "lifecycle"
       THEN /\ lifecycle' = store.value
            /\ UNCHANGED <<lock, active, waiters, storageVars>>
       ELSE Free(store.value) /\ UNCHANGED queueVars
    /\ UNCHANGED <<topology, op, thread, calls>>

Delay(t, variable, value) ==
    buffer' = [buffer EXCEPT
                 ![t] = Append(@, [variable |-> variable, value |-> value])]

(* A thread sees its own delayed store of the lifecycle. *)
Lifecycle(t) ==
    IF \E i \in 1 .. Len(buffer[t]) : buffer[t][i].variable = "lifecycle"
    THEN buffer[t][CHOOSE i \in 1 .. Len(buffer[t]) :
                     buffer[t][i].variable = "lifecycle"].value
    ELSE lifecycle

(* Adapter::IsDrained: the two cursors are equal.  A single consumer's     *)
(* cursor is stored, not swapped, and its store may be delayed.            *)
IsDrained(t) ==
    /\ Claimed = taken
    /\ MultipleConsumers \/ \A u \in Threads \ {t} :
         \A i \in 1 .. Len(buffer[u]) : buffer[u][i].variable # "free"

(* Mutant: producers that are still inside are forgotten. *)
ClosedAndDrained(t) == Lifecycle(t) = "Closing" /\ IsDrained(t)

(* The end of the stream as the consumer side sees it. *)
ClosedAndEmpty(t) ==
    Lifecycle(t) = "Closing" /\ active = 0 /\ IsDrained(t)

-----------------------------------------------------------------------------
(* Starting a call.                                                        *)

(* The single side of a topology may be used by one thread at a time.      *)
Admitted(t, push) ==
    \/ IF push THEN MultipleProducers ELSE MultipleConsumers
    \/ \A u \in (IF push THEN Producers ELSE Consumers) \ {t} : At(u, "idle")

Committed(v) == \E i \in 1 .. Len(log) : log[i][1] = v

TryPush(p, v) ==
    /\ At(p, "idle") /\ Fenced(p) /\ Admitted(p, TRUE)
    /\ ~Committed(v) /\ \A t \in Threads : Call(t) # v
    /\ active' = active + 1
    /\ thread' = [thread EXCEPT ![p] =
                    [NewThread EXCEPT !.pc = "enter", !.goal = "service",
                                      !.call = v]]
    /\ UNCHANGED <<topology, storageVars, lifecycle, lock, waiters, op, buffer,
                   calls>>

(* The lifecycle and then the waiters are looked at before the ring. *)
TryPop(c) ==
    /\ MayTryPop /\ At(c, "idle") /\ Admitted(c, FALSE)
    /\ Lifecycle(c) # "Aborted"
    /\ thread' = [thread EXCEPT ![c] =
                    [NewThread EXCEPT !.pc = "poll", !.goal = "service"]]
    /\ UNCHANGED <<topology, storageVars, queueVars, op, buffer, calls>>

TryPopWaiting(c) ==
    /\ At(c, "poll")
    /\ thread' = [thread EXCEPT ![c] =
                    IF waiting.pop # 0 THEN NewThread
                    ELSE [@ EXCEPT !.pc = "pop", !.from = "poll"]]
    /\ UNCHANGED <<topology, storageVars, queueVars, op, buffer, calls>>

(* The caller found room being made, or nothing to pop on a closed queue. *)
TryPopAfter(c) ==
    /\ At(c, "polled")
    /\ thread' = [thread EXCEPT ![c] =
                    IF \/ thread[c].ok /\ waiting.push # 0
                       \/ ~thread[c].ok /\ Lifecycle(c) = "Closing"
                    THEN [@ EXCEPT !.pc = "lock"] ELSE NewThread]
    /\ UNCHANGED <<topology, storageVars, queueVars, op, buffer, calls>>

(* start(): the phase leaves Constructed once and for all. *)
Start(t, o) ==
    /\ At(t, "idle") /\ Admitted(t, IsPush(o))
    /\ t \in IF IsPush(o) THEN Producers ELSE Consumers
    /\ op[o].phase = "Constructed"
    /\ op' = [op EXCEPT ![o].phase = "Starting"]
    /\ thread' = [thread EXCEPT ![t] =
                    [NewThread EXCEPT !.call = o, !.goal = "start", !.ok = TRUE,
                       !.pc = IF o \in Stoppable THEN "token" ELSE "admit.fast"]]
    /\ calls' = [calls EXCEPT ![t] = Append(@, o)]
    /\ UNCHANGED <<topology, storageVars, queueVars, buffer>>

(* A stop requested before the start completes the operation at once. *)
CheckToken(t) ==
    /\ At(t, "token")
    /\ IF op[Call(t)].stop
       THEN /\ op' = [op EXCEPT ![Call(t)] =
                        [@ EXCEPT !.phase = "Completed", !.result = "Stopped",
                                  !.signals = op[Call(t)].signals + 1]]
            /\ thread' = [thread EXCEPT ![t] = NewThread]
       ELSE Goto(t, "register") /\ UNCHANGED op
    /\ UNCHANGED <<topology, storageVars, queueVars, buffer, calls>>

(* Registering the callback runs it in place if a stop came in between. *)
RegisterCallback(t) ==
    /\ At(t, "register")
    /\ IF op[Call(t)].stop
       THEN /\ thread' = [thread EXCEPT ![t].pc = "lock", ![t].goal = "cancel"]
            /\ UNCHANGED op
       ELSE /\ op' = [op EXCEPT ![Call(t)].registered = TRUE]
            /\ Goto(t, "begin")
    /\ UNCHANGED <<topology, storageVars, queueVars, buffer, calls>>

(* StartOperation, from its first line to the load of the lifecycle. *)
StartPhase(t) ==
    /\ At(t, "begin")
    /\ Goto(t, IF op[Call(t)].phase = "Starting" THEN "admit.fast" ELSE "refused")
    /\ UNCHANGED <<topology, storageVars, queueVars, op, buffer, calls>>

StartLifecycle(t) ==
    /\ At(t, "admit.fast")
    /\ Goto(t, IF IsPush(Call(t))
               THEN IF Lifecycle(t) = "Open" THEN "enter.fast" ELSE "lock"
               ELSE IF Lifecycle(t) # "Aborted" THEN "waiting" ELSE "lock")
    /\ UNCHANGED <<topology, storageVars, queueVars, op, buffer, calls>>

(* Mutant: the producer is not counted when it enters. *)
EnterUncounted(t) ==
    /\ At(t, "enter.fast") /\ Fenced(t)
    /\ Goto(t, "enter")
    /\ UNCHANGED <<topology, storageVars, queueVars, op, buffer, calls>>

(* EnterProducer: count first, then look whether the queue is still open. *)
EnterProducer(t) ==
    /\ At(t, "enter.fast") /\ Fenced(t)
    /\ active' = active + 1
    /\ Goto(t, "enter")
    /\ UNCHANGED <<topology, storageVars, lifecycle, lock, waiters, op, buffer,
                   calls>>

EnterOpen(t) ==
    /\ At(t, "enter")
    /\ thread' = [thread EXCEPT ![t] =
                    IF Lifecycle(t) = "Open" THEN [@ EXCEPT !.pc = "waiting"]
                    ELSE [@ EXCEPT !.pc = "leave", !.ok = FALSE]]
    /\ UNCHANGED <<topology, storageVars, queueVars, op, buffer, calls>>

(* Mutant: a call tries the ring although others wait for their turn. *)
Overtakes(x) == FALSE

Behind(x) == waiting[SideOf(x)] # 0

(* Behind waiters of its own side a call may not touch the ring; one that  *)
(* may not park resolves its backpressure here.                            *)
FastPath(t) ==
    /\ At(t, "waiting")
    /\ LET x == Call(t)
           resolves == x \in PushOps /\ ~MaySuspend(x) IN
       /\ thread' = [thread EXCEPT ![t] =
            IF Behind(x)
            THEN [@ EXCEPT !.pc = IF IsPush(x) THEN "leave" ELSE "lock",
                           !.ok = resolves \/ ~IsPush(x)]
            ELSE [@ EXCEPT !.pc = SideOf(x), !.job = x, !.from = "fast"]]
       /\ op' = IF Behind(x) /\ resolves
                THEN [op EXCEPT ![x].result = Policy[x], ![x].budget = 0]
                ELSE op
    /\ UNCHANGED <<topology, storageVars, queueVars, buffer, calls>>
-----------------------------------------------------------------------------
(* The transfer of a push or a pop, on the thread that runs it.            *)

(* Where the thread goes on, by the place it tried the transfer from; a    *)
(* transfer under the lock is settled by an error as well as a success.    *)
Clear(th) == [th EXCEPT !.job = None, !.from = None, !.position = 0]

(* ProgressLocked looks at the front of one list and then of the other,    *)
(* and starts over if either moved; the sweep for the end of the stream    *)
(* comes last.  The lists are the lock holder's own: an empty one is       *)
(* passed over without a step.                                             *)
Scan(th, lists) ==
    [Clear(th) EXCEPT !.progress = FALSE,
                      !.pc = IF lists.push # << >> THEN "front.push"
                             ELSE IF lists.pop # << >> THEN "front.pop"
                             ELSE "unlock"]

AfterFront(th, side, lists) ==
    IF side = "push" /\ lists.pop # << >>
    THEN [Clear(th) EXCEPT !.pc = "front.pop"]
    ELSE IF th.progress THEN Scan(th, lists)
    ELSE [Clear(th) EXCEPT !.pc = IF lists.pop # << >> THEN "sweep" ELSE "unlock"]

Back(th, result) ==
    LET success == result \notin {None, "TooLarge"}
        settled == result # None IN
    CASE th.from = "fast" /\ IsPush(th.job) ->
           [Clear(th) EXCEPT !.pc = "leave", !.ok = success]
      [] th.from = "fast" /\ ~IsPush(th.job) ->
           [Clear(th) EXCEPT !.pc = IF success THEN "wake" ELSE "lock"]
      [] th.from = "poll" -> [Clear(th) EXCEPT !.pc = "polled", !.ok = success]
      [] th.from = "reserved" ->
           [th EXCEPT !.pc = IF settled THEN "settle" ELSE "park"]
      [] th.from = "front" ->
           IF settled THEN [th EXCEPT !.pc = "drop"]
           ELSE AfterFront(th, SideOf(th.job), pending)

(* The attempt is over, with a result or None to be tried again later. *)
Conclude(t, result) ==
    LET job == thread[t].job IN
    /\ thread' = [thread EXCEPT ![t] = Back(@, result)]
    /\ op' = IF job \in Operations /\ result # None
             THEN [op EXCEPT ![job].result = result] ELSE op

Pushed(x) == Cardinality({i \in 1 .. Len(log) : log[i][1] = x})

(* Room for what is left of x: for its last element, that is. *)
RoomFor(x) ==
    LET last == Claimed + SizeOf(x) - Pushed(x) - 1 IN
    last < Capacity \/ last - Capacity \in freed

Oversized(x) == SizeOf(x) > Capacity

(* A published ring: a batch is admitted whole and pushed one by one.      *)
PushElement(t) ==
    LET x == thread[t].job
        last == Pushed(x) + 1 = SizeOf(x) IN
    /\ At(t, "push") /\ Topology = "PublishedCursor"
    /\ ~Oversized(x) /\ SizeOf(x) > 0 /\ RoomFor(x)
    /\ PushAtOnce(<<x, Pushed(x) + 1>>)
    /\ IF last THEN Conclude(t, "Enqueued") ELSE UNCHANGED <<thread, op>>
    /\ calls' = IF x \in TryValues THEN [calls EXCEPT ![t] = Append(@, x)]
                                   ELSE calls
    /\ UNCHANGED <<topology, queueVars, buffer>>

PushClaim(t) ==
    LET x == thread[t].job IN
    /\ At(t, "push") /\ Topology = "SequenceCell"
    /\ HasRoom /\ Claim(<<x, 1>>)
    /\ thread' = [thread EXCEPT ![t].pc = "publish", ![t].position = Claimed]
    /\ calls' = IF x \in TryValues THEN [calls EXCEPT ![t] = Append(@, x)]
                                   ELSE calls
    /\ UNCHANGED <<topology, queueVars, op, buffer>>

PushPublish(t) ==
    /\ At(t, "publish")
    /\ Publish(thread[t].position)
    /\ Conclude(t, "Enqueued")
    /\ UNCHANGED <<topology, queueVars, buffer, calls>>

(* ResolvePush without a committed value: an oversized or an empty batch,  *)
(* or no room, which costs a retry or is what the policy is asked about.   *)
PushUnplaced(t) ==
    LET x == thread[t].job IN
    /\ At(t, "push")
    /\ \/ Oversized(x) /\ Conclude(t, "TooLarge")
       \/ SizeOf(x) = 0 /\ Conclude(t, "Enqueued")
       \/ /\ ~Oversized(x) /\ SizeOf(x) > 0 /\ ~RoomFor(x)
          /\ IF x \in PushOps /\ op[x].budget > 0
             THEN op' = [op EXCEPT ![x].budget = @ - 1] /\ UNCHANGED thread
             ELSE Conclude(t, IF x \in TryValues \/ MaySuspend(x)
                              THEN None ELSE Policy[x])
    /\ UNCHANGED <<topology, storageVars, queueVars, buffer, calls>>

(* The consumer has moved the head out: into its operation, or TryPop's    *)
(* result.  full: a batch that holds all it may is not tried further.      *)
MoveHead(t) ==
    LET x == thread[t].job
        full == x = None \/ Len(op[x].moved) + 1 = LimitOf(x)
        next == IF full THEN Back(thread[t], "Popped")
                        ELSE [thread[t] EXCEPT !.pc = "pop"] IN
    /\ thread' = [thread EXCEPT ![t] =
          IF At(t, "pop") /\ Topology = "SequenceCell"
          THEN [@ EXCEPT !.pc = "pop.free", !.position = taken] ELSE next]
    /\ IF x = None
       THEN op' = op /\ calls' = [calls EXCEPT ![t] = Append(@, log[taken + 1])]
       ELSE /\ op' = [op EXCEPT ![x].moved = Append(@, log[taken + 1]),
                                ![x].result = "Popped"]
            /\ calls' = calls

(* SPSC: the store of the read cursor takes the element and gives back its *)
(* slot, but others may see it late.                                       *)
PopElement(t) ==
    /\ At(t, "pop") /\ Topology = "PublishedCursor"
    /\ IF StoreBuffers THEN Take /\ Delay(t, "free", taken)
                       ELSE PopAtOnce /\ UNCHANGED buffer
    /\ MoveHead(t)
    /\ UNCHANGED <<topology, queueVars>>

(* Several consumers take first and give the cell back afterwards. *)
PopTake(t) ==
    /\ At(t, "pop") /\ MultipleConsumers
    /\ Take /\ MoveHead(t)
    /\ UNCHANGED <<topology, queueVars, buffer>>

PopFree(t) ==
    /\ At(t, "pop.free")
    /\ LET x == thread[t].job IN
       thread' = [thread EXCEPT ![t] =
         IF x = None \/ Len(op[x].moved) = LimitOf(x) THEN Back(@, "Popped")
                                               ELSE [@ EXCEPT !.pc = "pop"]]
    /\ Free(thread[t].position)
    /\ UNCHANGED <<topology, queueVars, op, buffer, calls>>

(* A single consumer of a sequence ring does it the other way round. *)
PopRelease(t) ==
    /\ At(t, "pop") /\ Topology = "SequenceCell" /\ ~MultipleConsumers
    /\ HasItem /\ Free(taken)
    /\ Goto(t, "pop.advance")
    /\ UNCHANGED <<topology, queueVars, op, buffer, calls>>

PopAdvance(t) ==
    /\ At(t, "pop.advance")
    /\ Take /\ MoveHead(t)
    /\ UNCHANGED <<topology, queueVars, buffer>>

(* Nothing more to take: a success if the batch has something. *)
PopNothing(t) ==
    LET x == thread[t].job IN
    /\ At(t, "pop") /\ ~HasItem
    /\ Conclude(t, IF x # None /\ op[x].moved # << >> THEN "Popped" ELSE None)
    /\ UNCHANGED <<topology, storageVars, queueVars, buffer, calls>>
-----------------------------------------------------------------------------
(* Leaving the lock-free path.                                             *)

(* Mark the call's own operation and list it for completion. *)
MarkCompleting(x, result) ==
    op' = [op EXCEPT ![x].phase = "Completing", ![x].result = result]

(* Back to the caller once the completions are delivered: a start that a   *)
(* stop overtook still has to be completed, and a callback run in place    *)
(* returns into the start.                                                 *)
Return(t, th) ==
    IF th.done # << >> THEN [th EXCEPT !.pc = "complete"]
    ELSE IF th.goal = "start" /\ ~th.ok THEN [th EXCEPT !.pc = "refused"]
    ELSE IF th.goal = "cancel" /\ t \notin Stoppable
    THEN [th EXCEPT !.pc = "begin", !.goal = "start"]
    ELSE NewThread

Finish(t, service) ==
    LET x == Call(t)
        listed == IF x \in Operations THEN <<x>> ELSE << >>
        next == [thread[t] EXCEPT !.done = listed, !.goal = "service"] IN
    /\ thread' = [thread EXCEPT ![t] =
         IF service THEN [next EXCEPT !.pc = "lock"] ELSE Return(t, next)]
    /\ op' = IF x \in Operations
             THEN [op EXCEPT ![x].phase = "Completing"] ELSE op

Depart(t, service) ==
    IF thread[t].goal = "start" /\ ~thread[t].ok
    THEN /\ thread' = [thread EXCEPT ![t].pc = "lock", ![t].ok = TRUE]
         /\ UNCHANGED op
    ELSE IF service THEN Finish(t, TRUE)
    ELSE /\ thread' = [thread EXCEPT ![t] = IF @.ok THEN [@ EXCEPT !.pc = "wake"]
                                                   ELSE NewThread]
         /\ UNCHANGED op

(* LeaveProducer: the last one out looks whether the queue is closing. *)
LeaveProducer(t) ==
    /\ At(t, "leave") /\ Fenced(t)
    /\ active' = active - 1
    /\ IF active = 1 THEN Goto(t, "left") /\ UNCHANGED op
                     ELSE Depart(t, FALSE)
    /\ UNCHANGED <<topology, storageVars, lifecycle, lock, waiters, buffer,
                   calls>>

(* Mutant: the last producer out does not look. *)
LeftUnseen(t) ==
    At(t, "left") /\ Depart(t, FALSE)
    /\ UNCHANGED <<topology, storageVars, queueVars, buffer, calls>>

LastProducerLeft(t) ==
    /\ At(t, "left")
    /\ Depart(t, Lifecycle(t) = "Closing")
    /\ UNCHANGED <<topology, storageVars, queueVars, buffer, calls>>

(* Mutant: nobody on the other side is woken. *)
WakeNobody(t) ==
    At(t, "wake") /\ Finish(t, FALSE)
    /\ UNCHANGED <<topology, storageVars, queueVars, buffer, calls>>

(* After a transfer: is anyone waiting on the other side? *)
Wake(t) ==
    /\ At(t, "wake")
    /\ Finish(t, waiting[Opposite(Call(t))] # 0)
    /\ UNCHANGED <<topology, storageVars, queueVars, buffer, calls>>

-----------------------------------------------------------------------------
(* Under the lock.                                                         *)

Entrance == [start |-> "admit", close |-> "close", abort |-> "abort",
             cancel |-> "cancel"]

Lock(t) ==
    /\ At(t, "lock") /\ lock = None /\ Fenced(t)
    /\ lock' = t
    /\ thread' = [thread EXCEPT ![t] =
         IF @.goal = "service" THEN Scan(@, pending)
                               ELSE [@ EXCEPT !.pc = Entrance[thread[t].goal]]]
    /\ UNCHANGED <<topology, storageVars, lifecycle, active, waiters, op, buffer,
                   calls>>

Unlock(t) ==
    /\ At(t, "unlock") /\ Fenced(t)
    /\ lock' = None
    /\ thread' = [thread EXCEPT ![t] = Return(t, @)]
    /\ UNCHANGED <<topology, storageVars, lifecycle, active, waiters, op, buffer,
                   calls>>

(* Why x is not to be transferred, or None. *)
Refusal(t, x) ==
    IF Lifecycle(t) = "Aborted" THEN "Aborted"
    ELSE IF IsPush(x) /\ Lifecycle(t) = "Closing" THEN "Closed"
    ELSE IF ~IsPush(x) /\ ClosedAndEmpty(t) THEN "Stopped"
    ELSE IF op[x].result = "TooLarge" THEN "TooLarge"
    ELSE None

Settled(t, x, result) ==
    /\ MarkCompleting(x, result)
    /\ thread' = [thread EXCEPT ![t] =
                    Scan([@ EXCEPT !.done = Append(thread[t].done, x)], pending)]

Transfer(t, x, from) ==
    thread' = [thread EXCEPT ![t].pc = SideOf(x), ![t].job = x,
                             ![t].from = from]

(* The stop came first: the start has failed, the waiters are served. *)
AdmitStopped(t) ==
    /\ At(t, "admit") /\ op[Call(t)].phase # "Starting"
    /\ thread' = [thread EXCEPT ![t] = Scan([@ EXCEPT !.ok = FALSE], pending)]
    /\ UNCHANGED <<topology, storageVars, queueVars, op, buffer, calls>>

AdmitRefused(t) ==
    LET x == Call(t) IN
    /\ At(t, "admit") /\ op[x].phase = "Starting"
    /\ Refusal(t, x) # None
    /\ Settled(t, x, Refusal(t, x))
    /\ UNCHANGED <<topology, storageVars, queueVars, buffer, calls>>

HasOlder(x) == pending[SideOf(x)] # << >>

(* Count the waiter first, so that whoever changes the ring from now on    *)
(* serves it, then try the ring once more.  An operation that may not      *)
(* suspend has been resolved, or refused, before it gets here.             *)
AdmitReserved(t) ==
    LET x == Call(t) IN
    /\ At(t, "admit") /\ op[x].phase = "Starting"
    /\ Refusal(t, x) = None
    /\ waiting' = [waiting EXCEPT ![SideOf(x)] = @ + 1]
    /\ IF HasOlder(x) THEN Goto(t, "park") ELSE Transfer(t, x, "reserved")
    /\ UNCHANGED <<topology, storageVars, lifecycle, lock, active, pending, op,
                   buffer,
                   calls>>

Settle(t) ==
    LET x == Call(t) IN
    /\ At(t, "settle") /\ Fenced(t)
    /\ Settled(t, x, op[x].result)
    /\ waiting' = [waiting EXCEPT ![SideOf(x)] = @ - 1]
    /\ UNCHANGED <<topology, storageVars, lifecycle, lock, active, pending,
                   buffer, calls>>

Park(t) ==
    LET x == Call(t) IN
    /\ At(t, "park")
    /\ op' = [op EXCEPT ![x].phase = "Pending"]
    /\ pending' = [pending EXCEPT ![SideOf(x)] = Append(@, x)]
    /\ thread' = [thread EXCEPT ![t] = Scan(@, pending')]
    /\ UNCHANGED <<topology, storageVars, lifecycle, lock, active, waiting,
                   buffer, calls>>

(* TryCompleteFrontLocked *)
Front(t, side) ==
    LET x == Head(pending[side])
        refusal == Refusal(t, x) IN
    /\ At(t, IF side = "push" THEN "front.push" ELSE "front.pop")
    /\ IF refusal = None THEN Transfer(t, x, "front") /\ UNCHANGED op
       ELSE /\ op' = [op EXCEPT ![x].result = refusal]
            /\ thread' = [thread EXCEPT ![t].pc = "drop", ![t].job = x]
    /\ UNCHANGED <<topology, storageVars, queueVars, buffer, calls>>

Drop(t) ==
    LET x == thread[t].job
        side == SideOf(x) IN
    /\ At(t, "drop") /\ Fenced(t)
    /\ pending' = [pending EXCEPT ![side] = Tail(@)]
    /\ waiting' = [waiting EXCEPT ![side] = @ - 1]
    /\ MarkCompleting(x, op[x].result)
    /\ thread' = [thread EXCEPT ![t] =
                    AfterFront([@ EXCEPT !.progress = TRUE,
                                         !.done = Append(thread[t].done, x)],
                               side, pending')]
    /\ UNCHANGED <<topology, storageVars, lifecycle, lock, active, buffer, calls>>

(* StopConsumersIfClosedAndEmptyLocked *)
Sweep(t) ==
    /\ At(t, "sweep")
    /\ Goto(t, IF ClosedAndEmpty(t) THEN "sweep.all" ELSE "unlock")
    /\ UNCHANGED <<topology, storageVars, queueVars, op, buffer, calls>>

(* DrainAllLocked on some of the lists. *)
DrainAll(t, sides, result) ==
    LET drained(side) == IF side \in sides THEN pending[side] ELSE << >>
        all == drained("push") \o drained("pop")
        listed == thread[t].done \o all
        Listed(x) == \E i \in 1 .. Len(all) : all[i] = x IN
    /\ Fenced(t) \/ all = << >>
    /\ pending' = [side \in {"push", "pop"} |->
                     IF side \in sides THEN << >> ELSE pending[side]]
    /\ waiting' = [side \in {"push", "pop"} |->
                     waiting[side] - Len(drained(side))]
    /\ op' = [x \in Operations |->
                IF Listed(x) THEN [op[x] EXCEPT !.phase = "Completing",
                                                !.result = result]
                             ELSE op[x]]
    /\ thread' = [thread EXCEPT ![t] =
                    IF "pop" \in sides
                    THEN [@ EXCEPT !.done = listed, !.pc = "unlock"]
                    ELSE Scan([@ EXCEPT !.done = listed], pending')]
    /\ UNCHANGED <<topology, storageVars, lifecycle, lock, active, buffer, calls>>

StopConsumers(t) ==
    At(t, "sweep.all") /\ DrainAll(t, {"pop"}, "Stopped")

-----------------------------------------------------------------------------
(* Close, Abort (and the destructor, which aborts) and the stop requests.  *)

EndQueue(k, goal) ==
    /\ At(k, "idle")
    /\ thread' = [thread EXCEPT ![k] =
                    [NewThread EXCEPT !.pc = "lock", !.goal = goal]]
    /\ UNCHANGED <<topology, storageVars, queueVars, op, buffer, calls>>

(* Calls that find nothing to do are left out unless they race. *)
Close(k) == lifecycle = "Open" /\ EndQueue(k, "close")
Abort(k) == MayAbort /\ lifecycle # "Aborted" /\ EndQueue(k, "abort")

SetLifecycle(t) ==
    LET goal == thread[t].goal
        target == IF goal = "close" THEN "Closing" ELSE "Aborted"
        returns == IF goal = "close" THEN lifecycle # "Open"
                                     ELSE lifecycle = "Aborted" IN
    /\ At(t, "close") \/ At(t, "abort")
    /\ Goto(t, IF returns THEN "unlock" ELSE "fail")
    /\ IF returns THEN UNCHANGED <<lifecycle, buffer>>
       ELSE IF StoreBuffers
       THEN Delay(t, "lifecycle", target) /\ UNCHANGED lifecycle
       ELSE lifecycle' = target /\ UNCHANGED buffer
    /\ UNCHANGED <<topology, storageVars, lock, active, waiters, op, calls>>

FailPending(t) ==
    /\ At(t, "fail")
    /\ IF thread[t].goal = "close"
       THEN DrainAll(t, {"push"}, "Closed")
       ELSE DrainAll(t, {"push", "pop"}, "Aborted")

ListedIn(s, x) == \E i \in 1 .. Len(s) : s[i] = x

(* The list of waiters with x taken out, wherever it stands. *)
Without(s, x) ==
    LET at == CHOOSE i \in 1 .. Len(s) : s[i] = x IN
    IF ListedIn(s, x)
    THEN [i \in 1 .. Len(s) - 1 |-> IF i < at THEN s[i] ELSE s[i + 1]] ELSE s

(* The stop source of x asks for a stop and runs the callback, if any. *)
RequestStop(x) ==
    /\ At(x, "idle") /\ ~op[x].stop
    /\ op' = [op EXCEPT ![x].stop = TRUE]
    /\ IF op[x].registered
       THEN thread' = [thread EXCEPT ![x] =
              [NewThread EXCEPT !.pc = "lock", !.goal = "cancel", !.call = x]]
       ELSE UNCHANGED thread
    /\ UNCHANGED <<topology, storageVars, queueVars, buffer, calls>>

(* Mutant: an operation that is being completed is cancelled once more. *)
NotCompleted(x) == op[x].phase \in {"Pending", "Completing"}

Cancellable(x) == op[x].phase = "Pending"

CancelOperation(t) ==
    LET x == Call(t)
        side == SideOf(x) IN
    /\ At(t, "cancel")
    /\ IF Cancellable(x)
       THEN /\ pending' = [pending EXCEPT ![side] =
                             Without(@, x)]
            /\ waiting' = [waiting EXCEPT ![side] = @ - 1]
            /\ MarkCompleting(x, "Stopped")
            /\ thread' = [thread EXCEPT ![t].pc = "unlock", ![t].done = <<x>>]
       ELSE /\ Goto(t, IF op[x].phase = "Starting" THEN "mark" ELSE "unlock")
            /\ UNCHANGED <<waiters, op>>
    /\ UNCHANGED <<topology, storageVars, lifecycle, lock, active, buffer, calls>>

(* The starting thread may have gone on since the phase was loaded. *)
MarkStopRequested(t) ==
    /\ At(t, "mark")
    /\ op' = [op EXCEPT ![Call(t)].phase = "StopRequested"]
    /\ Goto(t, "unlock")
    /\ UNCHANGED <<topology, storageVars, queueVars, buffer, calls>>

-----------------------------------------------------------------------------
(* Completing, outside the lock.                                           *)

(* Mutant: the thread that runs the callback waits for it as well. *)
CallbackDoneAnywhere(t, x) == x \in Stoppable => At(x, "idle")

(* Releasing the stop callback waits for one that runs on another thread.  *)
CallbackDone(t, x) == x \in Stoppable \ {t} => At(x, "idle")

Signal(x, result) ==
    op' = [op EXCEPT ![x].phase = "Completed", ![x].result = result,
                     ![x].registered = FALSE, ![x].signals = @ + 1]

(* Mutant: the lifecycle at the end decides, not the transfer. *)
SignalledLate(x, result) ==
    Signal(x, IF lifecycle = "Open" THEN result
              ELSE IF IsPush(x) THEN "Closed" ELSE "Stopped")

(* CompleteAll: the receiver is told what was decided under the lock. *)
Signalled(x, result) == Signal(x, result)

Complete(t) ==
    LET x == Head(thread[t].done) IN
    /\ At(t, "complete")
    /\ CallbackDone(t, x)
    /\ Signalled(x, op[x].result)
    /\ thread' = [thread EXCEPT ![t] = Return(t, [@ EXCEPT !.done = Tail(thread[t].done)])]
    /\ UNCHANGED <<topology, storageVars, queueVars, buffer, calls>>

(* CompleteStopRequestedAfterRegistration *)
StartRefused(t) ==
    LET x == Call(t) IN
    /\ At(t, "refused")
    /\ CallbackDone(t, x)
    /\ IF op[x].phase = "StopRequested" THEN Signalled(x, "Stopped")
                                        ELSE UNCHANGED op
    /\ thread' = [thread EXCEPT ![t] = NewThread]
    /\ UNCHANGED <<topology, storageVars, queueVars, buffer, calls>>
-----------------------------------------------------------------------------
(* The steps of a thread inside a call; Begin is the only step out of it.  *)
Begin(t) ==
    \/ t \in Producers /\ \E v \in TryValues : TryPush(t, v)
    \/ t \in Consumers /\ TryPop(t)
    \/ \E o \in Operations : Start(t, o)

CallStep(t) ==
    \/ TryPopWaiting(t) \/ TryPopAfter(t)
    \/ CheckToken(t) \/ RegisterCallback(t) \/ StartPhase(t)
    \/ StartLifecycle(t) \/ EnterProducer(t) \/ EnterOpen(t) \/ FastPath(t)
    \/ LeaveProducer(t) \/ LastProducerLeft(t) \/ Wake(t)
    \/ StartRefused(t)

TransferStep(t) ==
    \/ PushElement(t) \/ PushClaim(t) \/ PushPublish(t) \/ PushUnplaced(t)
    \/ PopElement(t) \/ PopTake(t) \/ PopFree(t) \/ PopRelease(t)
    \/ PopAdvance(t) \/ PopNothing(t)

LockedStep(t) ==
    \/ AdmitStopped(t) \/ AdmitRefused(t) \/ AdmitReserved(t)
    \/ Settle(t) \/ Park(t)
    \/ \E side \in {"push", "pop"} : Front(t, side)
    \/ Drop(t) \/ Sweep(t) \/ StopConsumers(t)
    \/ SetLifecycle(t) \/ FailPending(t)
    \/ CancelOperation(t) \/ MarkStopRequested(t) \/ Unlock(t)

Next ==
    \/ \E t \in Producers \cup Consumers : Begin(t)
    \/ \E k \in Controllers : Close(k) \/ Abort(k)
    \/ \E x \in Stoppable : RequestStop(x)
    \/ \E t \in Threads : CallStep(t) \/ TransferStep(t) \/ Lock(t)
                          \/ LockedStep(t) \/ Complete(t) \/ Flush(t)

Spec == Init /\ [][Next]_vars

(* Threads inside a call are scheduled, delayed stores become visible, and *)
(* the mutex is granted to a thread that keeps asking.  Nobody is obliged  *)
(* to start a call, to close the queue or to request a stop.               *)
Scheduled ==
    \A t \in Threads :
        /\ WF_vars(CallStep(t) \/ TransferStep(t) \/ LockedStep(t)
                                        \/ Complete(t) \/ Flush(t))
        /\ SF_vars(Lock(t))

FairSpec == Spec /\ Scheduled

-----------------------------------------------------------------------------
Phases == {"Constructed", "Starting", "StopRequested", "Pending",
           "Completing", "Completed"}
Results == Errors \cup {None, "Enqueued", "Popped", "Stopped", "Reject", "Drop"}

TypeOK ==
    /\ StorageTypeOK /\ topology \in Topologies
    /\ lifecycle \in {"Open", "Closing", "Aborted"}
    /\ lock \in Threads \cup {None}
    /\ active \in 0 .. Cardinality(Threads)
    /\ waiting \in [{"push", "pop"} -> 0 .. Cardinality(Operations)]
    /\ pending.push \in Seq(PushOps) /\ pending.pop \in Seq(PopOps)
    /\ \A o \in Operations :
         /\ op[o].phase \in Phases /\ op[o].result \in Results
         /\ op[o].moved \in Seq(Elements) /\ op[o].budget \in Nat
         /\ op[o].signals \in Nat
         /\ {op[o].stop, op[o].registered} \subseteq BOOLEAN
    /\ \A t \in Threads : thread[t].done \in Seq(Operations)

(* Whoever still holds a reference to an operation and may touch it: a     *)
(* waiter list, a completion list, a transfer or its own start.            *)
Referenced(o) ==
    \/ ListedIn(pending[SideOf(o)], o)
    \/ \E t \in Threads :
         \/ ListedIn(thread[t].done, o)
         \/ thread[t].job = o /\ thread[t].pc \in
              {"push", "publish", "pop", "pop.free", "pop.advance", "drop"}
         \/ thread[t].call = o /\ thread[t].pc \in
              {"admit", "park", "settle", "leave", "left", "wake", "refused",
               "cancel", "mark", "waiting", "admit.fast"}

(* The receiver is told once, and after that nobody touches the operation: *)
(* it may be destroyed at once.  Cancellation races the start, the waiter  *)
(* service and Close for the same operation.                               *)
CompletesOnce ==
    \A o \in Operations :
        /\ op[o].signals <= 1
        /\ op[o].signals = 1 => ~Referenced(o)

(* The counters the lock-free paths look at never hide a parked operation, *)
(* and agree with the lists whenever the lock is free.                     *)
WaitersCounted ==
    \A side \in {"push", "pop"} :
        /\ waiting[side] >= Len(pending[side])
        /\ lock = None => waiting[side] = Len(pending[side])

(* A push is told Enqueued exactly if its values went into the ring, all   *)
(* of them and one after the other; a rejected, dropped, closed, aborted   *)
(* or stopped push left none.  One that may not suspend is never parked,   *)
(* although it goes the same way as one that may.                          *)
PushesCommitOnce ==
    \A o \in PushOps :
      /\ ~MaySuspend(o) => op[o].phase # "Pending"
      /\ op[o].signals = 1 =>
        LET mine == {i \in 1 .. Len(log) : log[i][1] = o} IN
        IF op[o].result = "Enqueued"
        THEN /\ Cardinality(mine) = Size[o]
             /\ \A i, j \in mine : /\ j - i < Size[o]
                                   /\ i < j <=> log[i][2] < log[j][2]
        ELSE mine = {}

(* What a call took from the ring: a TryPop is known by its value, and a   *)
(* push took nothing.                                                      *)
TakenBy(x) == IF x \in PopOps THEN op[x].moved
              ELSE IF x \in Elements THEN <<x>> ELSE << >>

(* Nothing is lost: what was taken from the ring is in the hands of a pop  *)
(* that completed with it, or will, or of a TryPop; and of one only.       *)
NothingLost ==
    /\ \A i \in 1 .. taken :
         Cardinality({o \in PopOps : ListedIn(op[o].moved, log[i])})
         + Cardinality({c \in Consumers : ListedIn(calls[c], log[i])}) = 1
    /\ \A o \in PopOps : op[o].signals = 1 =>
         (op[o].result = "Popped" <=> op[o].moved # << >>)

Position(e) == CHOOSE i \in 1 .. Len(log) : log[i] = e

(* Each producer's values enter the ring in the order of its calls, and    *)
(* each consumer's calls get values in the order they were made, although  *)
(* some calls succeed at once and others are served later, by others.      *)
CallsInOrder ==
    /\ \A p \in Producers : \A i, j \in 1 .. Len(calls[p]) : i < j =>
         \A m, n \in 1 .. Len(log) :
           log[m][1] = calls[p][i] /\ log[n][1] = calls[p][j] => m < n
    /\ \A c \in Consumers : \A i, j \in 1 .. Len(calls[c]) : i < j =>
         \A m \in 1 .. Len(TakenBy(calls[c][i])),
            n \in 1 .. Len(TakenBy(calls[c][j])) :
           Position(TakenBy(calls[c][i])[m]) < Position(TakenBy(calls[c][j])[n])

(* The single-producer and single-consumer storages are entered by one     *)
(* thread at a time on that side, although waiters are served by whichever *)
(* thread holds the lock.                                                  *)
OneAtATime ==
    /\ ~MultipleProducers =>
         Cardinality({t \in Threads : thread[t].pc \in {"push", "publish"}}) <= 1
    /\ ~MultipleConsumers =>
         Cardinality({t \in Threads :
                        thread[t].pc \in {"pop", "pop.free", "pop.advance"}}) <= 1

(* A consumer is told the end of the stream only when it has come: the     *)
(* queue is closed, all values have been taken and no later push succeeds. *)
EndOfStream(o) ==
    /\ o \in PopOps /\ op[o].result = "Stopped" /\ ~op[o].stop
    /\ op[o].signals = 1

StopIsFinal ==
    (\E o \in PopOps : EndOfStream(o)) => taken = Claimed /\ lifecycle # "Open"

(* When every thread is between calls, whoever is parked has a reason: the *)
(* queue is open and full, or empty and not at its end.                    *)
Quiescent == \A t \in Threads : At(t, "idle") /\ buffer[t] = << >>

NobodyStranded ==
    Quiescent =>
      /\ pending.push # << >> =>
           lifecycle = "Open" /\ ~RoomFor(Head(pending.push))
      /\ pending.pop # << >> =>
           /\ ~HasItem /\ lifecycle # "Aborted"
           /\ \A t \in Threads : ~ClosedAndEmpty(t)

(* Every call into the queue returns: the lock, the retries, the service   *)
(* loop and the wait for a running stop callback all come to an end.       *)
CallsReturn == \A t \in Threads : ~At(t, "idle") ~> At(t, "idle")

(* Once the queue is closed or aborted, every operation that was started   *)
(* completes; the rest of the stream is not needed for that.               *)
EndReleasesWaiters ==
    \A o \in Operations :
        lifecycle # "Open" /\ op[o].phase = "Pending" ~> op[o].signals = 1
=============================================================================
