------------------------------ MODULE EventPort ------------------------------
(***************************************************************************)
(* Sora's EventPort (Core/EventPort.h): the relations of one emitting port *)
(* to its receivers.  Emissions walk a snapshot of the relations while     *)
(* others connect, disconnect, suspend and change budgets; a deferred      *)
(* emission selects its callbacks at once and runs them later.  One type   *)
(* of event; the port's mutex is held within single steps only.            *)
(***************************************************************************)
EXTENDS Integers, Sequences, FiniteSets, SequencesExt

CONSTANTS
    Relations, Receivers,
    ReceiverOf,             \* [Relations -> Receivers]
    Shared,                 \* receivers owned by shared pointers; the others
                            \* are bound to the life of their own port
    Priorities,             \* of each relation: subset of [Relations -> Int]
    Budget,                 \* [Relations -> WoreBudget]
    Mask,                   \* the budget's bits: 2^30 - 1, taken for ever
    Forever,                \* WoreBudget::kPersistent
    NewBudgets,             \* budgets that SetBudget sets
    Emitters, Owners,       \* threads that emit; threads that hold handles
    MaxEmissions, MaxCalls, \* bounds: calls of each emitter, of each owner
    None

ASSUME PortAssumption ==
    /\ ReceiverOf \in [Relations -> Receivers] /\ Shared \subseteq Receivers
    /\ Priorities \subseteq [Relations -> Int] /\ Budget \in [Relations -> Nat]
    /\ Mask \in Nat \ {0} /\ Forever > Mask /\ NewBudgets \subseteq Nat

Threads == Emitters \cup Owners

VARIABLES
    word,           \* of each relation: canceled, suspended, budget
    priority,       \* of each relation
    order,          \* of each relation, 0 before it is connected
    nextId,
    subscriptions,  \* the current snapshot
    linked,         \* relations in the inbound_ list of their receiver
    alive,          \* of each receiver
    batches,        \* deferred emissions that have not run yet, in sequence
    thread,
    granted, spent, \* history: budget given to and taken from a relation
    endless,        \* history: relations that were ever persistent
    ended           \* history: disconnected, and no budget set since

relationVars == <<priority, order, nextId, subscriptions, linked, alive>>
historyVars == <<granted, spent, endless, ended>>
vars == <<word, relationVars, batches, thread, historyVars>>

(* PackDispatchState: some finite budgets come out as none or for ever. *)
Pack(budget) ==
    LET value == IF budget = Forever THEN Mask ELSE budget % (Mask + 1) IN
    [canceled |-> value = 0, suspended |-> FALSE, budget |-> value]

Idle == [pc |-> "idle", rest |-> << >>, acts |-> << >>, seen |-> None,
         relation |-> None, budget |-> 0, mode |-> "emit",
         sent |-> << >>, owed |-> {}, calls |-> 0]

Init ==
    /\ word = [r \in Relations |-> Pack(Budget[r])]
    /\ priority \in Priorities
    /\ order = [r \in Relations |-> 0] /\ nextId = 0
    /\ subscriptions = << >> /\ linked = {}
    /\ alive = [v \in Receivers |-> TRUE]
    /\ batches = << >>
    /\ thread = [t \in Threads |-> Idle]
    /\ granted = [r \in Relations |-> Pack(Budget[r]).budget]
    /\ spent = [r \in Relations |-> 0]
    /\ endless = {r \in Relations : Pack(Budget[r]).budget = Mask}
    /\ ended = {}

At(t, label) == thread[t].pc = label
Current(t) == Head(thread[t].rest)
Return(th) == [Idle EXCEPT !.calls = th.calls]
Finish(th) == [Return(th) EXCEPT !.owed = th.owed \ ToSet(th.sent)]
Occurs(r, s) == \E i \in 1 .. Len(s) : s[i] = r

(* Somebody has a shared pointer to the record, so that handles reach it. *)
Held(r) ==
    \/ Occurs(r, subscriptions) \/ \E i \in 1 .. Len(batches) : Occurs(r, batches[i])
    \/ \E t \in Threads : \/ Occurs(r, thread[t].rest) \/ Occurs(r, thread[t].acts)
                         \/ thread[t].relation = r

(* A callback may be running on the receiver, or a delivery act owns it. *)
Leased(v) ==
    \/ \E i \in 1 .. Len(batches) : \E r \in Relations :
         Occurs(r, batches[i]) /\ ReceiverOf[r] = v
    \/ \E t \in Threads :
         \/ \E r \in Relations : Occurs(r, thread[t].acts) /\ ReceiverOf[r] = v
         \/ thread[t].pc \in {"begin", "spend", "callback"}
            /\ ReceiverOf[Current(t)] = v

(* Nothing stands in the way of a call: it will come in every emission. *)
Steady(r) ==
    /\ ~word[r].canceled /\ ~word[r].suspended /\ word[r].budget = Mask
    /\ alive[ReceiverOf[r]]

(* Who is touched while an emission runs is no longer sure to be served. *)
Disturbed(threads, touched) ==
    [t \in Threads |-> [threads[t] EXCEPT !.owed = @ \ touched]]

Canceled(touched) ==
    [r \in Relations |-> IF r \in touched THEN [word[r] EXCEPT !.canceled = TRUE]
                         ELSE word[r]]
-----------------------------------------------------------------------------
(* Relations.                                                              *)

Call(o, th) == thread[o].pc = "idle" /\ thread[o].calls < MaxCalls
               /\ thread' = [thread EXCEPT ![o] = [th EXCEPT !.calls = thread[o].calls + 1]]

(* AddSubscription numbers the relation before it takes the mutex. *)
Connect(o, r) ==
    /\ order[r] = 0 /\ alive[ReceiverOf[r]]
    /\ Call(o, [Idle EXCEPT !.pc = "insert", !.relation = r])
    /\ nextId' = nextId + 1
    /\ order' = [order EXCEPT ![r] = nextId + 1]
    /\ UNCHANGED <<word, priority, subscriptions, linked, alive, batches, historyVars>>

Before(q, r) ==
    priority[q] > priority[r] \/ (priority[q] = priority[r] /\ order[q] < order[r])

(* Mutant: relations are kept in the order they took the mutex. *)
InsertLast(o) ==
    /\ At(o, "insert")
    /\ subscriptions' = Append(subscriptions, thread[o].relation)
    /\ thread' = [thread EXCEPT ![o].pc = "attach"]
    /\ UNCHANGED <<word, priority, order, nextId, linked, alive, batches, historyVars>>

(* The relations of a set as the snapshot lists them. *)
Ranked(S) == CHOOSE s \in [1 .. Cardinality(S) -> S] :
    \A i, j \in DOMAIN s : i < j => Before(s[i], s[j])

Insert(o) ==
    /\ At(o, "insert")
    /\ subscriptions' = Ranked(ToSet(subscriptions) \cup {thread[o].relation})
    /\ thread' = [thread EXCEPT ![o].pc = "attach"]
    /\ UNCHANGED <<word, priority, order, nextId, linked, alive, batches, historyVars>>

AttachInbound(o) ==
    /\ At(o, "attach")
    /\ linked' = linked \cup {thread[o].relation}
    /\ thread' = [thread EXCEPT ![o] = Return(@)]
    /\ UNCHANGED <<word, priority, order, nextId, subscriptions, alive, batches, historyVars>>

(* The handle Connect returns, or Connections gives out as soon as the     *)
(* relation is in the snapshot, while its weak pointer can be locked.      *)
Handle(r) == Held(r) /\ \A t \in Threads : At(t, "insert") => thread[t].relation # r

Disconnect(o, r) ==
    /\ Handle(r) /\ At(o, "idle") /\ thread[o].calls < MaxCalls
    /\ word' = Canceled({r})
    /\ thread' = Disturbed([thread EXCEPT ![o] =
         [Idle EXCEPT !.pc = "remove", !.relation = r,
                      !.calls = thread[o].calls + 1]], {r})
    /\ ended' = ended \cup {r}
    /\ UNCHANGED <<relationVars, batches, granted, spent, endless>>

(* A relation is in the snapshot once. *)
RemoveSubscription(o) ==
    /\ At(o, "remove")
    /\ subscriptions' = RemoveFirst(subscriptions, thread[o].relation)
    /\ thread' = [thread EXCEPT ![o] = Return(@)]
    /\ UNCHANGED <<word, priority, order, nextId, linked, alive, batches, historyVars>>

SetSuspended(o, r, suspended) ==
    /\ Handle(r) /\ At(o, "idle") /\ thread[o].calls < MaxCalls
    /\ word' = [word EXCEPT ![r].suspended = suspended]
    /\ thread' = Disturbed([thread EXCEPT ![o].calls = @ + 1], {r})
    /\ UNCHANGED <<relationVars, batches, historyVars>>

SetBudget(o, r, budget) ==
    /\ Handle(r)
    /\ Call(o, [Idle EXCEPT !.pc = "set", !.relation = r, !.budget = budget,
                            !.seen = word[r]])
    /\ UNCHANGED <<word, relationVars, batches, historyVars>>

(* Only the suspension is kept: a canceled relation is revived. *)
ReplaceBudget(o) ==
    LET r == thread[o].relation
        new == Pack(thread[o].budget) IN
    /\ At(o, "set")
    /\ IF word[r] = thread[o].seen
       THEN /\ word' = [word EXCEPT ![r] =
                          [new EXCEPT !.suspended = word[r].suspended]]
            /\ thread' = Disturbed([thread EXCEPT ![o] = Return(@)], {r})
            /\ granted' = [granted EXCEPT ![r] = @ + new.budget]
            /\ endless' = IF new.budget = Mask THEN endless \cup {r} ELSE endless
            /\ ended' = ended \ {r}
       ELSE /\ thread' = [thread EXCEPT ![o].seen = word[r]]
            /\ UNCHANGED <<word, granted, endless, ended>>
    /\ UNCHANGED <<relationVars, batches, spent>>

CancelAll(o) ==
    /\ At(o, "idle") /\ thread[o].calls < MaxCalls
    /\ word' = Canceled(ToSet(subscriptions))
    /\ thread' = Disturbed([thread EXCEPT ![o].calls = @ + 1], ToSet(subscriptions))
    /\ UNCHANGED <<relationVars, batches, historyVars>>

(* The receiver goes, and its port with it: first nobody can lease it, then *)
(* the relations that lead to it are canceled.  Its owner keeps it while a  *)
(* borrowed lease is in use or a connection is being made.                  *)
Destroy(o, v) ==
    /\ alive[v] /\ ~Leased(v)
    /\ \A t \in Owners : thread[t].pc \in {"insert", "attach"} =>
                          ReceiverOf[thread[t].relation] # v
    /\ At(o, "idle") /\ thread[o].calls < MaxCalls
    /\ alive' = [alive EXCEPT ![v] = FALSE]
    /\ thread' = Disturbed([thread EXCEPT ![o] =
         [Idle EXCEPT !.pc = "cancel", !.relation = v, !.calls = thread[o].calls + 1]],
         {r \in Relations : ReceiverOf[r] = v})
    /\ UNCHANGED <<word, priority, order, nextId, subscriptions, linked, batches, historyVars>>

CancelInbound(o) ==
    /\ At(o, "cancel")
    /\ word' = Canceled({r \in linked : Held(r) /\ ReceiverOf[r] = thread[o].relation})
    /\ thread' = [thread EXCEPT ![o] = Return(@)]
    /\ UNCHANGED <<relationVars, batches, historyVars>>
-----------------------------------------------------------------------------
(* Emissions.                                                              *)

(* The next relation of the snapshot, or the next act of the batch. *)
Forward(th, label) ==
    IF Len(th.rest) > 1 THEN [th EXCEPT !.pc = label, !.rest = Tail(@)]
    ELSE Finish(th)

(* A deferred emission ends with its batch handed to the scheduler. *)
Onward(t, acts) ==
    IF Len(thread[t].rest) > 1 \/ acts = << >> THEN UNCHANGED batches
    ELSE batches' = Append(batches, acts)

(* Emit and EmitOn take the snapshot under the mutex. *)
BeginEmission(e, label) ==
    /\ subscriptions # << >> /\ At(e, "idle") /\ thread[e].calls < MaxEmissions
    /\ thread' = [thread EXCEPT ![e] =
         [Idle EXCEPT !.pc = label, !.rest = subscriptions, !.calls = thread[e].calls + 1,
                      !.owed = {r \in ToSet(subscriptions) : label = "lease" /\ Steady(r)}]]
    /\ UNCHANGED <<word, relationVars, batches, historyVars>>

(* Mutant: a receiver that is gone ends the emission. *)
SkipToEnd(th, label) == Finish(th)

(* The loop goes on with the next relation. *)
Skip(th, label) == Forward(th, label)

Lease(e) ==
    LET r == Current(e) IN
    /\ At(e, "lease")
    /\ IF alive[ReceiverOf[r]]
       THEN /\ thread' = [thread EXCEPT ![e].pc = "begin"]
            /\ UNCHANGED word
       ELSE /\ word' = Canceled({r})
            /\ thread' = Disturbed([thread EXCEPT ![e] = Skip(@, "lease")], {r})
    /\ UNCHANGED <<relationVars, batches, historyVars>>

NextLabel(th) == IF th.mode = "emit" THEN "lease" ELSE "begin"

Enter(th) == [th EXCEPT !.pc = "callback", !.seen = None,
                        !.sent = Append(@, Head(th.rest))]

(* TryBeginDispatch loads the word once; a persistent relation is entered. *)
BeginDispatch(e) ==
    LET w == word[Current(e)] IN
    /\ At(e, "begin")
    /\ thread' = [thread EXCEPT ![e] =
         IF w.canceled \/ w.suspended THEN Forward(@, NextLabel(@))
         ELSE IF w.budget = Mask THEN Enter(@)
         ELSE [@ EXCEPT !.pc = "spend", !.seen = w]]
    /\ UNCHANGED <<word, relationVars, batches, historyVars>>

Spent(w) == [w EXCEPT !.budget = IF w.budget = 1 THEN 0 ELSE @ - 1,
                      !.canceled = w.budget = 1]

(* Mutant: what is left is stored without another look at the word. *)
SpendByStore(e) ==
    LET r == Current(e) IN
    /\ At(e, "spend")
    /\ word' = [word EXCEPT ![r] = Spent(thread[e].seen)]
    /\ spent' = [spent EXCEPT ![r] = @ + 1]
    /\ thread' = Disturbed([thread EXCEPT ![e] = Enter(@)], {r})
    /\ UNCHANGED <<relationVars, batches, granted, endless, ended>>

(* The failed swap's word is looked at for its flags and its budget, but    *)
(* no longer for persistence: a budget set for ever meanwhile is spent too. *)
Spend(e) ==
    LET r == Current(e)
        w == word[r] IN
    /\ At(e, "spend")
    /\ IF w = thread[e].seen
       THEN /\ word' = [word EXCEPT ![r] = Spent(w)]
            /\ spent' = [spent EXCEPT ![r] = @ + 1]
            /\ thread' = Disturbed([thread EXCEPT ![e] = Enter(@)], {r})
       ELSE /\ thread' = [thread EXCEPT ![e] =
                 IF w.canceled \/ w.suspended \/ w.budget = 0
                 THEN Forward(@, NextLabel(@)) ELSE [@ EXCEPT !.seen = w]]
            /\ UNCHANGED <<word, spent>>
    /\ UNCHANGED <<relationVars, batches, granted, endless, ended>>

(* An immediate callback may stop the emission, a deferred one may not. *)
Callback(e) ==
    /\ At(e, "callback")
    /\ \/ thread' = [thread EXCEPT ![e] = Forward(@, NextLabel(@))]
       \/ thread[e].mode = "emit" /\ thread' = [thread EXCEPT ![e] = Return(@)]
    /\ UNCHANGED <<word, relationVars, batches, historyVars>>

(* EmitOn looks at the word without spending from it, then leases the      *)
(* receiver; one bound to its port cannot be leased for later.             *)
Select(e) ==
    LET w == word[Current(e)] IN
    /\ At(e, "select")
    /\ IF w.canceled \/ w.suspended \/ w.budget = 0
       THEN /\ thread' = [thread EXCEPT ![e] = Forward(@, "select")]
            /\ Onward(e, thread[e].acts)
       ELSE thread' = [thread EXCEPT ![e].pc = "retain"] /\ UNCHANGED batches
    /\ UNCHANGED <<word, relationVars, historyVars>>

Retain(e) ==
    LET r == Current(e)
        retained == alive[ReceiverOf[r]] /\ ReceiverOf[r] \in Shared
        acts == IF retained THEN Append(thread[e].acts, r) ELSE thread[e].acts IN
    /\ At(e, "retain")
    /\ word' = IF retained THEN word ELSE Canceled({r})
    /\ thread' = Disturbed([thread EXCEPT ![e] =
         Forward([@ EXCEPT !.acts = acts], "select")], IF retained THEN {} ELSE {r})
    /\ Onward(e, acts)
    /\ UNCHANGED <<relationVars, historyVars>>

(* The sender is lazy: the scheduler may run a batch any time later, in any *)
(* order, or the batch may be dropped.                                      *)
TakeBatch(e, i) ==
    /\ At(e, "idle")
    /\ batches' = RemoveAt(batches, i)
    /\ UNCHANGED <<word, relationVars, historyVars>>

RunBatch(e, i) ==
    /\ TakeBatch(e, i)
    /\ thread' = [thread EXCEPT ![e] =
         [Idle EXCEPT !.pc = "begin", !.mode = "batch", !.rest = batches[i],
                      !.acts = batches[i], !.calls = thread[e].calls]]

DropBatch(e, i) == TakeBatch(e, i) /\ UNCHANGED thread

Next ==
    \/ \E o \in Owners :
         \/ \E r \in Relations :
              \/ Connect(o, r) \/ Disconnect(o, r)
              \/ \E suspended \in BOOLEAN : SetSuspended(o, r, suspended)
              \/ \E budget \in NewBudgets : SetBudget(o, r, budget)
         \/ Insert(o) \/ AttachInbound(o) \/ RemoveSubscription(o) \/ ReplaceBudget(o)
         \/ CancelAll(o) \/ CancelInbound(o)
         \/ \E v \in Receivers : Destroy(o, v)
    \/ \E e \in Emitters :
         \/ BeginEmission(e, "lease") \/ BeginEmission(e, "select")
         \/ Lease(e) \/ BeginDispatch(e) \/ Spend(e) \/ Callback(e)
         \/ Select(e) \/ Retain(e)
         \/ \E i \in 1 .. Len(batches) : RunBatch(e, i) \/ DropBatch(e, i)

Spec == Init /\ [][Next]_vars
-----------------------------------------------------------------------------
(* However emissions, deferred batches, suspensions and new budgets race,  *)
(* a relation that was never persistent is not entered more often than the *)
(* budgets it was given allow.                                             *)
BudgetRespected ==
    \A r \in Relations \ endless : spent[r] <= granted[r]

(* An emission calls receivers by priority and then by age, each at most   *)
(* once, although connections are made and broken meanwhile, on other      *)
(* threads and out of their numbers' order.                                *)
DeliveryOrdered ==
    \A e \in Emitters :
        LET all == thread[e].sent \o IF thread[e].pc = "callback"
                                     THEN Tail(thread[e].rest) ELSE thread[e].rest IN
        \A i, j \in 1 .. Len(all) : i < j => Before(all[i], all[j])

(* A relation that is persistent, active and alive throughout an immediate *)
(* emission is served by it, whatever happens to those before it, unless a *)
(* callback stops the emission.                                            *)
NobodySkipped ==
    \A e \in Emitters :
        thread[e].owed \subseteq ToSet(thread[e].sent \o thread[e].rest)

(* Once Disconnect has canceled a relation, no dispatch of it begins, in   *)
(* emissions and batches that selected it before either, unless a budget   *)
(* is set.                                                                 *)
DisconnectIsFinal ==
    [][\A e \in Emitters : Len(thread'[e].sent) > Len(thread[e].sent) =>
         thread'[e].sent[Len(thread'[e].sent)] \notin ended]_vars
=============================================================================
