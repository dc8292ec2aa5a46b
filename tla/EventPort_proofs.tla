--------------------------- MODULE EventPort_proofs ---------------------------
(***************************************************************************)
(* Proofs about EventPort for any relations, receivers, threads, budgets   *)
(* and number of bits in a budget: relations that were never persistent    *)
(* keep their budgets, nothing disconnected is called, relations are       *)
(* called by priority and age, and none that is sure to be called is       *)
(* skipped.                                                                *)
(***************************************************************************)
EXTENDS EventPort, SequenceTheorems, FiniteSetTheorems, WellFoundedInduction, TLAPS

Word == [canceled : BOOLEAN, suspended : BOOLEAN, budget : 0 .. Mask]
Fields == {"pc", "rest", "acts", "seen", "relation", "budget", "mode", "sent",
           "owed", "calls"}
IsSeq(s) == \E S : s \in Seq(S)

(* What is left of a relation's budget and what was taken from it come     *)
(* from what it was given, unless it was ever persistent; no budget is     *)
(* left only when the relation is canceled.                                *)
Counted ==
    /\ word \in [Relations -> Word]
    /\ granted \in [Relations -> Nat] /\ spent \in [Relations -> Nat]
    /\ \A r \in Relations :
         /\ word[r].budget = 0 => word[r].canceled
         /\ r \notin endless => /\ word[r].budget # Mask
                                /\ spent[r] + word[r].budget <= granted[r]

(* A budget is spent only from a word that allows it. *)
Seen ==
    /\ DOMAIN thread = Threads
    /\ \A t \in Threads :
         /\ DOMAIN thread[t] = Fields
         /\ thread[t].pc = "set" => thread[t].budget \in Nat
         /\ thread[t].pc = "spend" => ~thread[t].seen.canceled

(* Disconnected relations stay canceled until a budget is set. *)
EndedCanceled == \A r \in ended : r \in Relations /\ word[r].canceled

SentSeq == \A t \in Threads : IsSeq(thread[t].sent)

IInv == Counted /\ Seen /\ EndedCanceled /\ SentSeq

(* In a step a thread's list of relations it has entered stays, is cleared *)
(* or grows by one that is not canceled.                                   *)
Sends(t) ==
    \/ thread'[t].sent = thread[t].sent
    \/ thread'[t].sent = << >>
    \/ /\ thread'[t].sent = Append(thread[t].sent, Current(t))
       /\ ~word[Current(t)].canceled

(* One thread's step, as far as the invariant looks at threads. *)
ThreadStep(x) ==
    /\ DOMAIN thread' = Threads
    /\ \A t \in Threads :
         /\ DOMAIN thread'[t] = Fields
         /\ t # x => /\ thread'[t].pc = thread[t].pc
                     /\ thread'[t].budget = thread[t].budget
                     /\ thread'[t].seen = thread[t].seen
                     /\ thread'[t].sent = thread[t].sent
    /\ thread'[x].pc = "set" => thread'[x].budget \in Nat
    /\ thread'[x].pc = "spend" => ~thread'[x].seen.canceled
    /\ Sends(x)
-----------------------------------------------------------------------------
(* PackDispatchState gives a word of the right type, without a budget only *)
(* when it is canceled.                                                    *)
LEMMA PackWord ==
    ASSUME NEW budget \in Nat
    PROVE  Pack(budget) \in Word
           /\ (Pack(budget).budget = 0 => Pack(budget).canceled)
<1>1. Mask \in Nat \ {0}
    BY PortAssumption
<1> DEFINE value == IF budget = Forever THEN Mask ELSE budget % (Mask + 1)
<1>2. value \in 0 .. Mask
    BY <1>1
<1>3. /\ Pack(budget).canceled = (value = 0) /\ Pack(budget).budget = value
      /\ Pack(budget) = [canceled |-> value = 0, suspended |-> FALSE, budget |-> value]
    BY DEF Pack
<1> HIDE DEF value
<1>4. \A c \in BOOLEAN, v \in 0 .. Mask :
         [canceled |-> c, suspended |-> FALSE, budget |-> v] \in Word
    BY DEF Word
<1>5. Pack(budget) \in Word
  <2>1. (value = 0) \in BOOLEAN
      OBVIOUS
  <2>2. QED
      BY <1>2, <1>3, <1>4, <2>1, Zenon
<1>6. QED
    BY <1>3, <1>5

LEMMA InitIInv == Init => IInv
<1> SUFFICES ASSUME Init PROVE IInv
    OBVIOUS
<1>1. \A r \in Relations : /\ Budget[r] \in Nat /\ Pack(Budget[r]) \in Word
                           /\ Pack(Budget[r]).budget = 0 => Pack(Budget[r]).canceled
    BY PackWord, PortAssumption
<1>2. Mask \in Nat
    BY PortAssumption
<1>3. Counted
    BY <1>1, <1>2 DEF Init, Counted, Word
<1>4. DOMAIN Idle = Fields /\ Idle.pc = "idle" /\ Idle.sent = << >>
    BY DEF Idle, Fields
<1>5. Seen
    BY <1>4 DEF Init, Seen
<1>6. EndedCanceled
    BY DEF Init, EndedCanceled
<1>7. SentSeq
  <2>1. << >> \in Seq({})
      OBVIOUS
  <2>2. QED
      BY <1>4, <2>1 DEF Init, SentSeq, IsSeq
<1>8. QED
    BY <1>3, <1>5, <1>6, <1>7 DEF IInv
-----------------------------------------------------------------------------
(* The fields of the records that threads get.                             *)
LEMMA IdleFields ==
    DOMAIN Idle = Fields /\ Idle.pc = "idle" /\ Idle.sent = << >>
BY DEF Idle, Fields

LEMMA ForwardFields ==
    ASSUME NEW th, DOMAIN th = Fields, NEW label
    PROVE  /\ DOMAIN Forward(th, label) = Fields
           /\ Forward(th, label).pc \in {label, "idle"}
           /\ Forward(th, label).sent \in {th.sent, << >>}
BY IdleFields DEF Forward, Finish, Return, Fields

LEMMA EnterFields ==
    ASSUME NEW th, DOMAIN th = Fields
    PROVE  /\ DOMAIN Enter(th) = Fields /\ Enter(th).pc = "callback"
           /\ Enter(th).sent = Append(th.sent, Head(th.rest))
BY DEF Enter, Fields

(* Who is disturbed keeps everything but what it owes. *)
LEMMA DisturbedFields ==
    ASSUME NEW threads, NEW touched, DOMAIN threads = Threads, NEW t \in Threads,
           DOMAIN threads[t] = Fields
    PROVE  LET new == Disturbed(threads, touched) IN
           /\ DOMAIN new = Threads /\ DOMAIN new[t] = Fields
           /\ new[t].pc = threads[t].pc /\ new[t].budget = threads[t].budget
           /\ new[t].seen = threads[t].seen /\ new[t].sent = threads[t].sent
BY DEF Disturbed, Fields

(* A thread's record is replaced, and the others may be disturbed. *)
LEMMA StepOf ==
    ASSUME Seen, NEW x \in Threads, NEW th, NEW touched, DOMAIN th = Fields,
           \/ thread' = [thread EXCEPT ![x] = th]
           \/ thread' = Disturbed([thread EXCEPT ![x] = th], touched),
           th.pc = "set" => th.budget \in Nat,
           th.pc = "spend" => ~th.seen.canceled,
           \/ th.sent \in {thread[x].sent, << >>}
           \/ th.sent = Append(thread[x].sent, Current(x)) /\ ~word[Current(x)].canceled
    PROVE  ThreadStep(x)
<1> DEFINE threads == [thread EXCEPT ![x] = th]
<1>1. /\ DOMAIN threads = Threads /\ threads[x] = th
      /\ \A t \in Threads : DOMAIN threads[t] = Fields
      /\ \A t \in Threads : t # x => threads[t] = thread[t]
    BY DEF Seen
<1>2. thread' = threads \/ thread' = Disturbed(threads, touched)
    OBVIOUS
<1> HIDE DEF threads
<1>3. /\ DOMAIN thread' = Threads
      /\ \A t \in Threads :
           /\ DOMAIN thread'[t] = Fields
           /\ thread'[t].pc = threads[t].pc /\ thread'[t].budget = threads[t].budget
           /\ thread'[t].seen = threads[t].seen /\ thread'[t].sent = threads[t].sent
    BY <1>1, <1>2, DisturbedFields
<1>4. QED
    BY <1>1, <1>3 DEF ThreadStep, Sends
-----------------------------------------------------------------------------
(* Every step is one thread's.                                             *)
LEMMA CallStep ==
    ASSUME Seen, NEW x \in Threads, NEW th, Call(x, th),
           DOMAIN th = Fields, th.sent = << >>,
           th.pc = "set" => th.budget \in Nat, th.pc # "spend"
    PROVE  ThreadStep(x)
<1> DEFINE new == [th EXCEPT !.calls = thread[x].calls + 1]
<1>1. /\ DOMAIN new = Fields /\ new.sent = << >>
      /\ new.pc = "set" => new.budget \in Nat
      /\ new.pc # "spend"
    BY DEF Fields
<1>2. thread' = [thread EXCEPT ![x] = new]
    BY DEF Call
<1> HIDE DEF new
<1>3. QED
    BY <1>1, <1>2, StepOf

(* A thread goes back to idle, or goes on to another place of its call.     *)
LEMMA Returns ==
    ASSUME Seen, NEW x \in Threads, NEW touched,
           \/ thread' = [thread EXCEPT ![x] = Return(thread[x])]
           \/ thread' = Disturbed([thread EXCEPT ![x] = Return(thread[x])], touched)
    PROVE  ThreadStep(x)
<1> DEFINE th == Return(thread[x])
<1>1. DOMAIN th = Fields /\ th.pc = "idle" /\ th.sent = << >>
    BY IdleFields DEF Return, Fields
<1> HIDE DEF th
<1>2. QED
    BY <1>1, StepOf DEF th

LEMMA Counts ==
    ASSUME Seen, NEW x \in Threads, NEW touched, thread[x].pc = "idle",
           thread' = Disturbed([thread EXCEPT ![x].calls = @ + 1], touched)
    PROVE  ThreadStep(x)
<1> DEFINE th == [thread[x] EXCEPT !.calls = @ + 1]
<1>1. DOMAIN th = Fields /\ th.pc = "idle" /\ th.sent = thread[x].sent
    BY DEF Seen, Fields
<1>2. thread' = Disturbed([thread EXCEPT ![x] = th], touched)
    OBVIOUS
<1> HIDE DEF th
<1>3. QED
    BY <1>1, <1>2, StepOf

(* The owners' operations. *)
OwnerStep(o) ==
    \/ \E r \in Relations :
         \/ Connect(o, r) \/ Disconnect(o, r)
         \/ \E suspended \in BOOLEAN : SetSuspended(o, r, suspended)
         \/ \E budget \in NewBudgets : SetBudget(o, r, budget)
    \/ Insert(o) \/ AttachInbound(o) \/ RemoveSubscription(o) \/ ReplaceBudget(o)
    \/ CancelAll(o) \/ CancelInbound(o)
    \/ \E v \in Receivers : Destroy(o, v)

LEMMA OwnerThread ==
    ASSUME Seen, NEW o \in Owners, OwnerStep(o) PROVE ThreadStep(o)
<1>0. o \in Threads /\ DOMAIN thread[o] = Fields
    BY DEF Threads, Seen
<1>2. ASSUME NEW r \in Relations, Connect(o, r) PROVE ThreadStep(o)
  <2> DEFINE th == [Idle EXCEPT !.pc = "insert", !.relation = r]
  <2>1. DOMAIN th = Fields /\ th.pc = "insert" /\ th.sent = << >>
      BY IdleFields DEF Fields
  <2>2. Call(o, th)
      BY <1>2 DEF Connect
  <2> HIDE DEF th
  <2>3. QED
      BY <1>0, <2>1, <2>2, CallStep
<1>3. ASSUME NEW r \in Relations, Disconnect(o, r) PROVE ThreadStep(o)
  <2> DEFINE th == [Idle EXCEPT !.pc = "remove", !.relation = r,
                                !.calls = thread[o].calls + 1]
  <2>1. DOMAIN th = Fields /\ th.pc = "remove" /\ th.sent = << >>
      BY IdleFields DEF Fields
  <2>2. thread' = Disturbed([thread EXCEPT ![o] = th], {r})
      BY <1>3 DEF Disconnect
  <2> HIDE DEF th
  <2>3. QED
      BY <1>0, <2>1, <2>2, StepOf
<1>4. ASSUME NEW r \in Relations, NEW suspended \in BOOLEAN, SetSuspended(o, r, suspended)
      PROVE ThreadStep(o)
  <2>1. thread' = Disturbed([thread EXCEPT ![o].calls = @ + 1], {r}) /\ thread[o].pc = "idle"
      BY <1>4 DEF SetSuspended, At
  <2>2. QED
      BY <1>0, <2>1, Counts
<1>5. ASSUME NEW r \in Relations, NEW budget \in NewBudgets, SetBudget(o, r, budget)
      PROVE ThreadStep(o)
  <2> DEFINE th == [Idle EXCEPT !.pc = "set", !.relation = r, !.budget = budget,
                                !.seen = word[r]]
  <2>1. DOMAIN th = Fields /\ th.pc = "set" /\ th.budget = budget /\ th.sent = << >>
      BY IdleFields DEF Fields
  <2>2. Call(o, th) /\ budget \in Nat
      BY <1>5, PortAssumption DEF SetBudget
  <2> HIDE DEF th
  <2>3. QED
      BY <1>0, <2>1, <2>2, CallStep
<1>6. CASE Insert(o)
  <2> DEFINE th == [thread[o] EXCEPT !.pc = "attach"]
  <2>1. DOMAIN th = Fields /\ th.pc = "attach" /\ th.sent = thread[o].sent
      BY <1>0 DEF Fields
  <2>2. thread' = [thread EXCEPT ![o] = th]
      BY <1>6 DEF Insert
  <2> HIDE DEF th
  <2>3. QED
      BY <1>0, <2>1, <2>2, StepOf
<1>7. CASE AttachInbound(o) \/ RemoveSubscription(o) \/ CancelInbound(o)
  <2>1. thread' = [thread EXCEPT ![o] = Return(thread[o])]
      BY <1>7 DEF AttachInbound, RemoveSubscription, CancelInbound
  <2>2. QED
      BY <1>0, <2>1, Returns
<1>8. CASE ReplaceBudget(o)
  <2> DEFINE r == thread[o].relation
             th == [thread[o] EXCEPT !.seen = word[r]]
  <2>1. /\ DOMAIN th = Fields /\ th.pc = thread[o].pc
        /\ th.budget = thread[o].budget /\ th.sent = thread[o].sent
      BY <1>0 DEF Fields
  <2>2. \/ thread' = [thread EXCEPT ![o] = th]
        \/ thread' = Disturbed([thread EXCEPT ![o] = Return(thread[o])], {r})
      BY <1>8 DEF ReplaceBudget
  <2>3. thread[o].pc = "set" /\ thread[o].budget \in Nat
      BY <1>0, <1>8 DEF ReplaceBudget, At, Seen
  <2> HIDE DEF th
  <2>4. QED
      BY <1>0, <2>1, <2>2, <2>3, StepOf, Returns
<1>9. CASE CancelAll(o)
  <2>1. thread' = Disturbed([thread EXCEPT ![o].calls = @ + 1], ToSet(subscriptions))
        /\ thread[o].pc = "idle"
      BY <1>9 DEF CancelAll, At
  <2>2. QED
      BY <1>0, <2>1, Counts
<1>10. ASSUME NEW v \in Receivers, Destroy(o, v) PROVE ThreadStep(o)
  <2> DEFINE th == [Idle EXCEPT !.pc = "cancel", !.relation = v,
                                !.calls = thread[o].calls + 1]
  <2>1. DOMAIN th = Fields /\ th.pc = "cancel" /\ th.sent = << >>
      BY IdleFields DEF Fields
  <2>2. thread' = Disturbed([thread EXCEPT ![o] = th],
                            {r \in Relations : ReceiverOf[r] = v})
      BY <1>10 DEF Destroy
  <2> HIDE DEF th
  <2>3. QED
      BY <1>0, <2>1, <2>2, StepOf
<1>11. QED
    BY <1>2, <1>3, <1>4, <1>5, <1>6, <1>7, <1>8, <1>9, <1>10 DEF OwnerStep
-----------------------------------------------------------------------------
(* The emitters' steps. *)
EmitterStep(e) ==
    \/ BeginEmission(e, "lease") \/ BeginEmission(e, "select")
    \/ Lease(e) \/ BeginDispatch(e) \/ Spend(e) \/ Callback(e)
    \/ Select(e) \/ Retain(e)
    \/ \E i \in 1 .. Len(batches) : RunBatch(e, i) \/ DropBatch(e, i)

(* Skipping a relation. *)
LEMMA Forwards ==
    ASSUME Seen, NEW x \in Threads, NEW th, NEW label, NEW touched,
           DOMAIN th = Fields, th.sent = thread[x].sent,
           label \notin {"set", "spend"},
           \/ thread' = [thread EXCEPT ![x] = Forward(th, label)]
           \/ thread' = Disturbed([thread EXCEPT ![x] = Forward(th, label)], touched)
    PROVE  ThreadStep(x)
<1> DEFINE new == Forward(th, label)
<1>1. /\ DOMAIN new = Fields /\ new.pc \notin {"set", "spend"}
      /\ new.sent \in {th.sent, << >>}
    BY ForwardFields
<1>2. \/ thread' = [thread EXCEPT ![x] = new]
      \/ thread' = Disturbed([thread EXCEPT ![x] = new], touched)
    OBVIOUS
<1> HIDE DEF new
<1>3. QED
    BY <1>1, <1>2, StepOf

(* Entering a relation's callback. *)
LEMMA Enters ==
    ASSUME Seen, NEW x \in Threads, NEW touched, ~word[Current(x)].canceled,
           \/ thread' = [thread EXCEPT ![x] = Enter(thread[x])]
           \/ thread' = Disturbed([thread EXCEPT ![x] = Enter(thread[x])], touched)
    PROVE  ThreadStep(x)
<1> DEFINE new == Enter(thread[x])
<1>0. DOMAIN thread[x] = Fields
    BY DEF Seen
<1>1. /\ DOMAIN new = Fields /\ new.pc = "callback"
      /\ new.sent = Append(thread[x].sent, Current(x))
    BY <1>0, EnterFields DEF Current
<1>2. \/ thread' = [thread EXCEPT ![x] = new]
      \/ thread' = Disturbed([thread EXCEPT ![x] = new], touched)
    OBVIOUS
<1> HIDE DEF new
<1>3. QED
    BY <1>1, <1>2, StepOf

(* Remembering a word to spend from. *)
LEMMA Looks ==
    ASSUME Seen, NEW x \in Threads, NEW w, ~w.canceled, NEW th,
           DOMAIN th = Fields, th.pc = "spend", th.seen = w,
           th.sent = thread[x].sent,
           thread' = [thread EXCEPT ![x] = th]
    PROVE  ThreadStep(x)
BY StepOf

LEMMA EmitterThread ==
    ASSUME Seen, NEW e \in Emitters, EmitterStep(e) PROVE ThreadStep(e)
<1>0. e \in Threads /\ DOMAIN thread[e] = Fields
    BY DEF Threads, Seen
<1>n. NextLabel(thread[e]) \notin {"set", "spend"}
    BY DEF NextLabel
<1>1. ASSUME NEW label, label \in {"lease", "select"}, BeginEmission(e, label)
      PROVE ThreadStep(e)
  <2> DEFINE th == [Idle EXCEPT !.pc = label, !.rest = subscriptions,
                      !.calls = thread[e].calls + 1,
                      !.owed = {r \in ToSet(subscriptions) : label = "lease" /\ Steady(r)}]
  <2>1. DOMAIN th = Fields /\ th.pc = label /\ th.sent = << >>
      BY IdleFields DEF Fields
  <2>2. thread' = [thread EXCEPT ![e] = th]
      BY <1>1 DEF BeginEmission
  <2> HIDE DEF th
  <2>3. QED
      BY <1>0, <1>1, <2>1, <2>2, StepOf
<1>2. CASE Lease(e)
  <2>1. CASE alive[ReceiverOf[Current(e)]]
    <3> DEFINE th == [thread[e] EXCEPT !.pc = "begin"]
    <3>1. DOMAIN th = Fields /\ th.pc = "begin" /\ th.sent = thread[e].sent
        BY <1>0 DEF Fields
    <3>2. thread' = [thread EXCEPT ![e] = th]
        BY <1>2, <2>1 DEF Lease
    <3> HIDE DEF th
    <3>3. QED
        BY <1>0, <3>1, <3>2, StepOf
  <2>2. CASE ~alive[ReceiverOf[Current(e)]]
    <3>1. thread' = Disturbed([thread EXCEPT ![e] = Forward(thread[e], "lease")],
                              {Current(e)})
        BY <1>2, <2>2 DEF Lease, Skip
    <3>2. QED
        BY <1>0, <3>1, Forwards
  <2>3. QED
      BY <2>1, <2>2
<1>3. CASE BeginDispatch(e)
  <2> DEFINE w == word[Current(e)]
             th == [thread[e] EXCEPT !.pc = "spend", !.seen = w]
  <2>1. DOMAIN th = Fields /\ th.pc = "spend" /\ th.seen = w /\ th.sent = thread[e].sent
      BY <1>0 DEF Fields
  <2>2. \/ thread' = [thread EXCEPT ![e] = Forward(thread[e], NextLabel(thread[e]))]
        \/ ~w.canceled /\ thread' = [thread EXCEPT ![e] = Enter(thread[e])]
        \/ ~w.canceled /\ thread' = [thread EXCEPT ![e] = th]
      BY <1>3 DEF BeginDispatch
  <2> HIDE DEF th
  <2>3. QED
      BY <1>0, <1>n, <2>1, <2>2, Forwards, Enters, Looks
<1>4. CASE Spend(e)
  <2> DEFINE w == word[Current(e)]
             th == [thread[e] EXCEPT !.seen = w]
  <2>0. thread[e].pc = "spend" /\ ~thread[e].seen.canceled
      BY <1>0, <1>4 DEF Spend, At, Seen
  <2>1. DOMAIN th = Fields /\ th.pc = "spend" /\ th.seen = w /\ th.sent = thread[e].sent
      BY <1>0, <2>0 DEF Fields
  <2>2. \/ thread' = [thread EXCEPT ![e] = Forward(thread[e], NextLabel(thread[e]))]
        \/ w = thread[e].seen
           /\ thread' = Disturbed([thread EXCEPT ![e] = Enter(thread[e])], {Current(e)})
        \/ ~w.canceled /\ thread' = [thread EXCEPT ![e] = th]
      BY <1>4 DEF Spend
  <2> HIDE DEF th
  <2>3. QED
      BY <1>0, <1>n, <2>0, <2>1, <2>2, Forwards, Enters, Looks
<1>5. CASE Callback(e)
  <2>1. \/ thread' = [thread EXCEPT ![e] = Forward(thread[e], NextLabel(thread[e]))]
        \/ thread' = [thread EXCEPT ![e] = Return(thread[e])]
      BY <1>5 DEF Callback
  <2>2. QED
      BY <1>0, <1>n, <2>1, Forwards, Returns
<1>6. CASE Select(e)
  <2> DEFINE th == [thread[e] EXCEPT !.pc = "retain"]
  <2>1. DOMAIN th = Fields /\ th.pc = "retain" /\ th.sent = thread[e].sent
      BY <1>0 DEF Fields
  <2>2. \/ thread' = [thread EXCEPT ![e] = Forward(thread[e], "select")]
        \/ thread' = [thread EXCEPT ![e] = th]
      BY <1>6 DEF Select
  <2> HIDE DEF th
  <2>3. QED
      BY <1>0, <2>1, <2>2, Forwards, StepOf
<1>7. CASE Retain(e)
  <2>1. PICK acts, touched :
          thread' = Disturbed([thread EXCEPT ![e] =
            Forward([thread[e] EXCEPT !.acts = acts], "select")], touched)
      BY <1>7 DEF Retain
  <2> DEFINE th == [thread[e] EXCEPT !.acts = acts]
  <2>2. DOMAIN th = Fields /\ th.sent = thread[e].sent
      BY <1>0 DEF Fields
  <2>3. thread' = Disturbed([thread EXCEPT ![e] = Forward(th, "select")], touched)
      BY <2>1
  <2> HIDE DEF th
  <2>4. QED
      BY <1>0, <2>2, <2>3, Forwards
<1>8. ASSUME NEW i \in 1 .. Len(batches), RunBatch(e, i) PROVE ThreadStep(e)
  <2> DEFINE th == [Idle EXCEPT !.pc = "begin", !.mode = "batch", !.rest = batches[i],
                      !.acts = batches[i], !.calls = thread[e].calls]
  <2>1. DOMAIN th = Fields /\ th.pc = "begin" /\ th.sent = << >>
      BY IdleFields DEF Fields
  <2>2. thread' = [thread EXCEPT ![e] = th]
      BY <1>8 DEF RunBatch
  <2> HIDE DEF th
  <2>3. QED
      BY <1>0, <2>1, <2>2, StepOf
<1>9. ASSUME NEW i \in 1 .. Len(batches), DropBatch(e, i) PROVE ThreadStep(e)
    BY <1>0, <1>9 DEF DropBatch, ThreadStep, Sends, Seen
<1>10. QED
    BY <1>1, <1>2, <1>3, <1>4, <1>5, <1>6, <1>7, <1>8, <1>9 DEF EmitterStep
-----------------------------------------------------------------------------
(* What every step does to threads.                                        *)
LEMMA NextSplit ==
    ASSUME Next
    PROVE  (\E o \in Owners : OwnerStep(o)) \/ (\E e \in Emitters : EmitterStep(e))
BY DEF Next, OwnerStep, EmitterStep

(* The lists of relations that were entered are sequences of something. *)
LEMMA AppendIsSeq ==
    ASSUME NEW s, IsSeq(s), NEW r
    PROVE  /\ IsSeq(Append(s, r)) /\ Len(Append(s, r)) = Len(s) + 1 /\ Len(s) \in Nat
           /\ Append(s, r)[Len(Append(s, r))] = r
<1>1. PICK S : s \in Seq(S)
    BY DEF IsSeq
<1>2. s \in Seq(S \cup {r}) /\ r \in S \cup {r}
    BY <1>1
<1>3. QED
    BY <1>2, AppendProperties, LenProperties DEF IsSeq

LEMMA NoneSent == IsSeq(<< >>) /\ Len(<< >>) = 0
<1>1. << >> \in Seq({})
    OBVIOUS
<1>2. QED
    BY <1>1 DEF IsSeq

LEMMA SeenStep ==
    ASSUME Seen, SentSeq, NEW x \in Threads, ThreadStep(x)
    PROVE  Seen' /\ SentSeq'
<1>1. Seen'
    BY DEF Seen, ThreadStep
<1>2. IsSeq(thread'[x].sent)
  <2>1. IsSeq(thread[x].sent)
      BY DEF SentSeq
  <2>2. IsSeq(Append(thread[x].sent, Current(x)))
      BY <2>1, AppendIsSeq
  <2>3. QED
      BY <2>1, <2>2, NoneSent DEF ThreadStep, Sends
<1>3. SentSeq'
    BY <1>2 DEF SentSeq, ThreadStep
<1>4. QED
    BY <1>1, <1>3

(* Canceling a word, and spending from it. *)
LEMMA CanceledWord ==
    ASSUME NEW w \in Word
    PROVE  /\ [w EXCEPT !.canceled = TRUE] \in Word
           /\ [w EXCEPT !.canceled = TRUE].canceled
           /\ [w EXCEPT !.canceled = TRUE].budget = w.budget
BY DEF Word

LEMMA SpentWord ==
    ASSUME NEW w \in Word, w.budget \in Nat \ {0}
    PROVE  /\ Spent(w) \in Word /\ Spent(w).budget = w.budget - 1
           /\ Spent(w).budget = 0 => Spent(w).canceled
<1> DEFINE left == IF w.budget = 1 THEN 0 ELSE w.budget - 1
           none == w.budget = 1
<1>1. left \in 0 .. Mask /\ left = w.budget - 1
    BY PortAssumption DEF Word
<1>2. none \in BOOLEAN /\ (left = 0 => none)
    OBVIOUS
<1>3. Spent(w) = [w EXCEPT !.budget = left, !.canceled = none]
    BY DEF Spent
<1> HIDE DEF left, none
<1>4. ASSUME NEW b \in 0 .. Mask, NEW c \in BOOLEAN
      PROVE  LET new == [w EXCEPT !.budget = b, !.canceled = c] IN
             new \in Word /\ new.budget = b /\ new.canceled = c
    BY DEF Word
<1>5. /\ [w EXCEPT !.budget = left, !.canceled = none] \in Word
      /\ [w EXCEPT !.budget = left, !.canceled = none].budget = left
      /\ [w EXCEPT !.budget = left, !.canceled = none].canceled = none
    BY <1>1, <1>2, <1>4, Zenon
<1>6. QED
    BY <1>1, <1>2, <1>3, <1>5, Zenon

(* What every step does to the words.  Most leave them alone; a word that  *)
(* is canceled or suspended keeps its budget.                              *)
LEMMA WordsMarked ==
    ASSUME Counted, EndedCanceled,
           UNCHANGED <<granted, spent, endless>>,
           \/ UNCHANGED word
           \/ \E touched : word' = Canceled(touched)
           \/ \E r \in Relations, suspended \in BOOLEAN :
                word' = [word EXCEPT ![r].suspended = suspended],
           \/ UNCHANGED ended
           \/ \E r \in Relations : ended' = ended \cup {r} /\ word' = Canceled({r})
    PROVE  Counted' /\ EndedCanceled'
<1> DEFINE Marked == /\ DOMAIN word' = Relations
                     /\ \A r \in Relations :
                          /\ word'[r] \in Word /\ word'[r].budget = word[r].budget
                          /\ word[r].canceled => word'[r].canceled
<1>1. Marked
  <2>1. CASE UNCHANGED word
      BY <2>1 DEF Counted
  <2>2. ASSUME NEW touched, word' = Canceled(touched)
        PROVE  Marked
    <3>1. ASSUME NEW r \in Relations
          PROVE  /\ word'[r] \in Word /\ word'[r].budget = word[r].budget
                 /\ word[r].canceled => word'[r].canceled
      <4>1. word[r] \in Word
          BY DEF Counted
      <4>2. word'[r] = word[r] \/ word'[r] = [word[r] EXCEPT !.canceled = TRUE]
          BY <2>2 DEF Canceled
      <4>3. QED
          BY <4>1, <4>2, CanceledWord
    <3>2. DOMAIN word' = Relations
        BY <2>2 DEF Canceled
    <3>3. QED
        BY <3>1, <3>2
  <2>3. ASSUME NEW r \in Relations, NEW suspended \in BOOLEAN,
               word' = [word EXCEPT ![r].suspended = suspended]
        PROVE  Marked
      BY <2>3 DEF Counted, Word
  <2>4. QED
      BY <2>1, <2>2, <2>3
<1>2. word' \in [Relations -> Word]
  <2>1. word' = [r \in Relations |-> word'[r]]
    <3>1. CASE UNCHANGED word
        BY <3>1 DEF Counted
    <3>2. ASSUME NEW touched, word' = Canceled(touched)
          PROVE  word' = [r \in Relations |-> word'[r]]
        BY <3>2 DEF Canceled
    <3>3. ASSUME NEW r \in Relations, NEW suspended \in BOOLEAN,
                 word' = [word EXCEPT ![r].suspended = suspended]
          PROVE  word' = [q \in Relations |-> word'[q]]
        BY <3>3 DEF Counted
    <3>4. QED
        BY <3>1, <3>2, <3>3
  <2>2. QED
      BY <1>1, <2>1
<1>3. Counted'
    BY <1>1, <1>2 DEF Counted
<1>4. EndedCanceled'
  <2>1. CASE UNCHANGED ended
      BY <1>1, <2>1 DEF EndedCanceled
  <2>2. ASSUME NEW r \in Relations, ended' = ended \cup {r}, word' = Canceled({r})
        PROVE  EndedCanceled'
    <3>1. word'[r].canceled
        BY <2>2 DEF Canceled, Counted, Word
    <3>2. QED
        BY <1>1, <2>2, <3>1 DEF EndedCanceled
  <2>3. QED
      BY <2>1, <2>2
<1>5. QED
    BY <1>3, <1>4

(* A new budget is added to what was given. *)
LEMMA BudgetReplaced ==
    ASSUME Counted, EndedCanceled, NEW r, NEW budget \in Nat,
           word' = [word EXCEPT ![r] =
                      [Pack(budget) EXCEPT !.suspended = word[r].suspended]],
           granted' = [granted EXCEPT ![r] = @ + Pack(budget).budget],
           endless' = IF Pack(budget).budget = Mask THEN endless \cup {r} ELSE endless,
           ended' = ended \ {r}, UNCHANGED spent
    PROVE  Counted' /\ EndedCanceled'
<1> DEFINE new == Pack(budget)
           w == [new EXCEPT !.suspended = word[r].suspended]
<1>1. new \in Word /\ (new.budget = 0 => new.canceled)
    BY PackWord
<1>2. new.budget \in Nat
    BY <1>1, PortAssumption DEF Word
<1>3. CASE r \in Relations
  <2>1. /\ w \in Word /\ w.budget = new.budget /\ w.canceled = new.canceled
      BY <1>1, <1>3 DEF Word, Counted
  <2>2. /\ word' = [word EXCEPT ![r] = w]
        /\ granted' = [granted EXCEPT ![r] = @ + new.budget]
        /\ endless' = IF new.budget = Mask THEN endless \cup {r} ELSE endless
      OBVIOUS
  <2> HIDE DEF new, w
  <2>3. /\ word' \in [Relations -> Word] /\ word'[r] = w
        /\ granted' \in [Relations -> Nat] /\ granted'[r] = granted[r] + new.budget
        /\ \A q \in Relations : q # r => word'[q] = word[q] /\ granted'[q] = granted[q]
      BY <1>2, <1>3, <2>1, <2>2 DEF Counted
  <2>4. spent' = spent /\ spent[r] \in Nat /\ granted[r] \in Nat /\ word[r].budget \in Nat
      BY <1>3, PortAssumption DEF Counted, Word
  <2>5. r \notin endless' => /\ w.budget # Mask
                             /\ spent'[r] + w.budget <= granted'[r]
      BY <1>2, <1>3, <2>1, <2>2, <2>3, <2>4 DEF Counted
  <2>6. ASSUME NEW q \in Relations
        PROVE  /\ word'[q].budget = 0 => word'[q].canceled
               /\ q \notin endless' => /\ word'[q].budget # Mask
                                       /\ spent'[q] + word'[q].budget <= granted'[q]
    <3>1. CASE q = r
        BY <1>1, <2>1, <2>3, <2>5, <3>1
    <3>2. CASE q # r
        BY <2>2, <2>3, <2>4, <3>2 DEF Counted
    <3>3. QED
        BY <3>1, <3>2
  <2>7. Counted'
      BY <2>3, <2>4, <2>6 DEF Counted
  <2>8. EndedCanceled'
      BY <2>3 DEF EndedCanceled
  <2>9. QED
      BY <2>7, <2>8
<1>4. CASE r \notin Relations
  <2>1. word' = word /\ granted' = granted /\ endless \subseteq endless'
      BY <1>4 DEF Counted
  <2>2. QED
      BY <2>1 DEF Counted, EndedCanceled
<1>5. QED
    BY <1>3, <1>4

(* A budget that is spent is counted. *)
LEMMA BudgetSpent ==
    ASSUME Counted, EndedCanceled, NEW r, ~word[r].canceled,
           word' = [word EXCEPT ![r] = Spent(word[r])],
           spent' = [spent EXCEPT ![r] = @ + 1],
           UNCHANGED <<granted, endless, ended>>
    PROVE  Counted' /\ EndedCanceled'
<1> DEFINE w == Spent(word[r])
<1>1. CASE r \in Relations
  <2>1. word[r] \in Word /\ word[r].budget \in Nat \ {0} /\ word[r].budget <= Mask
      BY <1>1, PortAssumption DEF Counted, Word
  <2>2. w \in Word /\ w.budget = word[r].budget - 1 /\ (w.budget = 0 => w.canceled)
      BY <2>1, SpentWord
  <2>4. word' = [word EXCEPT ![r] = w]
      OBVIOUS
  <2> HIDE DEF w
  <2>5. /\ word' \in [Relations -> Word] /\ word'[r] = w
        /\ spent' \in [Relations -> Nat] /\ spent'[r] = spent[r] + 1
        /\ \A q \in Relations : q # r => word'[q] = word[q] /\ spent'[q] = spent[q]
      BY <1>1, <2>2, <2>4 DEF Counted
  <2>6. ASSUME NEW q \in Relations
        PROVE  /\ word'[q].budget = 0 => word'[q].canceled
               /\ q \notin endless' => /\ word'[q].budget # Mask
                                       /\ spent'[q] + word'[q].budget <= granted'[q]
    <3>1. CASE q = r
      <4>1. spent[r] \in Nat /\ granted[r] \in Nat /\ Mask \in Nat
          BY <1>1, PortAssumption DEF Counted
      <4>2. w.budget = 0 => w.canceled
          BY <2>1, <2>2
      <4>3. r \notin endless => w.budget # Mask /\ spent[r] + 1 + w.budget <= granted[r]
          BY <1>1, <2>1, <2>2, <4>1 DEF Counted
      <4>4. QED
          BY <2>5, <3>1, <4>2, <4>3
    <3>2. CASE q # r
        BY <2>5, <3>2 DEF Counted
    <3>3. QED
        BY <3>1, <3>2
  <2>7. Counted'
      BY <2>5, <2>6 DEF Counted
  <2>8. EndedCanceled'
      BY <2>5 DEF EndedCanceled
  <2>9. QED
      BY <2>7, <2>8
<1>2. CASE r \notin Relations
  <2>1. word' = word /\ spent' = spent
      BY <1>2 DEF Counted
  <2>2. QED
      BY <2>1 DEF Counted, EndedCanceled
<1>3. QED
    BY <1>1, <1>2

(* What the owners and the emitters do to the words. *)
LEMMA OwnerWords ==
    ASSUME Counted, EndedCanceled, Seen, NEW o \in Owners, OwnerStep(o)
    PROVE  Counted' /\ EndedCanceled'
<1> USE DEF historyVars
<1>1. ASSUME NEW r \in Relations, Connect(o, r) PROVE Counted' /\ EndedCanceled'
    BY <1>1, WordsMarked DEF Connect
<1>2. ASSUME NEW r \in Relations, Disconnect(o, r) PROVE Counted' /\ EndedCanceled'
    BY <1>2, WordsMarked DEF Disconnect
<1>3. ASSUME NEW r \in Relations, NEW suspended \in BOOLEAN, SetSuspended(o, r, suspended)
      PROVE Counted' /\ EndedCanceled'
    BY <1>3, WordsMarked DEF SetSuspended
<1>4. ASSUME NEW r \in Relations, NEW budget \in NewBudgets, SetBudget(o, r, budget)
      PROVE Counted' /\ EndedCanceled'
    BY <1>4, WordsMarked DEF SetBudget
<1>5. CASE Insert(o) \/ AttachInbound(o) \/ RemoveSubscription(o)
    BY <1>5, WordsMarked DEF Insert, AttachInbound, RemoveSubscription
<1>6. CASE ReplaceBudget(o)
  <2> DEFINE r == thread[o].relation
             budget == thread[o].budget
  <2>1. budget \in Nat
      BY <1>6 DEF ReplaceBudget, At, Seen, Threads
  <2>2. CASE word[r] = thread[o].seen
    <3>1. /\ word' = [word EXCEPT ![r] =
                        [Pack(budget) EXCEPT !.suspended = word[r].suspended]]
          /\ granted' = [granted EXCEPT ![r] = @ + Pack(budget).budget]
          /\ endless' = IF Pack(budget).budget = Mask THEN endless \cup {r} ELSE endless
          /\ ended' = ended \ {r} /\ UNCHANGED spent
        BY <1>6, <2>2 DEF ReplaceBudget
    <3> HIDE DEF r, budget
    <3>2. QED
        BY <2>1, <3>1, BudgetReplaced
  <2>3. CASE word[r] # thread[o].seen
      BY <1>6, <2>3, WordsMarked DEF ReplaceBudget
  <2>4. QED
      BY <2>2, <2>3
<1>7. CASE CancelAll(o)
    BY <1>7, WordsMarked DEF CancelAll
<1>8. CASE CancelInbound(o)
    BY <1>8, WordsMarked DEF CancelInbound
<1>9. ASSUME NEW v \in Receivers, Destroy(o, v) PROVE Counted' /\ EndedCanceled'
    BY <1>9, WordsMarked DEF Destroy
<1>10. QED
    BY <1>1, <1>2, <1>3, <1>4, <1>5, <1>6, <1>7, <1>8, <1>9 DEF OwnerStep

LEMMA EmitterWords ==
    ASSUME Counted, EndedCanceled, Seen, NEW e \in Emitters, EmitterStep(e)
    PROVE  Counted' /\ EndedCanceled'
<1> USE DEF historyVars
<1>1. CASE BeginEmission(e, "lease") \/ BeginEmission(e, "select")
    BY <1>1, WordsMarked DEF BeginEmission
<1>2. CASE Lease(e)
    BY <1>2, WordsMarked DEF Lease
<1>3. CASE BeginDispatch(e) \/ Callback(e) \/ Select(e)
    BY <1>3, WordsMarked DEF BeginDispatch, Callback, Select
<1>4. CASE Spend(e)
  <2> DEFINE r == Current(e)
  <2>1. CASE word[r] = thread[e].seen
    <3>1. /\ word' = [word EXCEPT ![r] = Spent(word[r])]
          /\ spent' = [spent EXCEPT ![r] = @ + 1]
          /\ UNCHANGED <<granted, endless, ended>>
        BY <1>4, <2>1 DEF Spend
    <3>2. ~word[r].canceled
        BY <1>4, <2>1 DEF Spend, At, Seen, Threads
    <3> HIDE DEF r
    <3>3. QED
        BY <3>1, <3>2, BudgetSpent
  <2>2. CASE word[r] # thread[e].seen
      BY <1>4, <2>2, WordsMarked DEF Spend
  <2>3. QED
      BY <2>1, <2>2
<1>5. CASE Retain(e)
    BY <1>5, WordsMarked DEF Retain
<1>6. ASSUME NEW i \in 1 .. Len(batches), RunBatch(e, i) \/ DropBatch(e, i)
      PROVE Counted' /\ EndedCanceled'
    BY <1>6, WordsMarked DEF RunBatch, DropBatch, TakeBatch
<1>7. QED
    BY <1>1, <1>2, <1>3, <1>4, <1>5, <1>6 DEF EmitterStep

(* Every step keeps the invariant, and is one thread's. *)
LEMMA StepIInv ==
    ASSUME IInv, [Next]_vars
    PROVE  IInv' /\ ((\E x \in Threads : ThreadStep(x)) \/ UNCHANGED thread)
<1>1. CASE UNCHANGED vars
    BY <1>1 DEF vars, historyVars, IInv, Counted, Seen, EndedCanceled, SentSeq
<1>2. ASSUME NEW o \in Owners, OwnerStep(o)
      PROVE IInv' /\ \E x \in Threads : ThreadStep(x)
    BY <1>2, OwnerThread, OwnerWords, SeenStep DEF IInv, Threads
<1>3. ASSUME NEW e \in Emitters, EmitterStep(e)
      PROVE IInv' /\ \E x \in Threads : ThreadStep(x)
    BY <1>3, EmitterThread, EmitterWords, SeenStep DEF IInv, Threads
<1>4. QED
    BY <1>1, <1>2, <1>3, NextSplit

(* A relation that was never persistent is entered no more often than the  *)
(* budgets it was given allow (EventPort.h, TryBeginDispatch and           *)
(* SetBudget).                                                             *)
THEOREM BudgetKept == Spec => []BudgetRespected
<1>1. Init => IInv
    BY InitIInv
<1>2. IInv /\ [Next]_vars => IInv'
    BY StepIInv
<1>3. IInv => BudgetRespected
  <2> SUFFICES ASSUME Counted, NEW r \in Relations, r \notin endless
               PROVE  spent[r] <= granted[r]
      BY DEF IInv, BudgetRespected
  <2>1. spent[r] \in Nat /\ granted[r] \in Nat /\ word[r].budget \in Nat
      BY PortAssumption DEF Counted, Word
  <2>2. spent[r] + word[r].budget <= granted[r]
      BY DEF Counted
  <2>3. QED
      BY <2>1, <2>2
<1>4. QED
    BY <1>1, <1>2, <1>3, PTL DEF Spec

(* What DisconnectIsFinal says of one step. *)
Begins ==
    \A e \in Emitters : Len(thread'[e].sent) > Len(thread[e].sent) =>
        thread'[e].sent[Len(thread'[e].sent)] \notin ended

(* A relation that is entered was not canceled, so it has not ended. *)
LEMMA BeginsActive == ASSUME IInv, [Next]_vars PROVE Begins
<1> SUFFICES ASSUME NEW e \in Emitters, Len(thread'[e].sent) > Len(thread[e].sent)
             PROVE  thread'[e].sent[Len(thread'[e].sent)] \notin ended
    BY DEF Begins
<1>1. e \in Threads /\ IsSeq(thread[e].sent)
    BY DEF IInv, SentSeq, Threads
<1>2. Len(thread[e].sent) \in Nat
    BY <1>1, AppendIsSeq
<1>3. thread'[e].sent # thread[e].sent /\ thread'[e].sent # << >>
    BY <1>2, NoneSent
<1>4. /\ thread'[e].sent = Append(thread[e].sent, Current(e))
      /\ ~word[Current(e)].canceled
    BY <1>1, <1>3, StepIInv DEF ThreadStep, Sends
<1>5. QED
    BY <1>1, <1>4, AppendIsSeq DEF IInv, EndedCanceled

(* No dispatch begins of a relation that was disconnected, whoever selected *)
(* it before (EventPort.h, Disconnect and TryBeginDispatch).               *)
THEOREM DisconnectedStays == Spec => DisconnectIsFinal
<1>1. Init => IInv
    BY InitIInv
<1>2. IInv /\ [Next]_vars => IInv'
    BY StepIInv
<1>3. IInv /\ [Next]_vars => [Begins]_vars
    BY BeginsActive
<1>4. QED
    BY <1>1, <1>2, <1>3, PTL DEF Spec, DisconnectIsFinal, Begins
-----------------------------------------------------------------------------
(***************************************************************************)
(* The order of delivery, and who is owed one.                             *)
(***************************************************************************)
Connected == {r \in Relations : order[r] # 0}
Serving == {"lease", "begin", "spend", "callback"}
Selecting == {"select", "retain"}
Walking == Serving \cup Selecting

Rests(new) ==
    new.rest = << >> /\ new.acts = << >> /\ new.sent = << >> /\ new.owed = {}

Same(th, new) ==
    /\ new.rest = th.rest /\ new.acts = th.acts /\ new.sent = th.sent
    /\ new.relation = th.relation /\ new.owed \subseteq th.owed

Alike(th, new) == Same(th, new) /\ new.pc = th.pc

(* A call of an owner, or of nobody. *)
CallsOwn(new) ==
    /\ Rests(new)
    /\ \/ new.pc \in {"idle", "remove", "set"}
       \/ new.pc = "insert" /\ new.relation \in Relations /\ order'[new.relation] # 0
       \/ new.pc = "cancel" /\ new.relation \in Receivers /\ ~alive'[new.relation]

(* A thread goes on with the same relation. *)
GoesOn(th, new) ==
    /\ Same(th, new)
    /\ \/ new.pc = th.pc
       \/ th.pc = "insert" /\ new.pc = "attach"
       \/ th.pc = "lease" /\ new.pc = "begin"
       \/ th.pc = "select" /\ new.pc = "retain"
       \/ th.pc = "begin" /\ new.pc = "spend"

(* An emission or a batch begins. *)
Sets(new) ==
    /\ new.sent = << >>
    /\ \/ /\ new.pc \in {"lease", "select"} /\ subscriptions # << >>
          /\ new.rest = subscriptions /\ new.acts = << >>
          /\ new.owed \subseteq {r \in ToSet(subscriptions) : new.pc = "lease" /\ Steady(r)}
       \/ /\ new.pc = "begin" /\ new.owed = {}
          /\ \E i \in 1 .. Len(batches) : new.rest = batches[i] /\ new.acts = batches[i]

(* A relation is entered. *)
EntersOne(th, new) ==
    /\ th.pc \in {"begin", "spend"} /\ new.pc = "callback"
    /\ new.rest = th.rest /\ new.acts = th.acts /\ new.owed \subseteq th.owed
    /\ new.sent = Append(th.sent, Head(th.rest))

(* A relation is passed: skipped, over, or selected for later. *)
Passes(th, new) ==
    /\ th.pc \in Walking
    /\ th.pc \in Serving \ {"callback"} => ~Steady(Head(th.rest))
    /\ IF Len(th.rest) > 1
       THEN /\ new.rest = Tail(th.rest) /\ new.sent = th.sent /\ new.owed \subseteq th.owed
            /\ IF th.pc \in Selecting
               THEN new.pc = "select" /\ new.acts \in {th.acts, Append(th.acts, Head(th.rest))}
               ELSE new.pc \in {"lease", "begin"}
       ELSE /\ new.pc = "idle" /\ new.rest = << >> /\ new.acts = << >> /\ new.sent = << >>
            /\ new.owed \subseteq th.owed \ ToSet(th.sent)

Steps(th, new) ==
    CallsOwn(new) \/ GoesOn(th, new) \/ Sets(new) \/ EntersOne(th, new) \/ Passes(th, new)

(* One thread's step, as far as relations are concerned. *)
Moves(x) ==
    /\ DOMAIN thread' = Threads
    /\ \A t \in Threads : t # x => Alike(thread[t], thread'[t])
    /\ Steps(thread[x], thread'[x])

LEMMA DisturbedAlike ==
    ASSUME NEW threads, NEW touched, DOMAIN threads = Threads, NEW t \in Threads,
           DOMAIN threads[t] = Fields
    PROVE  LET new == Disturbed(threads, touched) IN
           /\ DOMAIN new = Threads /\ Alike(threads[t], new[t])
           /\ new[t].owed = threads[t].owed \ touched
BY DEF Disturbed, Fields, Alike, Same

LEMMA StepsFewer ==
    ASSUME NEW th, NEW mid, NEW new, Steps(th, mid), Alike(mid, new)
    PROVE  Steps(th, new)
<1>1. CASE CallsOwn(mid)
    BY <1>1 DEF Steps, CallsOwn, Alike, Same, Rests
<1>2. CASE GoesOn(th, mid)
    BY <1>2 DEF Steps, GoesOn, Alike, Same
<1>3. CASE Sets(mid)
    BY <1>3 DEF Steps, Sets, Alike, Same
<1>4. CASE EntersOne(th, mid)
    BY <1>4 DEF Steps, EntersOne, Alike, Same
<1>5. CASE Passes(th, mid)
    BY <1>5 DEF Steps, Passes, Alike, Same
<1>6. QED
    BY <1>1, <1>2, <1>3, <1>4, <1>5 DEF Steps

(* A thread's record is replaced, and the others may be disturbed. *)
LEMMA MovesOne ==
    ASSUME Seen, NEW x \in Threads, NEW th, NEW touched, DOMAIN th = Fields,
           Steps(thread[x], th),
           \/ thread' = [thread EXCEPT ![x] = th]
           \/ thread' = Disturbed([thread EXCEPT ![x] = th], touched)
    PROVE  Moves(x)
<1> DEFINE threads == [thread EXCEPT ![x] = th]
<1>1. /\ DOMAIN threads = Threads /\ threads[x] = th
      /\ \A t \in Threads : DOMAIN threads[t] = Fields
      /\ \A t \in Threads : t # x => threads[t] = thread[t]
    BY DEF Seen
<1>2. thread' = threads \/ thread' = Disturbed(threads, touched)
    OBVIOUS
<1> HIDE DEF threads
<1>3. DOMAIN thread' = Threads /\ \A t \in Threads : Alike(threads[t], thread'[t])
  <2>1. CASE thread' = threads
      BY <1>1, <2>1 DEF Alike, Same
  <2>2. CASE thread' = Disturbed(threads, touched)
      BY <1>1, <2>2, DisturbedAlike
  <2>3. QED
      BY <1>2, <2>1, <2>2
<1>4. Steps(thread[x], thread'[x])
    BY <1>1, <1>3, StepsFewer
<1>5. QED
    BY <1>1, <1>3, <1>4 DEF Moves

(* Numbers are given once, and receivers end once. *)
PositiveOrder ==
    /\ order \in [Relations -> Nat] /\ nextId \in Nat
    /\ DOMAIN alive = Receivers
-----------------------------------------------------------------------------
(* The owners' steps. *)
LEMMA OwnerMoves ==
    ASSUME Seen, PositiveOrder, NEW o \in Owners, OwnerStep(o)
    PROVE  Moves(o)
<1>0. o \in Threads /\ DOMAIN thread[o] = Fields
    BY DEF Threads, Seen
<1>a. DOMAIN Idle = Fields /\ Rests(Idle)
    BY DEF Idle, Fields, Rests
<1>b. ASSUME NEW th, NEW touched, DOMAIN th = Fields, Rests(th),
             \/ th.pc \in {"idle", "remove", "set"}
             \/ th.pc = "insert" /\ th.relation \in Relations /\ order'[th.relation] # 0
             \/ th.pc = "cancel" /\ th.relation \in Receivers /\ ~alive'[th.relation],
             \/ thread' = [thread EXCEPT ![o] = th]
             \/ thread' = Disturbed([thread EXCEPT ![o] = th], touched)
      PROVE  Moves(o)
  <2>1. Steps(thread[o], th)
      BY <1>b DEF Steps, CallsOwn
  <2>2. QED
      BY <1>0, <1>b, <2>1, MovesOne
<1>c. ASSUME NEW th, NEW touched, DOMAIN th = Fields, Same(thread[o], th),
             th.pc = thread[o].pc \/ (thread[o].pc = "insert" /\ th.pc = "attach"),
             \/ thread' = [thread EXCEPT ![o] = th]
             \/ thread' = Disturbed([thread EXCEPT ![o] = th], touched)
      PROVE  Moves(o)
  <2>1. Steps(thread[o], th)
      BY <1>c DEF Steps, GoesOn
  <2>2. QED
      BY <1>0, <1>c, <2>1, MovesOne
<1>d. ASSUME NEW touched,
             \/ thread' = [thread EXCEPT ![o] = Return(thread[o])]
             \/ thread' = Disturbed([thread EXCEPT ![o] = Return(thread[o])], touched)
      PROVE  Moves(o)
  <2> DEFINE th == Return(thread[o])
  <2>1. DOMAIN th = Fields /\ th.pc = "idle" /\ Rests(th)
      BY <1>a, IdleFields DEF Return, Fields, Rests
  <2> HIDE DEF th
  <2>2. QED
      BY <1>b, <1>d, <2>1 DEF th
<1>e. ASSUME NEW touched, thread' = Disturbed([thread EXCEPT ![o].calls = @ + 1], touched)
      PROVE  Moves(o)
  <2> DEFINE th == [thread[o] EXCEPT !.calls = @ + 1]
  <2>1. DOMAIN th = Fields /\ th.pc = thread[o].pc /\ Same(thread[o], th)
      BY <1>0 DEF Fields, Same
  <2>2. thread' = Disturbed([thread EXCEPT ![o] = th], touched)
      BY <1>e
  <2> HIDE DEF th
  <2>3. QED
      BY <1>c, <2>1, <2>2
<1>1. ASSUME NEW r \in Relations, Connect(o, r) PROVE Moves(o)
  <2> DEFINE th == [Idle EXCEPT !.pc = "insert", !.relation = r, !.calls = thread[o].calls + 1]
  <2>1. DOMAIN th = Fields /\ th.pc = "insert" /\ th.relation = r /\ Rests(th)
      BY <1>a DEF Fields, Rests
  <2>2. thread' = [thread EXCEPT ![o] = th]
      BY <1>1 DEF Connect, Call, Idle
  <2>3. order'[r] # 0
      BY <1>1 DEF Connect, PositiveOrder
  <2> HIDE DEF th
  <2>4. QED
      BY <1>b, <2>1, <2>2, <2>3
<1>2. ASSUME NEW r \in Relations, Disconnect(o, r) PROVE Moves(o)
  <2> DEFINE th == [Idle EXCEPT !.pc = "remove", !.relation = r,
                                !.calls = thread[o].calls + 1]
  <2>1. DOMAIN th = Fields /\ th.pc = "remove" /\ Rests(th)
      BY <1>a DEF Fields, Rests
  <2>2. thread' = Disturbed([thread EXCEPT ![o] = th], {r})
      BY <1>2 DEF Disconnect
  <2> HIDE DEF th
  <2>3. QED
      BY <1>b, <2>1, <2>2
<1>3. ASSUME NEW r \in Relations, NEW suspended \in BOOLEAN, SetSuspended(o, r, suspended)
      PROVE Moves(o)
    BY <1>3, <1>e DEF SetSuspended
<1>4. ASSUME NEW r \in Relations, NEW budget \in NewBudgets, SetBudget(o, r, budget)
      PROVE Moves(o)
  <2> DEFINE th == [Idle EXCEPT !.pc = "set", !.relation = r, !.budget = budget,
                                !.seen = word[r], !.calls = thread[o].calls + 1]
  <2>1. DOMAIN th = Fields /\ th.pc = "set" /\ Rests(th)
      BY <1>a DEF Fields, Rests
  <2>2. thread' = [thread EXCEPT ![o] = th]
      BY <1>4 DEF SetBudget, Call, Idle
  <2> HIDE DEF th
  <2>3. QED
      BY <1>b, <2>1, <2>2
<1>5. CASE Insert(o)
  <2> DEFINE th == [thread[o] EXCEPT !.pc = "attach"]
  <2>1. DOMAIN th = Fields /\ thread[o].pc = "insert" /\ th.pc = "attach" /\ Same(thread[o], th)
      BY <1>0, <1>5 DEF Fields, Same, Insert, At
  <2>2. thread' = [thread EXCEPT ![o] = th]
      BY <1>5 DEF Insert
  <2> HIDE DEF th
  <2>3. QED
      BY <1>c, <2>1, <2>2
<1>6. CASE AttachInbound(o) \/ RemoveSubscription(o) \/ CancelInbound(o)
  <2>1. thread' = [thread EXCEPT ![o] = Return(thread[o])]
      BY <1>6 DEF AttachInbound, RemoveSubscription, CancelInbound
  <2>2. QED
      BY <1>d, <2>1
<1>7. CASE ReplaceBudget(o)
  <2> DEFINE r == thread[o].relation
             th == [thread[o] EXCEPT !.seen = word[r]]
  <2>1. DOMAIN th = Fields /\ th.pc = thread[o].pc /\ Same(thread[o], th)
      BY <1>0 DEF Fields, Same
  <2>2. \/ thread' = [thread EXCEPT ![o] = th]
        \/ thread' = Disturbed([thread EXCEPT ![o] = Return(thread[o])], {r})
      BY <1>7 DEF ReplaceBudget
  <2> HIDE DEF th
  <2>4. QED
      BY <1>c, <1>d, <2>1, <2>2
<1>8. CASE CancelAll(o)
    BY <1>8, <1>e DEF CancelAll
<1>9. ASSUME NEW v \in Receivers, Destroy(o, v) PROVE Moves(o)
  <2> DEFINE th == [Idle EXCEPT !.pc = "cancel", !.relation = v,
                                !.calls = thread[o].calls + 1]
  <2>1. DOMAIN th = Fields /\ th.pc = "cancel" /\ th.relation = v /\ Rests(th)
      BY <1>a DEF Fields, Rests
  <2>2. thread' = Disturbed([thread EXCEPT ![o] = th],
                            {r \in Relations : ReceiverOf[r] = v})
      BY <1>9 DEF Destroy
  <2>3. ~alive'[v]
      BY <1>9 DEF Destroy, PositiveOrder
  <2> HIDE DEF th
  <2>4. QED
      BY <1>b, <2>1, <2>2, <2>3
<1>10. QED
    BY <1>1, <1>2, <1>3, <1>4, <1>5, <1>6, <1>7, <1>8, <1>9 DEF OwnerStep
-----------------------------------------------------------------------------
(* The emitters' steps. *)
LEMMA PassesOne ==
    ASSUME NEW th, NEW mid, NEW label, DOMAIN mid = Fields,
           th.pc \in Walking, th.pc \in Serving \ {"callback"} => ~Steady(Head(th.rest)),
           mid.rest = th.rest, mid.sent = th.sent, mid.owed = th.owed,
           IF th.pc \in Selecting
           THEN label = "select" /\ mid.acts \in {th.acts, Append(th.acts, Head(th.rest))}
           ELSE label \in {"lease", "begin"}
    PROVE  DOMAIN Forward(mid, label) = Fields /\ Passes(th, Forward(mid, label))
<1>1. CASE Len(th.rest) > 1
  <2>1. Forward(mid, label) = [mid EXCEPT !.pc = label, !.rest = Tail(th.rest)]
      BY <1>1 DEF Forward
  <2> DEFINE new == [mid EXCEPT !.pc = label, !.rest = Tail(th.rest)]
  <2>2. /\ DOMAIN new = Fields /\ new.pc = label /\ new.rest = Tail(th.rest)
        /\ new.sent = mid.sent /\ new.owed = mid.owed /\ new.acts = mid.acts
      BY DEF Fields
  <2> HIDE DEF new
  <2>3. Passes(th, new)
      BY <1>1, <2>2 DEF Passes
  <2>4. QED
      BY <2>1, <2>2, <2>3 DEF new
<1>2. CASE ~(Len(th.rest) > 1)
  <2> DEFINE new == Finish(mid)
  <2>1. Forward(mid, label) = new
      BY <1>2 DEF Forward
  <2>2. /\ DOMAIN new = Fields /\ new.pc = "idle" /\ new.rest = << >>
        /\ new.sent = << >> /\ new.owed = mid.owed \ ToSet(mid.sent) /\ new.acts = << >>
      BY DEF Finish, Return, Idle, Fields
  <2> HIDE DEF new
  <2>3. Passes(th, new)
      BY <1>2, <2>2 DEF Passes
  <2>4. QED
      BY <2>1, <2>2, <2>3
<1>3. QED
    BY <1>1, <1>2

LEMMA EmitterMoves ==
    ASSUME Seen, Counted, NEW e \in Emitters, EmitterStep(e)
    PROVE  Moves(e)
<1>0. e \in Threads /\ DOMAIN thread[e] = Fields
    BY DEF Threads, Seen
<1>a. Mask # 0
    BY PortAssumption
<1> DEFINE r == Current(e)
           w == word[r]
           next == NextLabel(thread[e])
<1>b. next \in {"lease", "begin"} /\ r = Head(thread[e].rest)
    BY DEF NextLabel, Current
<1>s. w.canceled \/ w.suspended \/ w.budget # Mask => ~Steady(r)
    BY DEF Steady
<1>c. ASSUME NEW mid, NEW label, NEW touched, DOMAIN mid = Fields,
             thread[e].pc \in Walking, thread[e].pc \in Serving \ {"callback"} => ~Steady(r),
             mid.rest = thread[e].rest, mid.sent = thread[e].sent, mid.owed = thread[e].owed,
             IF thread[e].pc \in Selecting
             THEN label = "select" /\ mid.acts \in {thread[e].acts, Append(thread[e].acts, r)}
             ELSE label \in {"lease", "begin"},
             \/ thread' = [thread EXCEPT ![e] = Forward(mid, label)]
             \/ thread' = Disturbed([thread EXCEPT ![e] = Forward(mid, label)], touched)
      PROVE  Moves(e)
  <2>1. DOMAIN Forward(mid, label) = Fields /\ Passes(thread[e], Forward(mid, label))
      BY <1>b, <1>c, PassesOne
  <2>2. Steps(thread[e], Forward(mid, label))
      BY <2>1 DEF Steps
  <2>3. QED
      BY <1>0, <1>c, <2>1, <2>2, MovesOne
<1>d. ASSUME NEW touched, thread[e].pc \in {"begin", "spend"},
             \/ thread' = [thread EXCEPT ![e] = Enter(thread[e])]
             \/ thread' = Disturbed([thread EXCEPT ![e] = Enter(thread[e])], touched)
      PROVE  Moves(e)
  <2> DEFINE th == Enter(thread[e])
  <2>1. /\ DOMAIN th = Fields /\ th.pc = "callback" /\ th.rest = thread[e].rest
        /\ th.acts = thread[e].acts /\ th.owed = thread[e].owed
        /\ th.sent = Append(thread[e].sent, r)
      BY <1>0, <1>b DEF Enter, Fields
  <2> HIDE DEF th
  <2>2. Steps(thread[e], th)
      BY <1>b, <1>d, <2>1 DEF Steps, EntersOne
  <2>3. QED
      BY <1>0, <1>d, <2>1, <2>2, MovesOne DEF th
<1>e. ASSUME NEW th, NEW touched, DOMAIN th = Fields, GoesOn(thread[e], th),
             thread' = [thread EXCEPT ![e] = th]
      PROVE  Moves(e)
    BY <1>0, <1>e, MovesOne DEF Steps
<1>1. ASSUME NEW label, label \in {"lease", "select"}, BeginEmission(e, label)
      PROVE Moves(e)
  <2> DEFINE new == {q \in ToSet(subscriptions) : label = "lease" /\ Steady(q)}
             th == [Idle EXCEPT !.pc = label, !.rest = subscriptions,
                      !.calls = thread[e].calls + 1, !.owed = new]
  <2>1. /\ DOMAIN th = Fields /\ th.pc = label /\ th.sent = << >> /\ th.acts = << >>
        /\ th.rest = subscriptions /\ th.owed = new
      BY DEF Idle, Fields
  <2>2. thread' = [thread EXCEPT ![e] = th] /\ subscriptions # << >>
      BY <1>1 DEF BeginEmission
  <2>3. th.owed \subseteq {q \in ToSet(subscriptions) : th.pc = "lease" /\ Steady(q)}
      BY <2>1
  <2> HIDE DEF th, new
  <2>4. Steps(thread[e], th)
      BY <1>1, <2>1, <2>2, <2>3 DEF Steps, Sets
  <2>5. QED
      BY <1>0, <2>1, <2>2, <2>4, MovesOne
<1>2. CASE Lease(e)
  <2>0. thread[e].pc = "lease"
      BY <1>2 DEF Lease, At
  <2>1. CASE alive[ReceiverOf[r]]
    <3> DEFINE th == [thread[e] EXCEPT !.pc = "begin"]
    <3>1. DOMAIN th = Fields /\ GoesOn(thread[e], th)
        BY <1>0, <2>0 DEF Fields, GoesOn, Same
    <3>2. thread' = [thread EXCEPT ![e] = th]
        BY <1>2, <2>1 DEF Lease
    <3> HIDE DEF th
    <3>3. QED
        BY <1>e, <3>1, <3>2
  <2>2. CASE ~alive[ReceiverOf[r]]
    <3>1. thread' = Disturbed([thread EXCEPT ![e] = Forward(thread[e], "lease")], {r})
        BY <1>2, <2>2 DEF Lease, Skip
    <3>2. ~Steady(r)
        BY <2>2 DEF Steady
    <3>3. thread[e].pc \in Walking /\ thread[e].pc \notin Selecting
        BY <2>0 DEF Walking, Serving, Selecting
    <3> HIDE DEF r, w, next
    <3>4. QED
        BY <1>0, <1>c, <3>1, <3>2, <3>3
  <2>3. QED
      BY <2>1, <2>2
<1>3. CASE BeginDispatch(e)
  <2> DEFINE th == [thread[e] EXCEPT !.pc = "spend", !.seen = w]
  <2>0. thread[e].pc = "begin"
      BY <1>3 DEF BeginDispatch, At
  <2>1. w.budget # Mask => DOMAIN th = Fields /\ GoesOn(thread[e], th)
      BY <1>0, <1>b, <1>s, <2>0 DEF Fields, GoesOn, Same
  <2>2. \/ (w.canceled \/ w.suspended)
           /\ thread' = [thread EXCEPT ![e] = Forward(thread[e], next)]
        \/ thread' = [thread EXCEPT ![e] = Enter(thread[e])]
        \/ w.budget # Mask /\ thread' = [thread EXCEPT ![e] = th]
      BY <1>3 DEF BeginDispatch
  <2>3. thread[e].pc \in Walking /\ thread[e].pc \notin Selecting
      BY <2>0 DEF Walking, Serving, Selecting
  <2> HIDE DEF th, r, w, next
  <2>4. QED
      BY <1>0, <1>b, <1>s, <1>c, <1>d, <1>e, <2>0, <2>1, <2>2, <2>3
<1>4. CASE Spend(e)
  <2> DEFINE th == [thread[e] EXCEPT !.seen = w]
  <2>0. thread[e].pc = "spend"
      BY <1>4 DEF Spend, At
  <2>1. DOMAIN th = Fields /\ GoesOn(thread[e], th)
      BY <1>0 DEF Fields, GoesOn, Same
  <2>2. \/ (w.canceled \/ w.suspended \/ w.budget = 0)
           /\ thread' = [thread EXCEPT ![e] = Forward(thread[e], next)]
        \/ thread' = Disturbed([thread EXCEPT ![e] = Enter(thread[e])], {r})
        \/ thread' = [thread EXCEPT ![e] = th]
      BY <1>4 DEF Spend
  <2>3. thread[e].pc \in Walking /\ thread[e].pc \notin Selecting
      BY <2>0 DEF Walking, Serving, Selecting
  <2> HIDE DEF th, r, w, next
  <2>4. QED
      BY <1>0, <1>a, <1>b, <1>s, <1>c, <1>d, <1>e, <2>0, <2>1, <2>2, <2>3
<1>5. CASE Callback(e)
  <2>0. thread[e].pc = "callback"
      BY <1>5 DEF Callback, At
  <2>1. CASE thread' = [thread EXCEPT ![e] = Forward(thread[e], next)]
    <3>1. thread[e].pc \in Walking /\ thread[e].pc \notin Selecting
          /\ thread[e].pc \notin Serving \ {"callback"}
        BY <2>0 DEF Walking, Serving, Selecting
    <3> HIDE DEF r, w, next
    <3>2. QED
        BY <1>0, <1>b, <1>c, <2>1, <3>1
  <2>2. CASE thread' = [thread EXCEPT ![e] = Return(thread[e])]
    <3> DEFINE th == Return(thread[e])
    <3>1. DOMAIN th = Fields /\ th.pc = "idle" /\ Rests(th)
        BY DEF Return, Idle, Fields, Rests
    <3> HIDE DEF th
    <3>2. Steps(thread[e], th)
        BY <3>1 DEF Steps, CallsOwn
    <3>3. QED
        BY <1>0, <2>2, <3>1, <3>2, MovesOne DEF th
  <2>3. QED
      BY <1>5, <2>1, <2>2 DEF Callback
<1>6. CASE Select(e)
  <2> DEFINE th == [thread[e] EXCEPT !.pc = "retain"]
  <2>0. thread[e].pc = "select"
      BY <1>6 DEF Select, At
  <2>1. DOMAIN th = Fields /\ GoesOn(thread[e], th)
      BY <1>0, <2>0 DEF Fields, GoesOn, Same
  <2>2. \/ thread' = [thread EXCEPT ![e] = Forward(thread[e], "select")]
        \/ thread' = [thread EXCEPT ![e] = th]
      BY <1>6 DEF Select
  <2>3. thread[e].pc \in Walking /\ thread[e].pc \in Selecting
        /\ thread[e].pc \notin Serving \ {"callback"}
      BY <2>0 DEF Walking, Serving, Selecting
  <2> HIDE DEF th, r, w, next
  <2>4. QED
      BY <1>0, <1>c, <1>e, <2>1, <2>2, <2>3
<1>7. CASE Retain(e)
  <2>0. thread[e].pc = "retain"
      BY <1>7 DEF Retain, At
  <2> DEFINE retained == alive[ReceiverOf[r]] /\ ReceiverOf[r] \in Shared
             acts == IF retained THEN Append(thread[e].acts, r) ELSE thread[e].acts
             touched == IF retained THEN {} ELSE {r}
  <2>1. /\ acts \in {thread[e].acts, Append(thread[e].acts, r)}
        /\ thread' = Disturbed([thread EXCEPT ![e] =
             Forward([thread[e] EXCEPT !.acts = acts], "select")], touched)
      BY <1>7 DEF Retain
  <2> HIDE DEF retained, acts, touched
  <2> DEFINE th == [thread[e] EXCEPT !.acts = acts]
  <2>2. /\ DOMAIN th = Fields /\ th.sent = thread[e].sent /\ th.rest = thread[e].rest
        /\ th.owed = thread[e].owed /\ th.acts = acts
      BY <1>0 DEF Fields
  <2>3. thread' = Disturbed([thread EXCEPT ![e] = Forward(th, "select")], touched)
      BY <2>1
  <2>4. thread[e].pc \in Walking /\ thread[e].pc \in Selecting
        /\ thread[e].pc \notin Serving \ {"callback"}
      BY <2>0 DEF Walking, Serving, Selecting
  <2> HIDE DEF th, r, w, next
  <2>5. QED
      BY <1>c, <2>1, <2>2, <2>3, <2>4
<1>8. ASSUME NEW i \in 1 .. Len(batches), RunBatch(e, i) PROVE Moves(e)
  <2> DEFINE th == [Idle EXCEPT !.pc = "begin", !.mode = "batch", !.rest = batches[i],
                      !.acts = batches[i], !.calls = thread[e].calls]
  <2>1. /\ DOMAIN th = Fields /\ th.pc = "begin" /\ th.sent = << >> /\ th.owed = {}
        /\ th.rest = batches[i] /\ th.acts = batches[i]
      BY DEF Idle, Fields
  <2>2. thread' = [thread EXCEPT ![e] = th]
      BY <1>8 DEF RunBatch
  <2> HIDE DEF th
  <2>3. Steps(thread[e], th)
      BY <2>1 DEF Steps, Sets
  <2>4. QED
      BY <1>0, <2>1, <2>2, <2>3, MovesOne
<1>9. ASSUME NEW i \in 1 .. Len(batches), DropBatch(e, i) PROVE Moves(e)
  <2>1. thread' = thread
      BY <1>9 DEF DropBatch
  <2>2. \A t \in Threads : Alike(thread[t], thread'[t])
      BY <2>1 DEF Alike, Same
  <2>3. GoesOn(thread[e], thread'[e])
      BY <2>1 DEF GoesOn, Same
  <2>4. QED
      BY <2>1, <2>2, <2>3 DEF Moves, Steps, Seen
<1>10. QED
    BY <1>1, <1>2, <1>3, <1>4, <1>5, <1>6, <1>7, <1>8, <1>9 DEF EmitterStep
-----------------------------------------------------------------------------
(* Induction: a set of numbers that is not empty has a least one. *)
LEMMA Least ==
    ASSUME NEW S, S \subseteq Nat, S # {}
    PROVE  \E n \in S : \A m \in S : n <= m
<1> DEFINE R == OpToRel(<, Nat)
<1>1. IsWellFoundedOn(R, Nat)
    BY NatLessThanWellFounded
<1>2. \A a, b \in Nat : a < b => <<a, b>> \in R
    BY DEF OpToRel
<1> HIDE DEF R
<1>3. PICK n \in S : \A m \in S : ~(<<m, n>> \in R)
    BY <1>1, WFMin
<1>4. \A m \in S : n \in Nat /\ m \in Nat /\ ~(m < n)
    BY <1>2, <1>3
<1>5. \A m \in S : n <= m
    BY <1>4
<1>6. QED
    BY <1>3, <1>5

(* What is left of a sequence. *)
LEMMA RemoveAtIs ==
    ASSUME NEW S, NEW s \in Seq(S), NEW k \in 1 .. Len(s)
    PROVE  /\ RemoveAt(s, k) \in Seq(S) /\ Len(RemoveAt(s, k)) = Len(s) - 1
           /\ \A i \in 1 .. Len(s) - 1 :
                RemoveAt(s, k)[i] = IF i < k THEN s[i] ELSE s[i + 1]
<1> DEFINE a == SubSeq(s, 1, k - 1)
           b == SubSeq(s, k + 1, Len(s))
<1>0. Len(s) \in Nat /\ k \in Nat /\ 1 <= k /\ k <= Len(s)
    BY LenProperties
<1>1. a \in Seq(S) /\ Len(a) = k - 1 /\ \A i \in 1 .. k - 1 : a[i] = s[i]
    BY <1>0
<1>2. b \in Seq(S) /\ Len(b) = Len(s) - k /\ \A i \in 1 .. Len(s) - k : b[i] = s[i + k]
    BY <1>0
<1>3. RemoveAt(s, k) = a \o b
    BY DEF RemoveAt
<1> HIDE DEF a, b
<1>4. a \o b \in Seq(S) /\ Len(a \o b) = Len(s) - 1
  <2>1. a \o b \in Seq(S) /\ Len(a \o b) = Len(a) + Len(b)
      BY <1>1, <1>2, ConcatProperties
  <2>2. (k - 1) + (Len(s) - k) = Len(s) - 1
      BY <1>0
  <2>3. QED
      BY <1>1, <1>2, <2>1, <2>2
<1>5. ASSUME NEW i \in 1 .. Len(s) - 1
      PROVE  (a \o b)[i] = IF i < k THEN s[i] ELSE s[i + 1]
  <2>1. CASE i < k
      BY <1>0, <1>1, <1>2, <1>5, <2>1
  <2>2. CASE ~(i < k)
    <3>1. (a \o b)[i] = b[i - (k - 1)] /\ i - (k - 1) \in 1 .. Len(s) - k
        BY <1>0, <1>1, <1>2, <1>5, <2>2
    <3>2. (i - (k - 1)) + k = i + 1
        BY <1>0, <1>5
    <3>3. QED
        BY <1>2, <2>2, <3>1, <3>2
  <2>3. QED
      BY <2>1, <2>2
<1>6. QED
    BY <1>3, <1>4, <1>5

(***************************************************************************)
(* Relations in the order of their priorities and ages.                    *)
(***************************************************************************)
Sorted(s) == \A i, j \in 1 .. Len(s) : i < j => Before(s[i], s[j])

(* One list is sorted, the other too, and all of the first comes before. *)
Chain(a, b) ==
    /\ Sorted(a) /\ Sorted(b)
    /\ \A i \in 1 .. Len(a), j \in 1 .. Len(b) : Before(a[i], b[j])

Numbers ==
    /\ PositiveOrder /\ priority \in [Relations -> Int]
    /\ \A r \in Relations : order[r] <= nextId
    /\ \A q, r \in Connected : order[q] = order[r] => q = r

LEMMA StrictOrder ==
    ASSUME Numbers
    PROVE  /\ \A q \in Connected : ~Before(q, q)
           /\ \A q, r \in Connected : q # r => Before(q, r) \/ Before(r, q)
           /\ \A p, q, r \in Connected : Before(p, q) /\ Before(q, r) => Before(p, r)
<1>1. \A q \in Connected : priority[q] \in Int /\ order[q] \in Nat
    BY DEF Numbers, PositiveOrder, Connected
<1>2. \A q, r \in Connected : order[q] = order[r] => q = r
    BY DEF Numbers
<1>3. QED
    BY <1>1, <1>2 DEF Before

LEMMA SortedOnce ==
    ASSUME Numbers, NEW s \in Seq(Connected), Sorted(s),
           NEW i \in 1 .. Len(s), NEW j \in 1 .. Len(s), s[i] = s[j]
    PROVE  i = j
<1>1. s[i] \in Connected /\ i \in Int /\ j \in Int
    OBVIOUS
<1>2. ~Before(s[i], s[i])
    BY <1>1, StrictOrder
<1>3. ~(i < j) /\ ~(j < i)
    BY <1>2 DEF Sorted
<1>4. QED
    BY <1>1, <1>3

LEMMA SortedCount ==
    ASSUME Numbers, NEW s \in Seq(Connected), Sorted(s)
    PROVE  /\ IsFiniteSet(ToSet(s)) /\ Cardinality(ToSet(s)) = Len(s)
           /\ s \in [1 .. Len(s) -> ToSet(s)]
<1>1. DOMAIN s = 1 .. Len(s) /\ Len(s) \in Nat
    OBVIOUS
<1>2. s = [i \in 1 .. Len(s) |-> s[i]]
    BY <1>1
<1>3. s \in [1 .. Len(s) -> ToSet(s)]
    BY <1>1, <1>2 DEF ToSet
<1>4. \A i, j \in 1 .. Len(s) : s[i] = s[j] => i = j
    BY SortedOnce
<1>5. \A x \in ToSet(s) : \E i \in 1 .. Len(s) : s[i] = x
    BY <1>1 DEF ToSet
<1>6. s \in Bijection(1 .. Len(s), ToSet(s))
    BY <1>3, <1>4, <1>5 DEF Bijection, Injection, Surjection, IsInjective
<1>7. ExistsBijection(1 .. Len(s), ToSet(s))
    BY <1>6 DEF ExistsBijection
<1>8. IsFiniteSet(1 .. Len(s))
    BY <1>1, FS_Interval
<1>9. IsFiniteSet(ToSet(s))
    BY <1>7, <1>8, FS_Bijection
<1>10. Cardinality(ToSet(s)) = Len(s)
    BY <1>1, <1>7, FS_CountingElements
<1>11. QED
    BY <1>3, <1>9, <1>10

(* A relation takes its place in a sorted list: after those that come      *)
(* before it.                                                              *)
LEMMA SortedInsert ==
    ASSUME Numbers, NEW s \in Seq(Connected), Sorted(s),
           NEW r \in Connected, r \notin ToSet(s)
    PROVE  \E f \in [1 .. Len(s) + 1 -> ToSet(s) \cup {r}] :
             \A i, j \in DOMAIN f : i < j => Before(f[i], f[j])
<1> DEFINE n == Len(s)
<1>0. n \in Nat /\ \A i \in 1 .. n : s[i] \in Connected /\ s[i] \in ToSet(s)
    BY DEF ToSet
<1>1. PICK k \in {i \in 1 .. n : Before(r, s[i])} \cup {n + 1} :
          \A m \in {i \in 1 .. n : Before(r, s[i])} \cup {n + 1} : k <= m
  <2> DEFINE S == {i \in 1 .. n : Before(r, s[i])} \cup {n + 1}
  <2>1. S \subseteq Nat /\ S # {}
      BY <1>0
  <2> HIDE DEF S
  <2>2. QED
      BY <2>1, Least DEF S
<1>2. k \in 1 .. n + 1
    BY <1>0
<1>3. ASSUME NEW i \in 1 .. n, i < k PROVE Before(s[i], r)
  <2>1. ~(k <= i) /\ i # n + 1
      BY <1>0, <1>2, <1>3
  <2>2. ~Before(r, s[i])
      BY <1>1, <2>1
  <2>3. s[i] # r /\ s[i] \in Connected
      BY <1>0
  <2>4. QED
      BY <2>2, <2>3, StrictOrder
<1>4. ASSUME NEW i \in 1 .. n, k <= i PROVE Before(r, s[i])
  <2>1. k \in 1 .. n /\ Before(r, s[k])
      BY <1>0, <1>1, <1>2, <1>4
  <2>2. CASE k = i
      BY <2>1, <2>2
  <2>3. CASE k < i
    <3>1. Before(s[k], s[i])
        BY <2>1, <2>3 DEF Sorted
    <3>2. s[k] \in Connected /\ s[i] \in Connected
        BY <1>0, <2>1
    <3>3. QED
        BY <2>1, <3>1, <3>2, StrictOrder
  <2>4. QED
      BY <1>0, <1>2, <1>4, <2>2, <2>3
<1> DEFINE f == [i \in 1 .. n + 1 |-> IF i < k THEN s[i] ELSE IF i = k THEN r ELSE s[i - 1]]
<1>5. ASSUME NEW i \in 1 .. n + 1
      PROVE  /\ i < k => i \in 1 .. n /\ f[i] = s[i]
             /\ i = k => f[i] = r
             /\ i > k => i - 1 \in 1 .. n /\ k <= i - 1 /\ f[i] = s[i - 1]
    BY <1>0, <1>2
<1>6. DOMAIN f = 1 .. n + 1
    OBVIOUS
<1>7. f \in [1 .. n + 1 -> ToSet(s) \cup {r}]
  <2> SUFFICES ASSUME NEW i \in 1 .. n + 1
               PROVE  (IF i < k THEN s[i] ELSE IF i = k THEN r ELSE s[i - 1]) \in ToSet(s) \cup {r}
      OBVIOUS
  <2>1. i \in Int /\ k \in Int
      BY <1>0, <1>2
  <2>2. i < k => i \in 1 .. n
      BY <1>0, <1>2
  <2>3. ~(i < k) /\ i # k => i - 1 \in 1 .. n
      BY <1>0, <1>2
  <2>4. QED
      BY <1>0, <2>2, <2>3
<1>8. ASSUME NEW i \in 1 .. n + 1, NEW j \in 1 .. n + 1, i < j PROVE Before(f[i], f[j])
  <2> HIDE DEF f
  <2>0. i \in Int /\ j \in Int /\ k \in Int
      BY <1>0, <1>2
  <2>1. CASE j < k
    <3>1. i < k /\ i \in 1 .. n /\ j \in 1 .. n
        BY <1>0, <1>2, <1>8, <2>0, <2>1
    <3>2. QED
        BY <1>5, <1>8, <2>1, <3>1 DEF Sorted
  <2>2. CASE j = k
    <3>1. i < k /\ i \in 1 .. n
        BY <1>0, <1>2, <1>8, <2>0, <2>2
    <3>2. QED
        BY <1>3, <1>5, <2>2, <3>1
  <2>3. CASE j > k /\ i < k
    <3>1. i \in 1 .. n /\ j - 1 \in 1 .. n /\ k <= j - 1
        BY <1>0, <1>2, <1>8, <2>0, <2>3
    <3>2. Before(s[i], r) /\ Before(r, s[j - 1])
        BY <1>3, <1>4, <2>3, <3>1
    <3>3. s[i] \in Connected /\ s[j - 1] \in Connected
        BY <1>0, <3>1
    <3>4. QED
        BY <1>5, <2>3, <3>2, <3>3, StrictOrder
  <2>4. CASE j > k /\ i = k
      BY <1>4, <1>5, <2>4
  <2>5. CASE j > k /\ i > k
    <3>1. i - 1 \in 1 .. n /\ j - 1 \in 1 .. n /\ i - 1 < j - 1
        BY <1>0, <1>2, <1>8, <2>0, <2>5
    <3>2. Before(s[i - 1], s[j - 1])
        BY <3>1 DEF Sorted
    <3>3. QED
        BY <1>5, <2>5, <3>2
  <2>6. QED
      BY <2>0, <2>1, <2>2, <2>3, <2>4, <2>5
<1>9. QED
    BY <1>6, <1>7, <1>8

LEMMA RankedSorts ==
    ASSUME Numbers, NEW s \in Seq(Connected), Sorted(s), NEW r \in Connected
    PROVE  /\ Ranked(ToSet(s) \cup {r}) \in Seq(Connected)
           /\ Sorted(Ranked(ToSet(s) \cup {r}))
<1> DEFINE S == ToSet(s) \cup {r}
<1>0. Len(s) \in Nat /\ DOMAIN s = 1 .. Len(s) /\ S \subseteq Connected
    BY DEF ToSet
<1>1. /\ Cardinality(S) \in Nat
      /\ \E f \in [1 .. Cardinality(S) -> S] :
           \A i, j \in DOMAIN f : i < j => Before(f[i], f[j])
  <2>1. CASE r \in ToSet(s)
    <3>1. S = ToSet(s)
        BY <2>1
    <3>2. Cardinality(S) = Len(s) /\ s \in [1 .. Cardinality(S) -> S]
        BY <3>1, SortedCount
    <3> HIDE DEF S
    <3>3. QED
        BY <1>0, <3>2 DEF Sorted
  <2>2. CASE r \notin ToSet(s)
    <3>1. Cardinality(S) = Len(s) + 1
        BY <2>2, SortedCount, FS_AddElement
    <3>2. \E f \in [1 .. Len(s) + 1 -> S] :
             \A i, j \in DOMAIN f : i < j => Before(f[i], f[j])
        BY <2>2, SortedInsert
    <3> HIDE DEF S
    <3>3. QED
        BY <1>0, <3>1, <3>2
  <2>3. QED
      BY <2>1, <2>2
<1> DEFINE f == Ranked(S)
<1>2. f \in [1 .. Cardinality(S) -> S] /\ \A i, j \in DOMAIN f : i < j => Before(f[i], f[j])
    BY <1>1 DEF Ranked
<1> HIDE DEF S, f
<1>3. f \in Seq(Connected) /\ DOMAIN f = 1 .. Len(f)
  <2>1. f \in [1 .. Cardinality(S) -> Connected]
      BY <1>0, <1>2
  <2>2. QED
      BY <1>1, <2>1
<1>4. Sorted(f)
    BY <1>2, <1>3 DEF Sorted
<1>5. QED
    BY <1>3, <1>4 DEF S, f

LEMMA RemoveSorted ==
    ASSUME NEW s \in Seq(Connected), Sorted(s), NEW e
    PROVE  RemoveFirst(s, e) \in Seq(Connected) /\ Sorted(RemoveFirst(s, e))
<1>1. CASE ~\E i \in 1 .. Len(s) : s[i] = e
    BY <1>1 DEF RemoveFirst
<1>2. CASE \E i \in 1 .. Len(s) : s[i] = e
  <2> DEFINE I == {i \in 1 .. Len(s) : s[i] = e}
             k == Min(I)
  <2>1. I # {} /\ I \subseteq Nat
      BY <1>2
  <2>2. k \in I
    <3> HIDE DEF I
    <3>1. \E n \in I : \A m \in I : n <= m
        BY <2>1, Least
    <3>2. QED
        BY <3>1 DEF Min
  <2>3. RemoveFirst(s, e) = RemoveAt(s, k)
      BY <1>2, <2>1 DEF RemoveFirst, SelectInSeq
  <2>4. k \in 1 .. Len(s)
      BY <2>2
  <2> HIDE DEF I, k
  <2>5. PICK t : t = RemoveAt(s, k)
      OBVIOUS
  <2>6. /\ t \in Seq(Connected) /\ Len(t) = Len(s) - 1 /\ Len(s) \in Nat /\ k \in Int
        /\ \A i \in 1 .. Len(s) - 1 : t[i] = IF i < k THEN s[i] ELSE s[i + 1]
      BY <2>4, <2>5, RemoveAtIs
  <2>7. ASSUME NEW i \in 1 .. Len(t), NEW j \in 1 .. Len(t), i < j
        PROVE  Before(t[i], t[j])
    <3>1. /\ i \in 1 .. Len(s) /\ j \in 1 .. Len(s) /\ i + 1 \in 1 .. Len(s)
          /\ j + 1 \in 1 .. Len(s) /\ i < j + 1 /\ i + 1 < j + 1
          /\ i \in 1 .. Len(s) - 1 /\ j \in 1 .. Len(s) - 1
        BY <2>6, <2>7
    <3>2. \/ t[i] = s[i] /\ t[j] = s[j]
          \/ t[i] = s[i] /\ t[j] = s[j + 1]
          \/ t[i] = s[i + 1] /\ t[j] = s[j + 1]
      <4>1. ~(i < k) => ~(j < k)
          BY <2>6, <2>7, <3>1
      <4>2. QED
          BY <2>6, <3>1, <4>1
    <3>3. Before(s[i], s[j]) /\ Before(s[i], s[j + 1]) /\ Before(s[i + 1], s[j + 1])
        BY <2>7, <3>1 DEF Sorted
    <3>4. QED
        BY <3>2, <3>3
  <2>8. QED
      BY <2>3, <2>5, <2>6, <2>7 DEF Sorted
<1>3. QED
    BY <1>1, <1>2
-----------------------------------------------------------------------------
(* A list that is worked off from the front. *)
LEMMA TailIs ==
    ASSUME NEW S, NEW s \in Seq(S), s # << >>
    PROVE  /\ Tail(s) \in Seq(S) /\ Len(Tail(s)) = Len(s) - 1
           /\ \A i \in 1 .. Len(s) - 1 : i + 1 \in 1 .. Len(s) /\ Tail(s)[i] = s[i + 1]
           /\ 1 \in 1 .. Len(s) /\ Head(s) = s[1] /\ Head(s) \in S /\ Len(s) \in Nat
<1>1. Len(s) \in Nat /\ Len(s) # 0
    BY EmptySeq
<1>2. /\ Head(s) \in S /\ Tail(s) \in Seq(S) /\ Len(Tail(s)) = Len(s) - 1
      /\ \A i \in 1 .. Len(Tail(s)) : Tail(s)[i] = s[i + 1]
    BY HeadTailProperties
<1>3. 1 \in 1 .. Len(s) /\ \A i \in 1 .. Len(s) - 1 : i + 1 \in 1 .. Len(s)
    BY <1>1
<1>4. Head(s) = s[1]
    BY <1>1
<1>5. QED
    BY <1>1, <1>2, <1>3, <1>4

LEMMA AppendIs ==
    ASSUME NEW S, NEW s \in Seq(S), NEW x \in S
    PROVE  /\ Append(s, x) \in Seq(S) /\ Len(Append(s, x)) = Len(s) + 1 /\ Len(s) \in Nat
           /\ \A i \in 1 .. Len(s) + 1 :
                \/ i \in 1 .. Len(s) /\ Append(s, x)[i] = s[i]
                \/ i = Len(s) + 1 /\ Append(s, x)[i] = x
<1>1. /\ Append(s, x) \in Seq(S) /\ Len(Append(s, x)) = Len(s) + 1
      /\ \A i \in 1 .. Len(s) : Append(s, x)[i] = s[i]
      /\ Append(s, x)[Len(s) + 1] = x
    BY AppendProperties
<1>2. Len(s) \in Nat
    BY LenProperties
<1>3. \A i \in 1 .. Len(s) + 1 : i \in 1 .. Len(s) \/ i = Len(s) + 1
    BY <1>2
<1>4. QED
    BY <1>1, <1>2, <1>3

LEMMA ChainTail ==
    ASSUME NEW S, NEW a \in Seq(S), NEW b \in Seq(S), b # << >>, Chain(a, b)
    PROVE  Chain(a, Tail(b))
<1>1. PICK t : t = Tail(b)
    OBVIOUS
<1>2. /\ Len(t) = Len(b) - 1 /\ Len(b) \in Nat
      /\ \A i \in 1 .. Len(b) - 1 : i + 1 \in 1 .. Len(b) /\ t[i] = b[i + 1]
    BY <1>1, TailIs
<1>3. \A i \in 1 .. Len(t) : i + 1 \in 1 .. Len(b) /\ t[i] = b[i + 1]
    BY <1>2
<1>4. \A i, j \in 1 .. Len(t) : i < j => i + 1 < j + 1
    BY <1>2
<1>5. Sorted(t)
    BY <1>3, <1>4 DEF Sorted, Chain
<1>6. \A i \in 1 .. Len(a), j \in 1 .. Len(t) : Before(a[i], t[j])
    BY <1>3 DEF Chain
<1>7. QED
    BY <1>1, <1>5, <1>6 DEF Chain

LEMMA ChainMove ==
    ASSUME NEW S, NEW a \in Seq(S), NEW b \in Seq(S), b # << >>, Chain(a, b)
    PROVE  Chain(Append(a, Head(b)), Tail(b))
<1>1. PICK c, t : c = Append(a, Head(b)) /\ t = Tail(b)
    OBVIOUS
<1>2. /\ Len(t) = Len(b) - 1 /\ Len(b) \in Nat
      /\ \A i \in 1 .. Len(b) - 1 : i + 1 \in 1 .. Len(b) /\ t[i] = b[i + 1]
      /\ 1 \in 1 .. Len(b) /\ Head(b) = b[1] /\ Head(b) \in S
    BY <1>1, TailIs
<1>3. /\ Len(c) = Len(a) + 1 /\ Len(a) \in Nat
      /\ \A i \in 1 .. Len(a) + 1 :
           \/ i \in 1 .. Len(a) /\ c[i] = a[i]
           \/ i = Len(a) + 1 /\ c[i] = b[1]
    BY <1>1, <1>2, AppendIs
<1>4. Chain(a, t)
    BY <1>1, ChainTail
<1>5. \A j \in 1 .. Len(t) : Before(b[1], t[j])
  <2> SUFFICES ASSUME NEW j \in 1 .. Len(t) PROVE Before(b[1], b[j + 1])
      BY <1>2
  <2>1. j + 1 \in 1 .. Len(b) /\ 1 < j + 1
      BY <1>2
  <2>2. QED
      BY <1>2, <2>1 DEF Chain, Sorted
<1>6. \A i \in 1 .. Len(a) : Before(a[i], b[1])
    BY <1>2 DEF Chain
<1>7. ASSUME NEW i \in 1 .. Len(c), NEW j \in 1 .. Len(c), i < j
      PROVE  Before(c[i], c[j])
  <2>1. i \in 1 .. Len(a) /\ c[i] = a[i]
      BY <1>3, <1>7
  <2>2. QED
      BY <1>3, <1>4, <1>6, <1>7, <2>1 DEF Chain, Sorted
<1>8. ASSUME NEW i \in 1 .. Len(c), NEW j \in 1 .. Len(t)
      PROVE  Before(c[i], t[j])
    BY <1>3, <1>4, <1>5, <1>8 DEF Chain
<1>9. QED
    BY <1>1, <1>4, <1>7, <1>8 DEF Chain, Sorted

LEMMA ChainIsSorted ==
    ASSUME NEW S, NEW a \in Seq(S), NEW b \in Seq(S), Chain(a, b)
    PROVE  Sorted(a \o b)
<1>1. PICK c : c = a \o b
    OBVIOUS
<1>2. /\ Len(c) = Len(a) + Len(b) /\ Len(a) \in Nat /\ Len(b) \in Nat
      /\ \A i \in 1 .. Len(a) + Len(b) :
           c[i] = IF i <= Len(a) THEN a[i] ELSE b[i - Len(a)]
    BY <1>1, ConcatProperties, LenProperties
<1>3. ASSUME NEW i \in 1 .. Len(c), NEW j \in 1 .. Len(c), i < j
      PROVE  Before(c[i], c[j])
  <2>0. i \in Int /\ j \in Int /\ i \in 1 .. Len(a) + Len(b) /\ j \in 1 .. Len(a) + Len(b)
      BY <1>2
  <2>1. CASE j <= Len(a)
    <3>1. i \in 1 .. Len(a) /\ j \in 1 .. Len(a)
        BY <1>2, <1>3, <2>0, <2>1
    <3>2. QED
        BY <1>2, <1>3, <2>0, <2>1, <3>1 DEF Chain, Sorted
  <2>2. CASE i <= Len(a) /\ ~(j <= Len(a))
    <3>1. i \in 1 .. Len(a) /\ j - Len(a) \in 1 .. Len(b)
        BY <1>2, <2>0, <2>2
    <3>2. QED
        BY <1>2, <2>0, <2>2, <3>1 DEF Chain
  <2>3. CASE ~(i <= Len(a)) /\ ~(j <= Len(a))
    <3>1. /\ i - Len(a) \in 1 .. Len(b) /\ j - Len(a) \in 1 .. Len(b)
          /\ i - Len(a) < j - Len(a)
        BY <1>2, <1>3, <2>0, <2>3
    <3>2. QED
        BY <1>2, <2>0, <2>3, <3>1 DEF Chain, Sorted
  <2>4. QED
      BY <1>2, <1>3, <2>0, <2>1, <2>2, <2>3
<1>4. QED
    BY <1>1, <1>3 DEF Sorted
-----------------------------------------------------------------------------
(***************************************************************************)
(* The invariant of the order: lists are sorted, and what a thread has     *)
(* entered comes before what it has left, in an emission and in a batch.   *)
(***************************************************************************)
Left(th) == IF th.pc = "callback" THEN Tail(th.rest) ELSE th.rest

Walks(th) ==
    /\ th.rest \in Seq(Connected) /\ th.sent \in Seq(Connected)
    /\ th.pc = "insert" => th.relation \in Connected
    /\ th.pc \in Walking => th.rest # << >>
    /\ Chain(th.sent, Left(th))
    /\ th.pc \in Selecting => th.acts \in Seq(Connected) /\ Chain(th.acts, th.rest)

Listed(s) == s \in Seq(Connected) /\ Sorted(s)

Ordered ==
    /\ Numbers /\ Listed(subscriptions)
    /\ batches \in Seq(Seq(Connected))
    /\ \A i \in 1 .. Len(batches) : Sorted(batches[i]) /\ batches[i] # << >>
    /\ \A t \in Threads : Walks(thread[t])

(* A step does not change the order of relations that have a number. *)
Firm == priority' = priority /\ \A r \in Connected : order'[r] = order[r]

LEMMA FirmLists ==
    ASSUME Numbers, Firm
    PROVE  /\ \A s \in Seq(Connected) : s \in Seq(Connected') /\ (Sorted(s) => Sorted(s)')
           /\ \A a, b \in Seq(Connected) : Chain(a, b) => Chain(a, b)'
           /\ Connected \subseteq Connected'
<1>1. Connected \subseteq Connected'
    BY DEF Firm, Connected
<1>2. Seq(Connected) \subseteq Seq(Connected')
    BY <1>1, SeqMonotonic
<1>3. ASSUME NEW q \in Connected, NEW r \in Connected, Before(q, r) PROVE Before(q, r)'
    BY <1>3 DEF Firm, Before
<1>4. \A s \in Seq(Connected) : \A i \in 1 .. Len(s) : s[i] \in Connected
    OBVIOUS
<1>5. ASSUME NEW s \in Seq(Connected), Sorted(s) PROVE Sorted(s)'
    BY <1>3, <1>4, <1>5 DEF Sorted
<1>6. ASSUME NEW a \in Seq(Connected), NEW b \in Seq(Connected), Chain(a, b)
      PROVE  Chain(a, b)'
  <2>1. Sorted(a)' /\ Sorted(b)'
      BY <1>5, <1>6 DEF Chain
  <2>2. ASSUME NEW i \in 1 .. Len(a), NEW j \in 1 .. Len(b) PROVE Before(a[i], b[j])'
      BY <1>3, <1>4, <1>6, <2>2 DEF Chain
  <2>3. QED
      BY <2>1, <2>2 DEF Chain
<1>7. QED
    BY <1>1, <1>2, <1>5, <1>6

LEMMA EmptyChain ==
    /\ << >> \in Seq(Connected) /\ Chain(<< >>, << >>)
    /\ \A s \in Seq(Connected) : Sorted(s) => Chain(<< >>, s)
<1>1. << >> \in Seq(Connected) /\ Len(<< >>) = 0
    OBVIOUS
<1>2. Sorted(<< >>)
    BY <1>1 DEF Sorted
<1>3. QED
    BY <1>1, <1>2 DEF Chain

(* The thread that moves. *)
LEMMA WalksOn ==
    ASSUME Ordered, NEW th, Walks(th), NEW new, Steps(th, new), ~CallsOwn(new)
    PROVE  Walks(new)
<1>1. CASE GoesOn(th, new)
  <2>1. Left(new) = Left(th)
      BY <1>1 DEF GoesOn, Same, Left
  <2>2. /\ new.pc = "insert" => th.pc = "insert"
        /\ new.pc \in Walking => th.pc \in Walking
        /\ new.pc \in Selecting => th.pc \in Selecting
      BY <1>1 DEF GoesOn, Walking, Serving, Selecting
  <2>3. QED
      BY <1>1, <2>1, <2>2 DEF GoesOn, Same, Walks
<1>2. CASE Sets(new)
  <2>1. /\ new.sent = << >> /\ new.rest \in Seq(Connected) /\ Sorted(new.rest)
        /\ new.rest # << >> /\ new.pc \notin {"callback", "insert"}
        /\ new.pc \in Selecting => new.acts = << >>
      BY <1>2 DEF Sets, Ordered, Listed, Selecting
  <2>2. Left(new) = new.rest
      BY <2>1 DEF Left
  <2>3. QED
      BY <2>1, <2>2, EmptyChain DEF Walks
<1>3. CASE EntersOne(th, new)
  <2>1. th.pc \in Walking /\ th.pc # "callback"
      BY <1>3 DEF EntersOne, Walking, Serving
  <2>2. th.rest \in Seq(Connected) /\ th.rest # << >> /\ Chain(th.sent, th.rest)
        /\ th.sent \in Seq(Connected)
      BY <2>1 DEF Walks, Left
  <2>3. PICK a : a = Append(th.sent, Head(th.rest))
      OBVIOUS
  <2>4. Chain(a, Tail(th.rest)) /\ a \in Seq(Connected)
      BY <2>2, <2>3, ChainMove, TailIs, AppendIs
  <2>5. new.pc = "callback" /\ new.rest = th.rest /\ new.sent = a
      BY <1>3, <2>3 DEF EntersOne
  <2>6. new.pc \notin Selecting
      BY <2>5 DEF Selecting
  <2>7. QED
      BY <2>2, <2>4, <2>5, <2>6 DEF Walks, Left
<1>4. CASE Passes(th, new)
  <2>1. th.rest \in Seq(Connected) /\ th.rest # << >> /\ th.sent \in Seq(Connected)
      BY <1>4 DEF Passes, Walks
  <2>2. Tail(th.rest) \in Seq(Connected) /\ Len(Tail(th.rest)) = Len(th.rest) - 1
        /\ Len(th.rest) \in Nat
      BY <2>1, TailIs
  <2>3. Chain(th.sent, Tail(th.rest))
    <3>1. Chain(th.sent, Left(th))
        BY DEF Walks
    <3>2. QED
        BY <2>1, <3>1, ChainTail DEF Left
  <2>4. CASE Len(th.rest) > 1
    <3>1. new.rest = Tail(th.rest) /\ new.sent = th.sent
          /\ new.pc \in {"lease", "begin", "select"}
        BY <1>4, <2>4 DEF Passes
    <3>2. Tail(th.rest) # << >>
      <4>1. PICK t : t = Tail(th.rest)
          OBVIOUS
      <4>2. Len(t) # 0
          BY <2>2, <2>4, <4>1
      <4>3. QED
          BY <4>1, <4>2, NoneSent
    <3>3. Left(new) = Tail(th.rest)
        BY <3>1 DEF Left
    <3>4. ASSUME new.pc \in Selecting
          PROVE  new.acts \in Seq(Connected) /\ Chain(new.acts, new.rest)
      <4>1. th.pc \in Selecting /\ new.acts \in {th.acts, Append(th.acts, Head(th.rest))}
          BY <1>4, <2>4, <3>1, <3>4 DEF Passes, Selecting
      <4>2. th.acts \in Seq(Connected) /\ Chain(th.acts, th.rest)
          BY <4>1 DEF Walks
      <4>3. Chain(th.acts, Tail(th.rest))
          BY <2>1, <4>2, ChainTail
      <4>4. PICK a : a = Append(th.acts, Head(th.rest))
          OBVIOUS
      <4>5. a \in Seq(Connected) /\ Chain(a, Tail(th.rest))
          BY <2>1, <4>2, <4>4, ChainMove, TailIs, AppendIs
      <4>6. QED
          BY <3>1, <4>1, <4>2, <4>3, <4>4, <4>5
    <3>5. QED
        BY <2>1, <2>2, <2>3, <3>1, <3>2, <3>3, <3>4 DEF Walks
  <2>5. CASE ~(Len(th.rest) > 1)
    <3>1. new.pc = "idle" /\ new.rest = << >> /\ new.sent = << >>
        BY <1>4, <2>5 DEF Passes
    <3>2. new.pc \notin Walking /\ new.pc \notin Selecting
        BY <3>1 DEF Walking, Serving, Selecting
    <3>3. QED
        BY <3>1, <3>2, EmptyChain DEF Walks, Left
  <2>6. QED
      BY <2>4, <2>5
<1>5. QED
    BY <1>1, <1>2, <1>3, <1>4 DEF Steps

LEMMA WalksFirm ==
    ASSUME Numbers, Firm, NEW th, Walks(th) PROVE Walks(th)'
<1>1. th.rest \in Seq(Connected) /\ th.sent \in Seq(Connected) /\ Chain(th.sent, Left(th))
    BY DEF Walks
<1>2. Left(th) \in Seq(Connected)
  <2>1. th.pc = "callback" => th.rest # << >>
      BY DEF Walks, Walking, Serving
  <2>2. QED
      BY <1>1, <2>1, TailIs DEF Left
<1>3. PICK l : l = Left(th)
    OBVIOUS
<1>4. Chain(th.sent, l)'
    BY <1>1, <1>2, <1>3, FirmLists
<1>5. th.pc \in Selecting => th.acts \in Seq(Connected') /\ Chain(th.acts, th.rest)'
    BY <1>1, FirmLists DEF Walks
<1>6. /\ th.rest \in Seq(Connected') /\ th.sent \in Seq(Connected')
      /\ th.pc = "insert" => th.relation \in Connected'
    BY <1>1, FirmLists DEF Walks
<1>7. th.pc \in Walking => th.rest # << >>
    BY DEF Walks
<1>8. Chain(th.sent, Left(th))'
    BY <1>3, <1>4 DEF Left
<1>9. QED
    BY <1>5, <1>6, <1>7, <1>8 DEF Walks

LEMMA ThreadsWalk ==
    ASSUME Ordered, Firm, NEW x \in Threads, Moves(x)
    PROVE  \A t \in Threads : Walks(thread[t])'
<1> SUFFICES ASSUME NEW t \in Threads PROVE Walks(thread[t])'
    OBVIOUS
<1>1. PICK th, new : th = thread[t] /\ new = thread'[t]
    OBVIOUS
<1>2. Walks(th) /\ Numbers
    BY <1>1 DEF Ordered
<1>3. Walks(new)'
  <2>1. CASE t # x \/ ~CallsOwn(thread'[x])
    <3>1. Walks(new)
      <4>1. CASE t # x
        <5>1. Alike(th, new)
            BY <1>1, <4>1 DEF Moves
        <5>2. QED
            BY <1>2, <5>1 DEF Alike, Same, Walks, Left
      <4>2. CASE t = x
        <5>1. Steps(th, new) /\ ~CallsOwn(new)
            BY <1>1, <2>1, <4>2 DEF Moves
        <5>2. QED
            BY <1>2, <5>1, WalksOn
      <4>3. QED
          BY <4>1, <4>2
    <3>2. QED
        BY <1>2, <3>1, WalksFirm
  <2>2. CASE t = x /\ CallsOwn(new)
    <3>1. new.rest = << >> /\ new.sent = << >> /\ new.pc \notin Walking
          /\ new.pc \notin Selecting /\ new.pc # "callback"
        BY <2>2 DEF CallsOwn, Rests, Walking, Serving, Selecting
    <3>2. new.pc = "insert" => new.relation \in Connected'
        BY <2>2 DEF CallsOwn, Connected
    <3>3. << >> \in Seq(Connected') /\ Chain(<< >>, << >>)'
      <4>1. << >> \in Seq(Connected) /\ Chain(<< >>, << >>)
          BY EmptyChain
      <4>2. QED
          BY <1>2, <4>1, FirmLists
    <3>4. QED
        BY <3>1, <3>2, <3>3 DEF Walks, Left
  <2>3. QED
      BY <1>1, <2>1, <2>2
<1>4. PICK a, b, l : a = new.sent /\ b = new.acts /\ l = Left(new)
    OBVIOUS
<1>5. /\ Chain(a, l)' /\ (new.pc \in Selecting => Chain(b, new.rest)')
    BY <1>3, <1>4 DEF Walks, Left
<1>6. thread'[t].sent = a /\ thread'[t].acts = b /\ Left(thread[t])' = l
    BY <1>1, <1>4 DEF Left
<1>7. Chain(thread[t].sent, Left(thread[t]))'
    BY <1>5, <1>6 DEF Chain, Sorted, Before
<1>8. new.pc \in Selecting => Chain(thread[t].acts, thread[t].rest)'
    BY <1>1, <1>5, <1>6 DEF Chain, Sorted, Before
<1>9. /\ new.rest \in Seq(Connected') /\ new.sent \in Seq(Connected')
      /\ new.pc = "insert" => new.relation \in Connected'
      /\ new.pc \in Walking => new.rest # << >>
      /\ new.pc \in Selecting => new.acts \in Seq(Connected')
    BY <1>3 DEF Walks
<1>10. QED
    BY <1>1, <1>7, <1>8, <1>9 DEF Walks
-----------------------------------------------------------------------------
(* What a step does to the numbers, the snapshot and the batches.          *)
NumbersStep ==
    /\ priority' = priority
    /\ \/ UNCHANGED <<order, nextId>>
       \/ \E r \in Relations :
            /\ order[r] = 0 /\ order' = [order EXCEPT ![r] = nextId + 1]
            /\ nextId' = nextId + 1
    /\ \/ UNCHANGED alive
       \/ \E v \in Receivers : alive' = [alive EXCEPT ![v] = FALSE]

SnapshotStep ==
    \/ UNCHANGED subscriptions
    \/ /\ \E r \in Connected : subscriptions' = Ranked(ToSet(subscriptions) \cup {r})
       /\ UNCHANGED <<priority, order>>
    \/ \E r : subscriptions' = RemoveFirst(subscriptions, r)

BatchesStep ==
    \/ UNCHANGED batches
    \/ \E acts \in Seq(Connected) : /\ Sorted(acts) /\ acts # << >>
                                    /\ batches' = Append(batches, acts)
    \/ \E i \in 1 .. Len(batches) : batches' = RemoveAt(batches, i)

LEMMA OwnerLists ==
    ASSUME Ordered, NEW o \in Owners, OwnerStep(o)
    PROVE  NumbersStep /\ SnapshotStep /\ BatchesStep
<1> USE DEF relationVars
<1>1. ASSUME NEW r \in Relations, Connect(o, r)
      PROVE  NumbersStep /\ SnapshotStep /\ BatchesStep
    BY <1>1 DEF Connect, NumbersStep, SnapshotStep, BatchesStep
<1>2. ASSUME NEW r \in Relations,
             \/ Disconnect(o, r)
             \/ \E suspended \in BOOLEAN : SetSuspended(o, r, suspended)
             \/ \E budget \in NewBudgets : SetBudget(o, r, budget)
      PROVE  NumbersStep /\ SnapshotStep /\ BatchesStep
    BY <1>2 DEF Disconnect, SetSuspended, SetBudget, NumbersStep, SnapshotStep, BatchesStep
<1>3. CASE Insert(o)
  <2>1. Walks(thread[o]) /\ thread[o].pc = "insert"
      BY <1>3 DEF Insert, At, Ordered, Threads
  <2>2. thread[o].relation \in Connected
      BY <2>1 DEF Walks
  <2>3. QED
      BY <1>3, <2>2 DEF Insert, NumbersStep, SnapshotStep, BatchesStep
<1>4. CASE RemoveSubscription(o)
    BY <1>4 DEF RemoveSubscription, NumbersStep, SnapshotStep, BatchesStep
<1>5. CASE AttachInbound(o) \/ ReplaceBudget(o) \/ CancelAll(o) \/ CancelInbound(o)
    BY <1>5 DEF AttachInbound, ReplaceBudget, CancelAll, CancelInbound,
                NumbersStep, SnapshotStep, BatchesStep
<1>6. ASSUME NEW v \in Receivers, Destroy(o, v)
      PROVE  NumbersStep /\ SnapshotStep /\ BatchesStep
    BY <1>6 DEF Destroy, NumbersStep, SnapshotStep, BatchesStep
<1>7. QED
    BY <1>1, <1>2, <1>3, <1>4, <1>5, <1>6 DEF OwnerStep

LEMMA EmitterLists ==
    ASSUME Ordered, NEW e \in Emitters, EmitterStep(e)
    PROVE  NumbersStep /\ SnapshotStep /\ BatchesStep
<1> USE DEF relationVars
<1>0. Walks(thread[e])
    BY DEF Ordered, Threads
<1>1. NumbersStep /\ SnapshotStep
    BY DEF EmitterStep, BeginEmission, Lease, BeginDispatch, Spend, Callback, Select,
           Retain, RunBatch, DropBatch, TakeBatch, NumbersStep, SnapshotStep
<1>2. CASE Select(e)
  <2>1. thread[e].acts \in Seq(Connected) /\ Sorted(thread[e].acts)
      BY <1>0, <1>2 DEF Select, At, Walks, Chain, Selecting
  <2>2. UNCHANGED batches
        \/ (batches' = Append(batches, thread[e].acts) /\ thread[e].acts # << >>)
      BY <1>2 DEF Select, Onward
  <2>3. QED
      BY <1>1, <2>1, <2>2 DEF BatchesStep
<1>3. CASE Retain(e)
  <2> DEFINE r == Current(e)
             retained == alive[ReceiverOf[r]] /\ ReceiverOf[r] \in Shared
             acts == IF retained THEN Append(thread[e].acts, r) ELSE thread[e].acts
  <2>1. UNCHANGED batches \/ (batches' = Append(batches, acts) /\ acts # << >>)
      BY <1>3 DEF Retain, Onward
  <2>2. /\ thread[e].acts \in Seq(Connected) /\ Chain(thread[e].acts, thread[e].rest)
        /\ thread[e].rest \in Seq(Connected) /\ thread[e].rest # << >>
      BY <1>0, <1>3 DEF Retain, At, Walks, Selecting, Walking
  <2>3. PICK a : a = Append(thread[e].acts, Head(thread[e].rest))
      OBVIOUS
  <2>4. a \in Seq(Connected) /\ Chain(a, Tail(thread[e].rest))
      BY <2>2, <2>3, ChainMove, TailIs, AppendIs
  <2>5. acts = a \/ acts = thread[e].acts
      BY <2>3 DEF Current
  <2> HIDE DEF acts
  <2>6. acts \in Seq(Connected) /\ Sorted(acts)
      BY <2>2, <2>4, <2>5 DEF Chain
  <2>7. QED
      BY <1>1, <2>1, <2>6 DEF BatchesStep
<1>4. CASE \E i \in 1 .. Len(batches) : RunBatch(e, i) \/ DropBatch(e, i)
    BY <1>1, <1>4 DEF RunBatch, DropBatch, TakeBatch, BatchesStep
<1>5. CASE \/ BeginEmission(e, "lease") \/ BeginEmission(e, "select")
           \/ Lease(e) \/ BeginDispatch(e) \/ Spend(e) \/ Callback(e)
    BY <1>1, <1>5 DEF BeginEmission, Lease, BeginDispatch, Spend, Callback, BatchesStep
<1>6. QED
    BY <1>2, <1>3, <1>4, <1>5 DEF EmitterStep

LEMMA NumbersKept ==
    ASSUME Numbers, NumbersStep PROVE Numbers' /\ Firm
<1>1. DOMAIN alive' = Receivers
    BY DEF Numbers, NumbersStep, PositiveOrder
<1>2. CASE UNCHANGED <<order, nextId>>
    BY <1>1, <1>2 DEF Numbers, NumbersStep, PositiveOrder, Firm, Connected
<1>3. ASSUME NEW r \in Relations, order[r] = 0, order' = [order EXCEPT ![r] = nextId + 1],
             nextId' = nextId + 1
      PROVE  Numbers' /\ Firm
  <2>1. /\ order' \in [Relations -> Nat] /\ nextId' \in Nat
        /\ \A q \in Relations : order[q] \in Nat /\ order[q] <= nextId
        /\ order'[r] = nextId + 1 /\ nextId \in Nat
        /\ \A q \in Relations : q # r => order'[q] = order[q]
      BY <1>3 DEF Numbers, PositiveOrder
  <2>2. \A q \in Relations : order'[q] <= nextId'
      BY <1>3, <2>1
  <2>3. \A q \in Connected' : q # r => q \in Connected /\ order'[q] # nextId + 1
      BY <2>1 DEF Connected
  <2>4. ASSUME NEW p \in Connected', NEW q \in Connected', order'[p] = order'[q]
        PROVE  p = q
    <3>1. p \in Relations /\ q \in Relations
        BY <2>4 DEF Connected
    <3>2. QED
        BY <2>1, <2>3, <2>4, <3>1 DEF Numbers
  <2>5. Firm
      BY <1>3, <2>1 DEF Firm, NumbersStep, Connected
  <2>6. QED
      BY <1>1, <2>1, <2>2, <2>4, <2>5 DEF Numbers, NumbersStep, PositiveOrder
<1>4. QED
    BY <1>2, <1>3 DEF NumbersStep

LEMMA SnapshotKept ==
    ASSUME Ordered, Firm, SnapshotStep PROVE Listed(subscriptions)'
<1> DEFINE s == subscriptions
<1>1. s \in Seq(Connected) /\ Sorted(s) /\ Numbers
    BY DEF Ordered, Listed
<1>2. PICK n : n = subscriptions'
    OBVIOUS
<1>3. n \in Seq(Connected) /\ Sorted(n)
  <2>1. CASE UNCHANGED subscriptions
      BY <1>1, <1>2, <2>1
  <2>2. ASSUME NEW r \in Connected, n = Ranked(ToSet(subscriptions) \cup {r})
        PROVE  n \in Seq(Connected) /\ Sorted(n)
      BY <1>1, <2>2, RankedSorts
  <2>3. ASSUME NEW r, n = RemoveFirst(subscriptions, r)
        PROVE  n \in Seq(Connected) /\ Sorted(n)
      BY <1>1, <2>3, RemoveSorted
  <2>4. QED
      BY <1>2, <2>1, <2>2, <2>3 DEF SnapshotStep
<1>4. n \in Seq(Connected') /\ Sorted(n)'
    BY <1>1, <1>3, FirmLists
<1>5. Sorted(subscriptions)'
    BY <1>2, <1>4 DEF Sorted, Before
<1>6. QED
    BY <1>2, <1>4, <1>5 DEF Listed

LEMMA BatchesKept ==
    ASSUME Ordered, Firm, BatchesStep
    PROVE  /\ batches' \in Seq(Seq(Connected'))
           /\ \A i \in 1 .. Len(batches') : Sorted(batches[i])' /\ batches'[i] # << >>
<1>0. Numbers
    BY DEF Ordered
<1>1. PICK b : b = batches'
    OBVIOUS
<1>2. b \in Seq(Seq(Connected)) /\ \A i \in 1 .. Len(b) : Sorted(b[i]) /\ b[i] # << >>
  <2>0. batches \in Seq(Seq(Connected)) /\ Len(batches) \in Nat
        /\ \A i \in 1 .. Len(batches) : Sorted(batches[i]) /\ batches[i] # << >>
      BY LenProperties DEF Ordered
  <2>1. CASE UNCHANGED batches
      BY <1>1, <2>0, <2>1
  <2>2. ASSUME NEW acts \in Seq(Connected), Sorted(acts), acts # << >>,
               b = Append(batches, acts)
        PROVE  b \in Seq(Seq(Connected)) /\ \A i \in 1 .. Len(b) : Sorted(b[i]) /\ b[i] # << >>
    <3>1. /\ b \in Seq(Seq(Connected)) /\ Len(b) = Len(batches) + 1
          /\ \A i \in 1 .. Len(batches) + 1 :
               \/ i \in 1 .. Len(batches) /\ b[i] = batches[i]
               \/ i = Len(batches) + 1 /\ b[i] = acts
        BY <2>0, <2>2, AppendIs
    <3>2. QED
        BY <2>0, <2>2, <3>1
  <2>3. ASSUME NEW k \in 1 .. Len(batches), b = RemoveAt(batches, k)
        PROVE  b \in Seq(Seq(Connected)) /\ \A i \in 1 .. Len(b) : Sorted(b[i]) /\ b[i] # << >>
    <3>1. /\ b \in Seq(Seq(Connected)) /\ Len(b) = Len(batches) - 1
          /\ \A i \in 1 .. Len(batches) - 1 :
               b[i] = IF i < k THEN batches[i] ELSE batches[i + 1]
        BY <2>0, <2>3, RemoveAtIs
    <3>2. \A i \in 1 .. Len(b) : i \in 1 .. Len(batches) /\ i + 1 \in 1 .. Len(batches)
        BY <2>0, <3>1
    <3>3. QED
        BY <2>0, <3>1, <3>2
  <2>4. QED
      BY <1>1, <2>1, <2>2, <2>3 DEF BatchesStep
<1>3. \A i \in 1 .. Len(b) : b[i] \in Seq(Connected) /\ b[i] \in Seq(Connected')
    BY <1>0, <1>2, ElementOfSeq, FirmLists
<1>4. b \in Seq(Seq(Connected'))
  <2>1. Seq(Connected) \subseteq Seq(Connected')
      BY <1>0, FirmLists
  <2>2. QED
      BY <1>2, <2>1, SeqMonotonic
<1>5. ASSUME NEW i \in 1 .. Len(b) PROVE Sorted(batches[i])'
  <2>1. PICK s : s = b[i]
      OBVIOUS
  <2>2. s \in Seq(Connected) /\ Sorted(s)
      BY <1>2, <1>3, <2>1
  <2>3. Sorted(s)'
      BY <1>0, <2>2, FirmLists
  <2>4. s = batches'[i]
      BY <1>1, <2>1
  <2>5. QED
      BY <2>3, <2>4 DEF Sorted, Before
<1>6. QED
    BY <1>1, <1>2, <1>4, <1>5

LEMMA OrderedInit == Init => Ordered
<1> SUFFICES ASSUME Init PROVE Ordered
    OBVIOUS
<1>1. Numbers
    BY PortAssumption DEF Init, Numbers, PositiveOrder, Connected
<1>2. Listed(<< >>) /\ << >> \in Seq(Seq(Connected)) /\ Len(<< >>) = 0
    BY EmptyChain, NoneSent DEF Listed, Chain
<1>3. Walks(Idle)
  <2>1. /\ Idle.rest = << >> /\ Idle.sent = << >> /\ Idle.pc = "idle"
        /\ Idle.pc \notin Walking /\ Idle.pc \notin Selecting
      BY DEF Idle, Walking, Serving, Selecting
  <2>2. QED
      BY <2>1, EmptyChain DEF Walks, Left
<1>4. /\ subscriptions = << >> /\ batches = << >>
      /\ \A t \in Threads : thread[t] = Idle
    BY DEF Init
<1>5. QED
    BY <1>1, <1>2, <1>3, <1>4 DEF Ordered

LEMMA OrderedStep ==
    ASSUME IInv, Ordered, [Next]_vars PROVE Ordered'
<1>1. ASSUME NumbersStep, SnapshotStep, BatchesStep
      PROVE  /\ Numbers' /\ Firm /\ Listed(subscriptions)' /\ batches' \in Seq(Seq(Connected'))
             /\ \A i \in 1 .. Len(batches') : Sorted(batches[i])' /\ batches'[i] # << >>
  <2>1. Numbers' /\ Firm
      BY <1>1, NumbersKept DEF Ordered
  <2>2. QED
      BY <1>1, <2>1, SnapshotKept, BatchesKept
<1>2. ASSUME NEW x \in Threads, Moves(x), NumbersStep, SnapshotStep, BatchesStep
      PROVE  Ordered'
    BY <1>1, <1>2, ThreadsWalk DEF Ordered
<1>u. CASE UNCHANGED vars
  <2>1. NumbersStep /\ SnapshotStep /\ BatchesStep
      BY <1>u DEF vars, relationVars, NumbersStep, SnapshotStep, BatchesStep
  <2>2. thread' = thread /\ DOMAIN thread = Threads
      BY <1>u DEF vars, IInv, Seen
  <2>3. ASSUME NEW x \in Threads PROVE Moves(x)
      BY <2>2 DEF Moves, Steps, GoesOn, Alike, Same
  <2>4. CASE Threads = {}
      BY <1>1, <2>1, <2>4 DEF Ordered
  <2>5. QED
      BY <1>2, <2>1, <2>3, <2>4
<1>3. ASSUME NEW o \in Owners, OwnerStep(o) PROVE Ordered'
    BY <1>2, <1>3, OwnerMoves, OwnerLists DEF IInv, Ordered, Numbers, Threads
<1>4. ASSUME NEW e \in Emitters, EmitterStep(e) PROVE Ordered'
    BY <1>2, <1>4, EmitterMoves, EmitterLists DEF IInv, Ordered, Numbers, Threads
<1>5. QED
    BY <1>u, <1>3, <1>4, NextSplit

(* Emissions and batches call by priority and then by age, each relation   *)
(* at most once, whatever is connected and disconnected meanwhile          *)
(* (EventPort.h, AddSubscription, Emit and EmitOn).                        *)
THEOREM CallsInPriority == Spec => []DeliveryOrdered
<1>1. Init => IInv /\ Ordered
    BY InitIInv, OrderedInit
<1>2. IInv /\ Ordered /\ [Next]_vars => IInv' /\ Ordered'
    BY StepIInv, OrderedStep
<1>3. Ordered => DeliveryOrdered
  <2> SUFFICES ASSUME Ordered, NEW e \in Emitters
               PROVE  LET all == thread[e].sent \o IF thread[e].pc = "callback"
                                   THEN Tail(thread[e].rest) ELSE thread[e].rest IN
                      \A i, j \in 1 .. Len(all) : i < j => Before(all[i], all[j])
      BY DEF DeliveryOrdered
  <2> DEFINE th == thread[e]
  <2>1. Walks(th)
      BY DEF Ordered, Threads
  <2>2. th.sent \in Seq(Connected) /\ Chain(th.sent, Left(th))
      BY <2>1 DEF Walks
  <2>3. Left(th) \in Seq(Connected)
    <3>1. th.rest \in Seq(Connected) /\ (th.pc = "callback" => th.rest # << >>)
        BY <2>1 DEF Walks, Walking, Serving
    <3>2. QED
        BY <3>1, TailIs DEF Left
  <2>4. Sorted(th.sent \o Left(th))
      BY <2>2, <2>3, ChainIsSorted
  <2>5. QED
      BY <2>4 DEF Sorted, Left
<1>4. QED
    BY <1>1, <1>2, <1>3, PTL DEF Spec
-----------------------------------------------------------------------------
(***************************************************************************)
(* Who is owed a call: what an immediate emission found steady, and nobody *)
(* has touched since, is entered or still to come.                         *)
(***************************************************************************)
Promised(th) ==
    /\ th.owed \subseteq ToSet(th.sent) \cup ToSet(th.rest)
    /\ th.pc \notin Serving => th.owed = {}
    /\ th.pc = "callback" => Head(th.rest) \in ToSet(th.sent)

(* What is owed is steady, and the relations of a port that is going down  *)
(* are not.                                                                *)
Sure(th) ==
    /\ \A r \in th.owed : r \in Relations /\ Steady(r)
    /\ th.pc = "cancel" => th.relation \in Receivers /\ ~alive[th.relation]

Owing == \A t \in Threads : Promised(thread[t]) /\ Sure(thread[t])

(* A step that unsettles a relation strikes it out of all that is owed. *)
Settles ==
    /\ \A r \in Relations : Steady(r) =>
         Steady(r)' \/ \A t \in Threads : r \notin thread'[t].owed
    /\ \A v \in Receivers : ~alive[v] => ~alive'[v]

LEMMA ListSets ==
    ASSUME NEW S
    PROVE  /\ \A s \in Seq(S), x \in S : ToSet(Append(s, x)) = ToSet(s) \cup {x}
           /\ \A s \in Seq(S) : s # << >> => /\ Head(s) \in S
                                             /\ ToSet(s) = {Head(s)} \cup ToSet(Tail(s))
           /\ \A s \in Seq(S) : ToSet(s) \subseteq S
           /\ \A s \in Seq(S) : Len(s) = 0 => ToSet(s) = {}
<1>1. \A s \in Seq(S) : DOMAIN s = 1 .. Len(s) /\ \A i \in 1 .. Len(s) : s[i] \in S
    OBVIOUS
<1>2. \A s \in Seq(S) : ToSet(s) = {s[i] : i \in 1 .. Len(s)}
    BY <1>1 DEF ToSet
<1>3. ASSUME NEW s \in Seq(S), NEW x \in S PROVE ToSet(Append(s, x)) = ToSet(s) \cup {x}
  <2>1. PICK a : a = Append(s, x)
      OBVIOUS
  <2>2. a \in Seq(S) /\ Len(a) = Len(s) + 1 /\ Len(s) \in Nat
        /\ \A i \in 1 .. Len(s) + 1 : \/ i \in 1 .. Len(s) /\ a[i] = s[i]
                                      \/ i = Len(s) + 1 /\ a[i] = x
      BY <2>1, AppendIs
  <2>3. \A i \in 1 .. Len(s) : i \in 1 .. Len(s) + 1 /\ a[i] = s[i]
      BY <2>2
  <2>4. Len(s) + 1 \in 1 .. Len(s) + 1 /\ a[Len(s) + 1] = x
      BY <2>2
  <2>5. ToSet(a) = {a[i] : i \in 1 .. Len(s) + 1} /\ ToSet(s) = {s[i] : i \in 1 .. Len(s)}
      BY <1>2, <2>2
  <2>6. QED
      BY <2>1, <2>2, <2>3, <2>4, <2>5
<1>4. ASSUME NEW s \in Seq(S), s # << >>
      PROVE  Head(s) \in S /\ ToSet(s) = {Head(s)} \cup ToSet(Tail(s))
  <2>1. PICK t : t = Tail(s)
      OBVIOUS
  <2>2. /\ t \in Seq(S) /\ Len(t) = Len(s) - 1 /\ Len(s) \in Nat
        /\ \A i \in 1 .. Len(s) - 1 : i + 1 \in 1 .. Len(s) /\ t[i] = s[i + 1]
        /\ 1 \in 1 .. Len(s) /\ Head(s) = s[1] /\ Head(s) \in S
      BY <1>4, <2>1, TailIs
  <2>3. \A i \in 1 .. Len(s) : i = 1 \/ (i - 1 \in 1 .. Len(s) - 1 /\ t[i - 1] = s[i])
    <3>1. ASSUME NEW i \in 1 .. Len(s), i # 1
          PROVE  i - 1 \in 1 .. Len(s) - 1 /\ (i - 1) + 1 = i
        BY <2>2, <3>1
    <3>2. QED
        BY <2>2, <3>1
  <2>4. ToSet(t) = {t[i] : i \in 1 .. Len(s) - 1} /\ ToSet(s) = {s[i] : i \in 1 .. Len(s)}
      BY <1>2, <2>2
  <2>5. ToSet(s) \subseteq {Head(s)} \cup ToSet(t)
    <3>1. ASSUME NEW i \in 1 .. Len(s) PROVE s[i] \in {Head(s)} \cup ToSet(t)
        BY <2>2, <2>3, <2>4
    <3>2. QED
        BY <2>4, <3>1
  <2>6. {Head(s)} \cup ToSet(t) \subseteq ToSet(s)
    <3>1. ASSUME NEW i \in 1 .. Len(s) - 1 PROVE t[i] \in ToSet(s)
        BY <2>2, <2>4
    <3>2. Head(s) \in ToSet(s)
        BY <2>2, <2>4
    <3>3. QED
        BY <2>4, <3>1, <3>2
  <2>7. QED
      BY <2>1, <2>2, <2>5, <2>6
<1>5. \A s \in Seq(S) : ToSet(s) \subseteq S
    BY <1>1, <1>2
<1>6. ASSUME NEW s \in Seq(S), Len(s) = 0 PROVE ToSet(s) = {}
  <2>1. 1 .. Len(s) = {}
      BY <1>6
  <2>2. QED
      BY <1>2, <2>1
<1>7. QED
    BY <1>3, <1>4, <1>5, <1>6

(* The thread that moves, in the state it moves from. *)
LEMMA PromisedOn ==
    ASSUME Ordered, NEW th, Walks(th), Promised(th), Sure(th), NEW new, Steps(th, new)
    PROVE  Promised(new) /\ \A r \in new.owed : r \in Relations /\ Steady(r)
<1>1. CASE CallsOwn(new)
    BY <1>1 DEF CallsOwn, Rests, Promised, Serving
<1>2. CASE GoesOn(th, new)
    BY <1>2 DEF GoesOn, Same, Promised, Sure, Serving
<1>3. CASE Sets(new)
  <2>1. ToSet(subscriptions) \subseteq Relations
      BY ListSets DEF Ordered, Listed, Connected
  <2>2. QED
      BY <1>3, <2>1 DEF Sets, Promised, Serving
<1>4. CASE EntersOne(th, new)
  <2>1. th.pc \in Walking
      BY <1>4 DEF EntersOne, Walking, Serving
  <2>2. th.rest \in Seq(Connected) /\ th.rest # << >> /\ th.sent \in Seq(Connected)
      BY <2>1 DEF Walks
  <2>3. PICK a : a = Append(th.sent, Head(th.rest))
      OBVIOUS
  <2>4. ToSet(a) = ToSet(th.sent) \cup {Head(th.rest)}
      BY <2>2, <2>3, ListSets
  <2>5. /\ new.pc = "callback" /\ new.rest = th.rest /\ new.sent = a
        /\ new.owed \subseteq th.owed
      BY <1>4, <2>3 DEF EntersOne
  <2>6. QED
      BY <2>4, <2>5 DEF Promised, Sure, Serving
<1>5. CASE Passes(th, new)
  <2>1. th.pc \in Walking /\ th.rest \in Seq(Connected) /\ th.rest # << >>
      BY <1>5 DEF Passes, Walks
  <2>2. PICK t : t = Tail(th.rest)
      OBVIOUS
  <2>3. ToSet(th.rest) = {Head(th.rest)} \cup ToSet(t)
      BY <2>1, <2>2, ListSets
  <2>4. Head(th.rest) \in th.owed => Head(th.rest) \in ToSet(th.sent)
    <3>1. CASE th.pc = "callback"
        BY <3>1 DEF Promised
    <3>2. CASE th.pc \in Selecting
        BY <3>2 DEF Promised, Selecting, Serving
    <3>3. CASE th.pc \in Serving \ {"callback"}
        BY <1>5, <3>3 DEF Passes, Sure
    <3>4. QED
        BY <2>1, <3>1, <3>2, <3>3 DEF Walking
  <2>5. th.owed \subseteq ToSet(th.sent) \cup ToSet(t)
      BY <2>3, <2>4 DEF Promised
  <2>6. CASE Len(th.rest) > 1
    <3>1. /\ new.rest = t /\ new.sent = th.sent /\ new.owed \subseteq th.owed
          /\ new.pc # "callback"
          /\ th.pc \notin Selecting => new.pc \in Serving
        BY <1>5, <2>2, <2>6 DEF Passes, Serving
    <3>2. th.pc \in Selecting => th.owed = {}
        BY DEF Promised, Selecting, Serving
    <3>3. QED
        BY <2>5, <3>1, <3>2 DEF Promised, Sure
  <2>7. CASE ~(Len(th.rest) > 1)
    <3>1. ToSet(t) = {}
      <4>1. t \in Seq(Connected) /\ Len(t) = Len(th.rest) - 1 /\ Len(th.rest) \in Nat
          BY <2>1, <2>2, TailIs
      <4>2. Len(t) \in Nat
          BY <4>1
      <4>3. Len(t) = 0
        <5>1. \A m, n \in Nat : m = n - 1 /\ ~(n > 1) => m = 0
            OBVIOUS
        <5>2. QED
            BY <2>7, <4>1, <4>2, <5>1
      <4>4. QED
          BY <4>1, <4>3, ListSets
    <3>2. new.owed = {}
        BY <1>5, <2>5, <2>7, <3>1 DEF Passes
    <3>3. new.pc # "callback"
        BY <1>5, <2>7 DEF Passes
    <3>4. QED
        BY <3>2, <3>3 DEF Promised
  <2>8. QED
      BY <2>6, <2>7
<1>6. QED
    BY <1>1, <1>2, <1>3, <1>4, <1>5 DEF Steps

(* A step of a thread that settles what is owed keeps the promises. *)
LEMMA OwingKept ==
    ASSUME Ordered, Owing, NEW x \in Threads, Moves(x), Settles PROVE Owing'
<1> SUFFICES ASSUME NEW t \in Threads PROVE Promised(thread[t])' /\ Sure(thread[t])'
    BY DEF Owing
<1>1. PICK th, new : th = thread[t] /\ new = thread'[t]
    OBVIOUS
<1>2. Walks(th) /\ Promised(th) /\ Sure(th)
    BY <1>1 DEF Ordered, Owing
<1>3. Promised(new) /\ \A r \in new.owed : r \in Relations /\ Steady(r)
  <2>1. CASE t # x
    <3>1. Alike(th, new)
        BY <1>1, <2>1 DEF Moves
    <3>2. QED
        BY <1>2, <3>1 DEF Alike, Same, Promised, Sure
  <2>2. CASE t = x
    <3>1. Steps(th, new)
        BY <1>1, <2>2 DEF Moves
    <3>2. QED
        BY <1>2, <3>1, PromisedOn
  <2>3. QED
      BY <2>1, <2>2
<1>4. \A r \in new.owed : r \in Relations /\ Steady(r)'
    BY <1>1, <1>3 DEF Settles
<1>5. new.pc = "cancel" => new.relation \in Receivers /\ ~alive'[new.relation]
  <2>1. CASE th.pc = "cancel" /\ new.relation = th.relation
      BY <1>2, <2>1 DEF Sure, Settles
  <2>2. CASE CallsOwn(new)
      BY <2>2 DEF CallsOwn
  <2>3. new.pc = "cancel" => CallsOwn(new) \/ (th.pc = "cancel" /\ new.relation = th.relation)
    <3>1. Alike(th, new) \/ Steps(th, new)
        BY <1>1 DEF Moves
    <3>2. QED
        BY <3>1 DEF Alike, Same, Steps, GoesOn, Sets, EntersOne, Passes
  <2>4. QED
      BY <2>1, <2>2, <2>3
<1>6. Sure(thread[t])'
  <2>1. \A r \in thread'[t].owed : r \in Relations /\ Steady(r)'
      BY <1>1, <1>4
  <2>2. QED
      BY <1>1, <1>5, <2>1 DEF Sure, Steady
<1>7. QED
    BY <1>1, <1>3, <1>6 DEF Promised
-----------------------------------------------------------------------------
(* Steps that leave the relations' words and the receivers alone, or strike *)
(* those they touch out of what is owed.                                    *)
LEMMA SettlesAlone ==
    ASSUME UNCHANGED <<word, alive>> PROVE Settles
BY DEF Settles, Steady

LEMMA SettlesTouched ==
    ASSUME Seen, NEW x \in Threads, NEW th, DOMAIN th = Fields, NEW touched,
           thread' = Disturbed([thread EXCEPT ![x] = th], touched),
           \A r \in Relations \ touched : Steady(r) =>
               word'[r] = word[r] /\ alive'[ReceiverOf[r]] = alive[ReceiverOf[r]],
           \A v \in Receivers : ~alive[v] => ~alive'[v]
    PROVE  Settles
<1> DEFINE threads == [thread EXCEPT ![x] = th]
<1>1. DOMAIN threads = Threads /\ \A t \in Threads : DOMAIN threads[t] = Fields
    BY DEF Seen
<1> HIDE DEF threads
<1>2. \A t \in Threads : thread'[t].owed = threads[t].owed \ touched
  <2>1. thread' = Disturbed(threads, touched)
      BY DEF threads
  <2>2. QED
      BY <1>1, <2>1, DisturbedAlike
<1>3. ASSUME NEW r \in Relations, Steady(r), r \notin touched PROVE Steady(r)'
    BY <1>3 DEF Steady
<1>4. QED
    BY <1>2, <1>3 DEF Settles

LEMMA OwnerSettles ==
    ASSUME IInv, Ordered, Owing, NEW o \in Owners, OwnerStep(o)
    PROVE  Settles
<1>0. /\ o \in Threads /\ DOMAIN thread[o] = Fields /\ DOMAIN Idle = Fields
      /\ word \in [Relations -> Word] /\ Seen /\ DOMAIN alive = Receivers
    BY DEF IInv, Counted, Seen, Threads, Idle, Fields, Ordered, Numbers, PositiveOrder
<1>a. \A touched : \A r \in Relations \ touched : Canceled(touched)[r] = word[r]
    BY DEF Canceled
<1>1. CASE \/ \E r \in Relations : \/ Connect(o, r)
                                    \/ \E budget \in NewBudgets : SetBudget(o, r, budget)
           \/ Insert(o) \/ AttachInbound(o) \/ RemoveSubscription(o)
    BY <1>1, SettlesAlone DEF Connect, SetBudget, Insert, AttachInbound, RemoveSubscription,
                              relationVars
<1>2. ASSUME NEW r \in Relations, Disconnect(o, r) PROVE Settles
  <2> DEFINE th == [Idle EXCEPT !.pc = "remove", !.relation = r,
                                !.calls = thread[o].calls + 1]
  <2>1. DOMAIN th = Fields
      BY <1>0 DEF Fields
  <2>2. /\ thread' = Disturbed([thread EXCEPT ![o] = th], {r})
        /\ word' = Canceled({r}) /\ alive' = alive
      BY <1>2 DEF Disconnect, relationVars
  <2> HIDE DEF th
  <2>3. QED
      BY <1>0, <1>a, <2>1, <2>2, SettlesTouched
<1>3. ASSUME NEW touched, NEW word1, word' = word1, alive' = alive,
             thread' = Disturbed([thread EXCEPT ![o].calls = @ + 1], touched),
             \A r \in Relations \ touched : word1[r] = word[r]
      PROVE  Settles
  <2> DEFINE th == [thread[o] EXCEPT !.calls = @ + 1]
  <2>1. DOMAIN th = Fields
      BY <1>0 DEF Fields
  <2>2. thread' = Disturbed([thread EXCEPT ![o] = th], touched)
      BY <1>3
  <2> HIDE DEF th
  <2>3. QED
      BY <1>0, <1>3, <2>1, <2>2, SettlesTouched
<1>4. ASSUME NEW r \in Relations, NEW suspended \in BOOLEAN, SetSuspended(o, r, suspended)
      PROVE Settles
  <2>1. PICK w : w = [word EXCEPT ![r].suspended = suspended]
      OBVIOUS
  <2>2. \A q \in Relations \ {r} : w[q] = word[q]
      BY <1>0, <2>1
  <2>3. /\ word' = w /\ alive' = alive
        /\ thread' = Disturbed([thread EXCEPT ![o].calls = @ + 1], {r})
      BY <1>4, <2>1 DEF SetSuspended, relationVars
  <2>4. QED
      BY <1>3, <2>2, <2>3
<1>5. CASE CancelAll(o)
  <2>1. /\ word' = Canceled(ToSet(subscriptions)) /\ alive' = alive
        /\ thread' = Disturbed([thread EXCEPT ![o].calls = @ + 1], ToSet(subscriptions))
      BY <1>5 DEF CancelAll, relationVars
  <2>2. QED
      BY <1>3, <1>a, <2>1
<1>6. CASE ReplaceBudget(o)
  <2> DEFINE r == thread[o].relation
             th == Return(thread[o])
  <2>1. DOMAIN th = Fields
      BY <1>0 DEF Return, Fields
  <2>2. \/ UNCHANGED <<word, alive>>
        \/ /\ thread' = Disturbed([thread EXCEPT ![o] = th], {r})
           /\ \A q \in Relations \ {r} : word'[q] = word[q]
           /\ alive' = alive
      BY <1>0, <1>6 DEF ReplaceBudget, relationVars
  <2> HIDE DEF th, r
  <2>3. QED
      BY <1>0, <2>1, <2>2, SettlesTouched, SettlesAlone
<1>7. ASSUME NEW v \in Receivers, Destroy(o, v) PROVE Settles
  <2> DEFINE th == [Idle EXCEPT !.pc = "cancel", !.relation = v,
                                !.calls = thread[o].calls + 1]
             touched == {r \in Relations : ReceiverOf[r] = v}
  <2>1. DOMAIN th = Fields
      BY <1>0 DEF Fields
  <2>2. /\ thread' = Disturbed([thread EXCEPT ![o] = th], touched)
        /\ alive' = [alive EXCEPT ![v] = FALSE] /\ word' = word
      BY <1>7 DEF Destroy
  <2>3. \A r \in Relations \ touched : alive'[ReceiverOf[r]] = alive[ReceiverOf[r]]
      BY <1>0, <2>2, PortAssumption
  <2>4. \A u \in Receivers : ~alive[u] => ~alive'[u]
      BY <1>0, <2>2
  <2> HIDE DEF th, touched
  <2>5. QED
      BY <1>0, <2>1, <2>2, <2>3, <2>4, SettlesTouched
<1>8. CASE CancelInbound(o)
  <2>1. /\ thread[o].pc = "cancel" /\ alive' = alive
        /\ word' = Canceled({r \in linked : Held(r) /\ ReceiverOf[r] = thread[o].relation})
      BY <1>8 DEF CancelInbound, At, relationVars
  <2>2. ~alive[thread[o].relation]
      BY <1>0, <2>1 DEF Owing, Sure
  <2>3. ASSUME NEW r \in Relations, Steady(r) PROVE word'[r] = word[r]
      BY <1>a, <2>1, <2>2, <2>3 DEF Steady
  <2>4. \A r \in Relations : Steady(r) => Steady(r)'
      BY <2>1, <2>3 DEF Steady
  <2>5. QED
      BY <2>1, <2>4 DEF Settles
<1>9. QED
    BY <1>1, <1>2, <1>4, <1>5, <1>6, <1>7, <1>8 DEF OwnerStep

LEMMA EmitterSettles ==
    ASSUME IInv, Ordered, NEW e \in Emitters, EmitterStep(e)
    PROVE  Settles
<1>0. /\ e \in Threads /\ DOMAIN thread[e] = Fields
      /\ word \in [Relations -> Word] /\ Seen
    BY DEF IInv, Counted, Seen, Threads
<1>1. alive' = alive
    BY DEF EmitterStep, BeginEmission, Lease, BeginDispatch, Spend, Callback, Select,
           Retain, RunBatch, DropBatch, TakeBatch, relationVars
<1> DEFINE r == Current(e)
<1>a. ASSUME NEW touched, NEW th, DOMAIN th = Fields,
             thread' = Disturbed([thread EXCEPT ![e] = th], touched),
             \A q \in Relations \ touched : word'[q] = word[q]
      PROVE  Settles
    BY <1>0, <1>1, <1>a, SettlesTouched
<1>b. \A q \in Relations \ {r} : Canceled({r})[q] = word[q]
    BY DEF Canceled
<1>2. CASE UNCHANGED word
    BY <1>1, <1>2, SettlesAlone
<1>3. CASE Lease(e) /\ ~UNCHANGED word
  <2> DEFINE th == Forward(thread[e], "lease")
  <2>1. DOMAIN th = Fields
      BY <1>0, ForwardFields
  <2>2. word' = Canceled({r}) /\ thread' = Disturbed([thread EXCEPT ![e] = th], {r})
      BY <1>3 DEF Lease, Skip
  <2> HIDE DEF th, r
  <2>3. QED
      BY <1>a, <1>b, <2>1, <2>2
<1>4. CASE Spend(e) /\ ~UNCHANGED word
  <2> DEFINE th == Enter(thread[e])
  <2>1. DOMAIN th = Fields
      BY <1>0, EnterFields
  <2>2. /\ word' = [word EXCEPT ![r] = Spent(word[r])]
        /\ thread' = Disturbed([thread EXCEPT ![e] = th], {r})
      BY <1>4 DEF Spend
  <2> HIDE DEF th, r
  <2>3. \A q \in Relations \ {r} : word'[q] = word[q]
      BY <1>0, <2>2
  <2>4. QED
      BY <1>a, <2>1, <2>2, <2>3
<1>5. CASE Retain(e) /\ ~UNCHANGED word
  <2> DEFINE mid == [thread[e] EXCEPT !.acts = thread[e].acts]
             th == Forward(mid, "select")
  <2>1. DOMAIN mid = Fields
      BY <1>0 DEF Fields
  <2>2. DOMAIN th = Fields
      BY <2>1, ForwardFields
  <2>3. word' = Canceled({r}) /\ thread' = Disturbed([thread EXCEPT ![e] = th], {r})
      BY <1>5 DEF Retain
  <2> HIDE DEF th, r
  <2>4. QED
      BY <1>a, <1>b, <2>2, <2>3
<1>6. QED
    BY <1>2, <1>3, <1>4, <1>5 DEF EmitterStep, BeginEmission, BeginDispatch, Callback,
       Select, RunBatch, DropBatch, TakeBatch

LEMMA OwingStep ==
    ASSUME IInv, Ordered, Owing, [Next]_vars PROVE Owing'
<1>1. CASE UNCHANGED vars
    BY <1>1 DEF vars, relationVars, Owing, Promised, Sure, Steady
<1>2. ASSUME NEW o \in Owners, OwnerStep(o) PROVE Owing'
    BY <1>2, OwnerMoves, OwnerSettles, OwingKept DEF IInv, Ordered, Numbers, Threads
<1>3. ASSUME NEW e \in Emitters, EmitterStep(e) PROVE Owing'
    BY <1>3, EmitterMoves, EmitterSettles, OwingKept DEF IInv, Ordered, Numbers, Threads
<1>4. QED
    BY <1>1, <1>2, <1>3, NextSplit

(* A relation that is persistent, active and alive throughout an immediate *)
(* emission is called by it unless a callback stops it, whatever becomes   *)
(* of the others (EventPort.h, Emit, TryBeginDispatch and CancelInbound).  *)
THEOREM NobodyLeftOut == Spec => []NobodySkipped
<1>1. Init => IInv /\ Ordered /\ Owing
  <2>1. Init => Owing
    <3>1. Idle.owed = {} /\ Idle.pc = "idle"
        BY DEF Idle
    <3>2. QED
        BY <3>1 DEF Init, Owing, Promised, Sure
  <2>2. QED
      BY <2>1, InitIInv, OrderedInit
<1>2. IInv /\ Ordered /\ Owing /\ [Next]_vars => IInv' /\ Ordered' /\ Owing'
    BY StepIInv, OrderedStep, OwingStep
<1>3. Ordered /\ Owing => NobodySkipped
  <2> SUFFICES ASSUME Ordered, Owing, NEW e \in Emitters
               PROVE  thread[e].owed \subseteq ToSet(thread[e].sent \o thread[e].rest)
      BY DEF NobodySkipped
  <2>1. /\ thread[e].sent \in Seq(Connected) /\ thread[e].rest \in Seq(Connected)
        /\ thread[e].owed \subseteq ToSet(thread[e].sent) \cup ToSet(thread[e].rest)
      BY DEF Ordered, Walks, Owing, Promised, Threads
  <2>2. ASSUME NEW a \in Seq(Connected), NEW b \in Seq(Connected)
        PROVE  ToSet(a) \cup ToSet(b) \subseteq ToSet(a \o b)
    <3>1. PICK c : c = a \o b
        OBVIOUS
    <3>2. /\ DOMAIN a = 1 .. Len(a) /\ DOMAIN b = 1 .. Len(b)
          /\ DOMAIN c = 1 .. Len(a) + Len(b) /\ Len(a) \in Nat /\ Len(b) \in Nat
          /\ \A i \in 1 .. Len(a) : c[i] = a[i]
          /\ \A i \in 1 .. Len(b) : c[Len(a) + i] = b[i]
      <4>1. \A i \in 1 .. Len(a) + Len(b) : c[i] = IF i <= Len(a) THEN a[i] ELSE b[i - Len(a)]
          BY <3>1, ConcatProperties
      <4>2. c \in Seq(Connected) /\ Len(c) = Len(a) + Len(b)
          BY <3>1, ConcatProperties
      <4>3. QED
          BY <4>1, <4>2
    <3>3. \A i \in 1 .. Len(a) : i \in 1 .. Len(a) + Len(b)
        BY <3>2
    <3>4. \A i \in 1 .. Len(b) : Len(a) + i \in 1 .. Len(a) + Len(b)
        BY <3>2
    <3>5. \A z \in ToSet(a) : z \in ToSet(c)
        BY <3>2, <3>3 DEF ToSet
    <3>6. \A z \in ToSet(b) : z \in ToSet(c)
        BY <3>2, <3>4 DEF ToSet
    <3>7. QED
        BY <3>1, <3>5, <3>6
  <2>3. QED
      BY <2>1, <2>2
<1>4. QED
    BY <1>1, <1>2, <1>3, PTL DEF Spec
=============================================================================
