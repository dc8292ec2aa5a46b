---------------------------- MODULE EventChannel ----------------------------
(***************************************************************************)
(* A subscriber's endpoint of Mashiro's event broadcast                    *)
(* (Platform/EventChannel.h): the platform thread pushes events into an    *)
(* SPSC ring and bumps an epoch; the subscriber pops them one by one, or   *)
(* starts NextBatch, which blocks on the epoch until there are events to   *)
(* drain or its receiver's stop token fires.                               *)
(*                                                                         *)
(* The ring is the bounded FIFO its own specification promises, with the   *)
(* slots of a drain given back at its end.  Blocking on the epoch is       *)
(* std::atomic::wait: the comparison and going to sleep are one step, and  *)
(* a notified thread compares again before it returns.                     *)
(***************************************************************************)
EXTENDS Integers, Sequences

CONSTANTS Capacity,    \* kEventChannelCapacity
          MaxEvents    \* bound on the events ever pushed

ASSUME ChannelAssumption == Capacity \in Nat \ {0} /\ MaxEvents \in Nat

VARIABLES
    ring,         \* events whose slots are in use, oldest first
    epoch,        \* pushEpoch_
    producer,     \* where the platform thread is in TryPush
    pushed,       \* number of events in the ring so far; they are numbered
    consumer,     \* where the subscriber is in TryPop or NextBatch
    snapshot,     \* the epoch NextBatch compares with
    taking,       \* number of events the pop or drain under way takes
    delivered,    \* history: the events the subscriber got, in order
    stop,         \* has the receiver's stop token fired
    registered,   \* is the stop callback in place
    stopper       \* where the thread that requests the stop is

producerVars == <<epoch, producer, pushed>>
stopVars == <<stop, registered, stopper>>
vars == <<ring, producerVars, consumer, snapshot, taking, delivered, stopVars>>

Init ==
    /\ ring = << >> /\ epoch = 0 /\ producer = "idle" /\ pushed = 0
    /\ consumer = "idle" /\ snapshot = 0 /\ taking = 0 /\ delivered = << >>
    /\ stop = FALSE /\ registered = FALSE /\ stopper = "idle"

Empty == ring = << >>

(* Mutant: the notification gets lost. *)
Unwoken == consumer

(* A notification reaches a thread that is asleep, if there is one. *)
Woken == IF consumer = "asleep" THEN "wait" ELSE consumer

-----------------------------------------------------------------------------
(* The platform thread.  A full ring drops the event.                      *)

TryPush ==
    /\ producer = "idle" /\ pushed < MaxEvents
    /\ Len(ring) < Capacity
    /\ ring' = Append(ring, pushed + 1)
    /\ pushed' = pushed + 1
    /\ producer' = "bump"
    /\ UNCHANGED <<epoch, consumer, snapshot, taking, delivered, stopVars>>

BumpEpoch ==
    /\ producer = "bump"
    /\ epoch' = epoch + 1
    /\ producer' = "notify"
    /\ UNCHANGED <<ring, pushed, consumer, snapshot, taking, delivered,
                   stopVars>>

NotifyOne ==
    /\ producer = "notify"
    /\ producer' = "idle"
    /\ consumer' = Woken
    /\ UNCHANGED <<ring, epoch, pushed, snapshot, taking, delivered, stopVars>>

-----------------------------------------------------------------------------
(* The subscriber.                                                         *)

Go(label) == consumer' = label
Leave == UNCHANGED <<ring, producerVars, snapshot, taking, delivered, stopVars>>

TryPop ==
    /\ consumer = "idle" /\ ~Empty
    /\ taking' = 1
    /\ Go("take")
    /\ UNCHANGED <<ring, producerVars, snapshot, delivered, stopVars>>

(* The operation is connected, with a receiver and its token. *)
Connect ==
    /\ consumer = "idle"
    /\ Go("start")
    /\ Leave

(* DrainBatch takes what is published when it begins. *)
Drain ==
    /\ taking' = Len(ring)
    /\ Go("take")
    /\ UNCHANGED <<ring, producerVars, snapshot, delivered>>

StartNextBatch ==
    /\ consumer = "start"
    /\ IF Empty THEN Go("register") /\ Leave
               ELSE Drain /\ UNCHANGED stopVars

RegisterStop ==
    /\ consumer = "register"
    /\ registered' = TRUE
    /\ Go("snapshot")
    /\ UNCHANGED <<ring, producerVars, snapshot, taking, delivered, stop,
                   stopper>>

(* Before the loop and after every wait. *)
LoadEpoch ==
    /\ consumer = "snapshot"
    /\ snapshot' = epoch
    /\ Go("check")
    /\ UNCHANGED <<ring, producerVars, taking, delivered, stopVars>>

(* Taking the callback away waits for one that is running. *)
Unregister ==
    /\ stopper = "idle"
    /\ registered' = FALSE
    /\ UNCHANGED <<stop, stopper>>

CheckRing ==
    /\ consumer = "check"
    /\ IF Empty THEN Go("check.stop") /\ Leave
               ELSE Unregister /\ Drain

(* The operation is over, and its receiver's token with it. *)
Over == Go("idle") /\ snapshot' = 0 /\ stop' = FALSE

CheckStop ==
    /\ consumer = "check.stop"
    /\ IF stop
       THEN /\ registered' = FALSE /\ stopper = "idle" /\ Over
            /\ UNCHANGED <<ring, producerVars, taking, delivered, stopper>>
       ELSE Go("wait") /\ Leave

(* Mutant: sleep without comparing, as after a check of the ring alone. *)
WaitUncompared == consumer = "wait" /\ Go("asleep") /\ Leave

WaitEpoch ==
    /\ consumer = "wait"
    /\ Go(IF epoch = snapshot THEN "asleep" ELSE "snapshot")
    /\ Leave

(* Mutant: a drain empties the ring, events pushed meanwhile included. *)
TakeAll ==
    /\ consumer = "take"
    /\ delivered' = delivered \o SubSeq(ring, 1, taking)
    /\ ring' = << >>
    /\ taking' = 0
    /\ Over
    /\ UNCHANGED <<producerVars, registered, stopper>>

(* The events are moved out one after the other and the slots given back;  *)
(* the result is handed over.                                              *)
Take ==
    /\ consumer = "take"
    /\ delivered' = delivered \o SubSeq(ring, 1, taking)
    /\ ring' = SubSeq(ring, taking + 1, Len(ring))
    /\ taking' = 0
    /\ Over
    /\ UNCHANGED <<producerVars, registered, stopper>>

-----------------------------------------------------------------------------
(* The stop source: the flag is set, then the callback runs, if it is      *)
(* registered; it notifies but leaves the epoch as it is.                  *)

RequestStop ==
    /\ consumer # "idle" /\ ~stop
    /\ stop' = TRUE
    /\ stopper' = IF registered THEN "notify" ELSE "idle"
    /\ UNCHANGED <<ring, producerVars, consumer, snapshot, taking, delivered,
                   registered>>

NotifyEpochForStop ==
    /\ stopper = "notify"
    /\ stopper' = "idle"
    /\ consumer' = Woken
    /\ UNCHANGED <<ring, producerVars, snapshot, taking, delivered, stop,
                   registered>>

-----------------------------------------------------------------------------
PushStep == BumpEpoch \/ NotifyOne

NextBatchStep ==
    \/ StartNextBatch \/ RegisterStop \/ LoadEpoch \/ CheckRing \/ CheckStop
    \/ WaitEpoch \/ Take

Next == TryPush \/ PushStep \/ TryPop \/ Connect \/ NextBatchStep
        \/ RequestStop \/ NotifyEpochForStop

Spec == Init /\ [][Next]_vars

(* Calls that have begun are finished; nobody has to push, pop or stop. *)
Scheduled ==
    WF_vars(PushStep) /\ WF_vars(NextBatchStep) /\ WF_vars(NotifyEpochForStop)

FairSpec == Spec /\ Scheduled

-----------------------------------------------------------------------------
(* What the subscriber got and what is still in the ring are, in order,    *)
(* all events that were pushed, also when pushes overlap a drain.          *)
InOrder == delivered \o ring = [i \in 1 .. pushed |-> i]

(* The lost-wake freedom the comment of NextBatch claims: when the         *)
(* subscriber sleeps and no push is under way, the ring is empty.          *)
NoLostWake == consumer = "asleep" /\ producer = "idle" => Empty

(* Events reach a subscriber inside NextBatch although no other push comes. *)
EventsWake == consumer # "idle" /\ ~Empty ~> consumer = "idle"

(* NextBatch completes once its receiver's stop token has fired. *)
StopCompletes == stop /\ consumer # "idle" ~> consumer = "idle"
=============================================================================
