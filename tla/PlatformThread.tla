--------------------------- MODULE PlatformThread ---------------------------
(***************************************************************************)
(* The lifetime of Mashiro's platform thread (Platform/PlatformThread.h,   *)
(* src/Platform/PlatformThread.cpp): Run takes over a thread, publishes    *)
(* the application's event channel and drives the loop; other threads wait *)
(* for the channel with WhenReady and ask for the end with RequestStop,    *)
(* before, during and after Run.                                           *)
(*                                                                         *)
(* RequestStop stores a flag and then loads the address of the bridge, Run *)
(* stores the address and then loads the flag, all with release and        *)
(* acquire order only: each thread's load may come before its store.       *)
(***************************************************************************)
EXTENDS Naturals

CONSTANTS Requesters, Waiters   \* threads in RequestStop, in WhenReady

VARIABLES
    state, run,         \* state_; where the thread in Run is
    appChannel,         \* is the channel published
    notifying,          \* where each caller of NotifyReadinessWaiters is
    stopRequested,
    stopBridge,         \* does it hold the address of the bridge
    bridge,             \* alive, installed: has it a stop source
    source,             \* has the stop source been asked to stop
    todo,               \* of Run and each requester: accesses not yet made
    found,              \* what its load found
    requester,          \* where each requester is
    waiter              \* of each waiter: pc, registered, the token's stop,
                        \* and has readinessEpoch_ moved since the snapshot

lifeVars == <<state, run, appChannel>>
readyVars == <<notifying, waiter>>
stopVars_ == <<stopRequested, stopBridge, bridge, source, todo, found, requester>>
threadVars == <<lifeVars, readyVars, stopVars_>>

Callers == Requesters \cup {"run"}
Both == {"store", "load"}

ThreadInit ==
    /\ state = "Idle" /\ run = "idle" /\ appChannel = FALSE
    /\ notifying = [p \in Waiters \cup {"run"} |-> "no"]
    /\ stopRequested = FALSE /\ stopBridge = FALSE /\ source = FALSE
    /\ bridge = [alive |-> FALSE, installed |-> FALSE]
    /\ todo = [p \in Callers |-> {}] /\ found = [p \in Callers |-> FALSE]
    /\ requester = [t \in Requesters |-> "idle"]
    /\ waiter = [w \in Waiters |->
                   [pc |-> "idle", moved |-> FALSE, stop |-> FALSE, registered |-> FALSE]]
-----------------------------------------------------------------------------
(* NotifyReadinessWaiters: readinessEpoch_ moves, then sleepers are        *)
(* notified and compare again.                                             *)

Answered(w) == waiter[w].pc \in {"ready", "stopped"}
Looping(w) == waiter[w].pc \in {"check", "check.stop", "wait", "asleep"}

(* Mutant: the epoch stays, as it does when EventChannel is stopped. *)
BumpNothing(p) ==
    /\ notifying[p] = "bump" /\ notifying' = [notifying EXCEPT ![p] = "wake"]
    /\ UNCHANGED <<waiter, lifeVars, stopVars_>>

BumpReadiness(p) ==
    /\ notifying[p] = "bump" /\ notifying' = [notifying EXCEPT ![p] = "wake"]
    /\ waiter' = [w \in Waiters |-> [waiter[w] EXCEPT !.moved = Looping(w)]]
    /\ UNCHANGED <<lifeVars, stopVars_>>

WakeWaiters(p) ==
    /\ notifying[p] = "wake" /\ notifying' = [notifying EXCEPT ![p] = "no"]
    /\ waiter' = [w \in Waiters |-> IF waiter[w].pc = "asleep"
                                    THEN [waiter[w] EXCEPT !.pc = "wait"] ELSE waiter[w]]
    /\ UNCHANGED <<lifeVars, stopVars_>>
-----------------------------------------------------------------------------
(* Run.                                                                    *)

RunGoes(from, to) == run = from /\ run' = to

BeginRun ==
    /\ RunGoes("idle", "install") /\ state = "Idle" /\ state' = "Running"
    /\ UNCHANGED <<appChannel, readyVars, stopVars_>>

InstallBridge ==
    /\ RunGoes("install", "expose")
    /\ bridge' = [alive |-> TRUE, installed |-> TRUE]
    /\ todo' = [todo EXCEPT !["run"] = Both]
    /\ UNCHANGED <<state, appChannel, readyVars, stopRequested, stopBridge,
                   source, found, requester>>

StoreBridge ==
    /\ "store" \in todo["run"] /\ todo' = [todo EXCEPT !["run"] = @ \ {"store"}]
    /\ stopBridge' = TRUE
    /\ UNCHANGED <<lifeVars, readyVars, stopRequested, bridge, source, found, requester>>

LoadStopRequested ==
    /\ "load" \in todo["run"] /\ todo' = [todo EXCEPT !["run"] = @ \ {"load"}]
    /\ found' = [found EXCEPT !["run"] = stopRequested]
    /\ UNCHANGED <<lifeVars, readyVars, stopRequested, stopBridge, bridge, source, requester>>

(* A request found is made again; then the managers start, or fail to. *)
ReplayAndAttach ==
    /\ RunGoes("expose", "publish") \/ RunGoes("expose", "unexpose")
    /\ todo["run"] = {}
    /\ source' = (source \/ found["run"])
    /\ found' = [found EXCEPT !["run"] = FALSE]
    /\ UNCHANGED <<state, appChannel, readyVars, stopRequested, stopBridge,
                   bridge, todo, requester>>

Publish ==
    /\ RunGoes("publish", "ready")
    /\ appChannel' = TRUE
    /\ notifying' = [notifying EXCEPT !["run"] = "bump"]
    /\ UNCHANGED <<state, waiter, stopVars_>>

EnterLoop ==
    /\ RunGoes("ready", "loop") /\ notifying["run"] = "no"
    /\ UNCHANGED <<state, appChannel, readyVars, stopVars_>>

(* The loop has returned. *)
Unpublish ==
    /\ RunGoes("loop", "unexpose")
    /\ appChannel' = FALSE
    /\ UNCHANGED <<state, readyVars, stopVars_>>

Unexpose ==
    /\ RunGoes("unexpose", "detach")
    /\ stopBridge' = FALSE
    /\ UNCHANGED <<state, appChannel, readyVars, stopRequested, bridge, source,
                   todo, found, requester>>

DetachBridge ==
    /\ RunGoes("detach", "stopping")
    /\ bridge' = [bridge EXCEPT !.installed = FALSE]
    /\ UNCHANGED <<state, appChannel, readyVars, stopRequested, stopBridge,
                   source, todo, found, requester>>

SetStopped ==
    /\ RunGoes("stopping", "stopped") /\ state' = "Stopped"
    /\ notifying' = [notifying EXCEPT !["run"] = "bump"]
    /\ UNCHANGED <<appChannel, waiter, stopVars_>>

(* The bridge lives in Run's frame. *)
ReturnFromRun ==
    /\ RunGoes("stopped", "returned") /\ notifying["run"] = "no"
    /\ bridge' = [bridge EXCEPT !.alive = FALSE]
    /\ UNCHANGED <<state, appChannel, readyVars, stopRequested, stopBridge,
                   source, todo, found, requester>>
-----------------------------------------------------------------------------
(* RequestStop.                                                            *)

CallRequestStop(t) ==
    /\ requester[t] = "idle" /\ requester' = [requester EXCEPT ![t] = "call"]
    /\ todo' = [todo EXCEPT ![t] = Both]
    /\ UNCHANGED <<lifeVars, readyVars, stopRequested, stopBridge, bridge, source, found>>

StoreStopRequested(t) ==
    /\ "store" \in todo[t] /\ todo' = [todo EXCEPT ![t] = @ \ {"store"}]
    /\ stopRequested' = TRUE
    /\ UNCHANGED <<lifeVars, readyVars, stopBridge, bridge, source, found, requester>>

LoadBridge(t) ==
    /\ "load" \in todo[t] /\ todo' = [todo EXCEPT ![t] = @ \ {"load"}]
    /\ found' = [found EXCEPT ![t] = stopBridge]
    /\ UNCHANGED <<lifeVars, readyVars, stopRequested, stopBridge, bridge, source, requester>>

(* The bridge's lock makes a request one step.  A frame that is gone holds *)
(* no lock: the thread may hang in it, or nothing happens.                 *)
BridgeRequest(t) ==
    /\ requester[t] = "call" /\ todo[t] = {}
    /\ \/ requester' = [requester EXCEPT ![t] = "done"]
       \/ /\ found[t] /\ ~bridge.alive
          /\ requester' = [requester EXCEPT ![t] = "hung"]
    /\ source' = (source \/ (found[t] /\ bridge.installed))
    /\ found' = [found EXCEPT ![t] = FALSE]
    /\ UNCHANGED <<lifeVars, readyVars, stopRequested, stopBridge, bridge, todo>>

RequestStep(t) == StoreStopRequested(t) \/ LoadBridge(t) \/ BridgeRequest(t)
-----------------------------------------------------------------------------
(* WhenReady.                                                              *)

Waiting(w, from, to) == waiter[w].pc = from /\ waiter' = [waiter EXCEPT ![w].pc = to]
WaiterOnly == UNCHANGED <<notifying, lifeVars, stopVars_>>

(* Completing takes the callback away, after one that is running; the     *)
(* token is the receiver's and goes with it.                               *)
Complete(w, label) ==
    /\ notifying[w] = "no"
    /\ waiter' = [waiter EXCEPT ![w].pc = label, ![w].registered = FALSE,
                                ![w].stop = FALSE, ![w].moved = FALSE]

(* The token may have fired before the call. *)
StartWhenReady(w) ==
    /\ waiter[w].pc = "idle"
    /\ \/ appChannel /\ Complete(w, "ready")
       \/ ~appChannel /\ (state = "Stopped" \/ waiter[w].stop) /\ Complete(w, "stopped")
       \/ ~appChannel /\ state # "Stopped" /\ ~waiter[w].stop /\ Waiting(w, "idle", "register")
    /\ WaiterOnly

(* The callback runs at once when the token has fired by now. *)
RegisterOnStop(w) ==
    /\ waiter[w].pc = "register"
    /\ waiter' = [waiter EXCEPT ![w].pc = "snapshot", ![w].registered = TRUE]
    /\ notifying' = [notifying EXCEPT ![w] = IF waiter[w].stop THEN "bump" ELSE "no"]
    /\ UNCHANGED <<lifeVars, stopVars_>>

SnapshotReadiness(w) ==
    /\ waiter[w].pc = "snapshot"
    /\ waiter' = [waiter EXCEPT ![w].pc = "check", ![w].moved = FALSE]
    /\ WaiterOnly

CheckChannel(w) ==
    /\ waiter[w].pc = "check"
    /\ IF appChannel THEN Complete(w, "ready") ELSE Waiting(w, "check", "check.stop")
    /\ WaiterOnly

CheckStopped(w) ==
    /\ waiter[w].pc = "check.stop"
    /\ IF state = "Stopped" \/ waiter[w].stop THEN Complete(w, "stopped")
       ELSE Waiting(w, "check.stop", "wait")
    /\ WaiterOnly

WaitReadiness(w) ==
    /\ waiter[w].pc = "wait"
    /\ waiter' = [waiter EXCEPT ![w].pc = IF waiter[w].moved THEN "snapshot" ELSE "asleep",
                                ![w].moved = FALSE]
    /\ WaiterOnly

(* The receiver's token fires; its callback notifies, if it is in place. *)
StopWaiter(w) ==
    /\ ~waiter[w].stop /\ ~Answered(w)
    /\ waiter' = [waiter EXCEPT ![w].stop = TRUE]
    /\ notifying' = IF waiter[w].registered THEN [notifying EXCEPT ![w] = "bump"] ELSE notifying
    /\ UNCHANGED <<lifeVars, stopVars_>>

WaiterStep(w) ==
    \/ RegisterOnStop(w) \/ SnapshotReadiness(w) \/ CheckChannel(w)
    \/ CheckStopped(w) \/ WaitReadiness(w) \/ BumpReadiness(w) \/ WakeWaiters(w)
-----------------------------------------------------------------------------
(* A waiter sleeps only while neither the channel nor the end is there to  *)
(* be seen, or while somebody is about to notify it.                       *)
ReadinessNotMissed ==
    \A w \in Waiters : waiter[w].pc = "asleep" =>
        \/ ~appChannel /\ state # "Stopped" /\ ~waiter[w].stop
        \/ \E p \in DOMAIN notifying : notifying[p] # "no"
=============================================================================
