------------------------------ MODULE EventLoop ------------------------------
(***************************************************************************)
(* PlatformThread, EventPump and EventChannel together: Run drives the     *)
(* loop until its stop source is asked to stop, and the waiter that is the *)
(* application becomes the channel's subscriber, which polls it (the wait  *)
(* in NextBatch has a model of its own in EventChannel).                   *)
(***************************************************************************)
EXTENDS PlatformThread, EventPump

CONSTANT application    \* the waiter that subscribes to the channel

ASSUME LoopAssumption ==
    /\ application \in Waiters /\ "run" \notin Requesters \cup Waiters
    /\ InboxCapacity > 0 /\ MailboxCapacity > 0 /\ MaxEvents >= MaxPosts

loopVars == <<threadVars, pumpVars, channelVars>>

LoopInit == Init /\ PumpInit /\ ThreadInit

(* Steps of one component that touch no other. *)
Pump == UNCHANGED threadVars
Thread == UNCHANGED <<pumpVars, channelVars>>
Channel == UNCHANGED <<threadVars, pumpVars>>

(* Run starts the loop when the channel is published, and goes on when it  *)
(* has returned and the managers' tasks, which post, have been joined.     *)
StartLoop ==
    /\ EnterLoop /\ pump' = "wait"
    /\ UNCHANGED <<queueVars, native, signal, poster, channelVars>>

LeaveLoop ==
    /\ pump = "done" /\ \A p \in Posters : poster[p] = "idle"
    /\ Unpublish /\ Thread

RunAlone ==
    \/ InstallBridge \/ StoreBridge \/ LoadStopRequested \/ ReplayAndAttach
    \/ Publish \/ Unexpose \/ DetachBridge \/ SetStopped \/ ReturnFromRun
    \/ BumpReadiness("run") \/ WakeWaiters("run")

RunProceeds == StartLoop \/ LeaveLoop \/ (RunAlone /\ Thread)
LoopProceeds == PumpStep(source) /\ Pump
(* What is posted from AttachManagers on is first looked at by the loop. *)
Posting == run = "loop" /\ Pump /\ UNCHANGED channelVars
PosterProceeds(p) == Posting /\ (PublishPost(p) \/ Wake(p))

(* A client must not use the channel once Run has begun to leave it. *)
Subscribed == waiter[application].pc = "ready" /\ run = "loop"

LoopNext ==
    /\ ~terminated
    /\ \/ BeginRun /\ Thread
       \/ RunProceeds \/ LoopProceeds
       \/ Thread /\ \E t \in Requesters : CallRequestStop(t) \/ RequestStep(t)
       \/ Thread /\ \E w \in Waiters : StartWhenReady(w) \/ WaiterStep(w) \/ StopWaiter(w)
       \/ Posting /\ NativeEvent
       \/ Posting /\ \E p \in Posters : TryPostExternal(p) \/ SubmitResume(p)
       \/ \E p \in Posters : PosterProceeds(p)
       \/ PushStep /\ Channel
       \/ Subscribed /\ (TryPop \/ Take) /\ Channel

LoopSpec == LoopInit /\ [][LoopNext]_loopVars

(* Run is scheduled, calls that have begun are finished (some call that can *)
(* proceed does, no more is asked), and the program has not been           *)
(* terminated; nobody has to post, to subscribe or to stop.                *)
CallProceeds ==
    \/ \E p \in Posters : PosterProceeds(p)
    \/ Thread /\ \E t \in Requesters : RequestStep(t)
    \/ Thread /\ \E w \in Waiters : WaiterStep(w)

LoopFairness ==
    /\ WF_loopVars(~terminated /\ (RunProceeds \/ LoopProceeds \/ (PushStep /\ Channel)))
    /\ WF_loopVars(~terminated /\ CallProceeds)

FairLoopSpec == LoopSpec /\ LoopFairness
-----------------------------------------------------------------------------
(* The loop sleeps on an event that is clear only when no post is there to *)
(* be drained, or its poster is still to wake the loop: clearing the event *)
(* loses no post, and a cell hidden behind an unpublished one is not       *)
(* forgotten.                                                              *)
PostsWakeLoop ==
    pump = "wait" /\ ~signal /\ (\A p \in Posters : poster[p] = "idle") =>
        inbox = << >> /\ mailbox = << >>

(* What was posted is drained, whatever is posted meanwhile, unless the    *)
(* loop ends first.                                                        *)
PostsAreDrained ==
    pump # "off" /\ (inbox # << >> \/ mailbox # << >>) ~>
        (inbox = << >> /\ mailbox = << >>) \/ pump = "done" \/ terminated

(* Once the stop source has been asked to stop, from wherever the request  *)
(* overtook Run, the loop ends and Run returns.                            *)
StopEndsRun == source ~> run = "returned" \/ terminated
=============================================================================
