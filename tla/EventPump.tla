------------------------------ MODULE EventPump ------------------------------
(***************************************************************************)
(* Mashiro's platform loop (Platform/EventPump.h).  Other threads post     *)
(* events and coroutine handles through two MPSC rings and wake the loop;  *)
(* the loop waits for any source, drains native events, events and handles *)
(* in this order and broadcasts every event to a channel, here the         *)
(* application's.  The wait is the Windows backend's: a manual-reset event *)
(* that is cleared when the wait returns, a native queue that is looked at *)
(* itself, and a stop callback that signals the event.                     *)
(***************************************************************************)
EXTENDS EventChannel

CONSTANTS
    Posters,                \* threads that post
    InboxCapacity, MailboxCapacity,
    MaxPosts                \* bound: posts, resumptions and native events

VARIABLES
    inbox, mailbox,         \* claimed cells: [by, ready], oldest first
    native,                 \* messages in the queue of the operating system
    signal,                 \* the wake event
    pump,                   \* where the loop is
    poster,                 \* where each poster is
    posts,                  \* posts, resumptions and native events so far
    terminated              \* SubmitResume found the mailbox full

queueVars == <<inbox, mailbox, posts, terminated>>
pumpVars == <<queueVars, native, signal, pump, poster>>
channelVars == vars

PumpInit ==
    /\ inbox = << >> /\ mailbox = << >> /\ native = 0
    /\ signal = FALSE /\ pump = "off"
    /\ poster = [p \in Posters |-> "idle"] /\ posts = 0 /\ terminated = FALSE
-----------------------------------------------------------------------------
(* Posting: a cell is claimed, filled and published, then the loop is      *)
(* woken, also when the inbox was full.                                    *)

Claim(p) == [by |-> p, ready |-> FALSE]
Filled(queue, p) == [i \in DOMAIN queue |->
                       IF queue[i].by = p THEN [queue[i] EXCEPT !.ready = TRUE] ELSE queue[i]]
Step(p, from, to) == poster[p] = from /\ poster' = [poster EXCEPT ![p] = to]

TryPostExternal(p) ==
    /\ posts < MaxPosts /\ posts' = posts + 1
    /\ IF Len(inbox) < InboxCapacity
       THEN inbox' = Append(inbox, Claim(p)) /\ Step(p, "idle", "publish")
       ELSE UNCHANGED inbox /\ Step(p, "idle", "wake")
    /\ UNCHANGED <<mailbox, terminated, native, signal, pump>>

SubmitResume(p) ==
    /\ posts < MaxPosts /\ posts' = posts + 1
    /\ \/ /\ Len(mailbox) < MailboxCapacity /\ mailbox' = Append(mailbox, Claim(p))
          /\ Step(p, "idle", "publish") /\ UNCHANGED terminated
       \/ /\ Len(mailbox) = MailboxCapacity /\ terminated' = TRUE
          /\ UNCHANGED <<mailbox, poster>>
    /\ UNCHANGED <<inbox, native, signal, pump>>

PublishPost(p) ==
    /\ Step(p, "publish", "wake")
    /\ inbox' = Filled(inbox, p) /\ mailbox' = Filled(mailbox, p)
    /\ UNCHANGED <<posts, terminated, native, signal, pump>>

(* Mutant: only a loop that already waits is woken. *)
WakeWaitingLoop(p) ==
    /\ Step(p, "wake", "idle")
    /\ signal' = (signal \/ pump = "wait")
    /\ UNCHANGED <<queueVars, native, pump>>

Wake(p) ==
    /\ Step(p, "wake", "idle")
    /\ signal' = TRUE
    /\ UNCHANGED <<queueVars, native, pump>>

NativeEvent ==
    /\ posts < MaxPosts /\ posts' = posts + 1
    /\ native' = native + 1
    /\ UNCHANGED <<inbox, mailbox, terminated, signal, pump, poster>>
-----------------------------------------------------------------------------
(* The loop.                                                               *)

Pumping(from, to) == pump = from /\ producer = "idle" /\ pump' = to

(* Mutant: a stop request does not end the wait. *)
WaitForEvents(stopped) ==
    /\ Pumping("wait", "clear")
    /\ signal \/ native > 0
    /\ UNCHANGED <<queueVars, native, signal, poster, channelVars>>

(* The stop callback is registered for the time of the wait. *)
WaitForAnySource(stopped) ==
    /\ Pumping("wait", "clear")
    /\ signal \/ native > 0 \/ stopped
    /\ UNCHANGED <<queueVars, native, signal, poster, channelVars>>

(* Mutant: nothing is drained any more once the signal is cleared. *)
ClearAndCheck ==
    /\ Pumping("clear", IF native > 0 THEN "native" ELSE "stop")
    /\ signal' = FALSE
    /\ UNCHANGED <<queueVars, native, poster, channelVars>>

ClearObservedSignal ==
    /\ Pumping("clear", "native")
    /\ signal' = FALSE
    /\ UNCHANGED <<queueVars, native, poster, channelVars>>

(* DispatchEvent; a full channel loses the event. *)
DispatchEvent == TryPush \/ (Len(ring) = Capacity /\ UNCHANGED channelVars)

(* WM_QUIT ends the drain and is no event; the others stay in the queue.   *)
DrainNative ==
    /\ \/ native > 0 /\ Pumping("native", "native") /\ native' = native - 1 /\ DispatchEvent
       \/ native > 0 /\ Pumping("native", "inbox") /\ native' = native - 1 /\ UNCHANGED channelVars
       \/ native = 0 /\ Pumping("native", "inbox") /\ UNCHANGED <<native, channelVars>>
    /\ UNCHANGED <<queueVars, signal, poster>>

Ready(queue) == queue # << >> /\ Head(queue).ready

(* A drain ends at the first cell that is not published. *)
DrainExternal ==
    /\ IF Ready(inbox)
       THEN Pumping("inbox", "inbox") /\ inbox' = Tail(inbox) /\ DispatchEvent
       ELSE Pumping("inbox", "mailbox") /\ UNCHANGED <<inbox, channelVars>>
    /\ UNCHANGED <<mailbox, posts, terminated, native, signal, poster>>

DrainOwnerMailbox ==
    /\ IF Ready(mailbox)
       THEN Pumping("mailbox", "resume") /\ mailbox' = Tail(mailbox)
       ELSE Pumping("mailbox", "stop") /\ UNCHANGED mailbox
    /\ UNCHANGED <<inbox, posts, terminated, native, signal, poster, channelVars>>

(* A coroutine that is resumed may submit itself again. *)
Resume ==
    /\ Pumping("resume", "mailbox")
    /\ \/ UNCHANGED <<mailbox, signal, posts, terminated>>
       \/ /\ posts < MaxPosts /\ posts' = posts + 1
          /\ IF Len(mailbox) < MailboxCapacity
             THEN /\ mailbox' = Append(mailbox, [by |-> "pump", ready |-> TRUE])
                  /\ signal' = TRUE /\ UNCHANGED terminated
             ELSE terminated' = TRUE /\ UNCHANGED <<mailbox, signal>>
    /\ UNCHANGED <<inbox, native, poster, channelVars>>

CheckStopRequested(stopped) ==
    /\ Pumping("stop", IF stopped THEN "done" ELSE "wait")
    /\ UNCHANGED <<queueVars, native, signal, poster, channelVars>>

PumpStep(stopped) ==
    \/ WaitForAnySource(stopped) \/ ClearObservedSignal \/ DrainNative
    \/ DrainExternal \/ DrainOwnerMailbox \/ Resume
    \/ CheckStopRequested(stopped)
=============================================================================
