---------------------------- MODULE PictureQueue ----------------------------
(***************************************************************************)
(* How the player shows its pictures (video_player/player.h, main.cpp).    *)
(*                                                                         *)
(* The video thread writes decoded pictures into pictq, a ring of          *)
(* VIDEO_PICTURE_QUEUE_SIZE slots (queue_picture).  The main thread shows  *)
(* one picture per refresh event (video_refresh_timer) and each refresh    *)
(* sets the timer of the next one (schedule_refresh); the timer thread     *)
(* turns it into an event (sdl_refresh_timer_cb).  Only pictq_size is      *)
(* protected by pictq_mutex: the slots and the two indexes are not, and    *)
(* the main thread even reads pictq_size without it.                       *)
(***************************************************************************)
EXTENDS Integers, Sequences, FiniteSets

CONSTANTS
    VIDEO_PICTURE_QUEUE_SIZE,
    MaxPictures,    \* bound: pictures the video thread decodes
    MaxInputs,      \* bound: events other than a refresh
    MaxWaitFails,   \* bound: how often SDL_WaitEvent reports an error
    OtherEvents,    \* what else may come: keys, mouse, close button
    AllocFails,     \* whether av_frame_alloc may return NULL
    TimerFails      \* whether SDL_AddTimer or SDL_PushEvent may fail

N == VIDEO_PICTURE_QUEUE_SIZE

ASSUME PictureQueueAssumption ==
    /\ N \in Nat \ {0}
    /\ MaxPictures \in Nat
    /\ MaxInputs \in Nat
    /\ MaxWaitFails \in Nat
    /\ AllocFails \in BOOLEAN
    /\ TimerFails \in BOOLEAN

Torn == 0     \* a slot whose picture is absent or half written

SDLK_ESCAPE == 27
SDL_QUIT == 256

(* An event as the main loop sees it: its type, and the word at the place  *)
(* where a keyboard event has its keysym.sym.                              *)
Refresh == [type |-> "FF_REFRESH_EVENT", sym |-> 0]
NoEvent == [type |-> "none", sym |-> 0]

ASSUME OtherEventsAssumption ==
    Refresh \notin OtherEvents

VARIABLES
    pictq,          \* the ring: the number of the picture in each slot
    pictq_size, pictq_windex, pictq_rindex,
    opened,         \* video_st is set
    video,          \* where the video thread is; "asleep" in SDL_CondWait
    main,           \* where the main thread is
    timers,         \* timers that have not fired yet
    events,         \* the event queue of SDL
    event,          \* main's local of that name: the event handled last
    exited,         \* main returned: the process is gone
    screen,         \* the picture on the screen, 0 before the first
    \* what happened, for the bounds and the properties only:
    decoded,        \* pictures decoded so far: they are numbered from 1
    queued,         \* the pictures that queue_picture has written, in order
    shown,          \* how many of them have been shown
    lost,           \* a timer or its event was lost
    inputs,         \* the events other than a refresh so far
    waitFails,      \* how often SDL_WaitEvent has failed
    repeated        \* and how often a refresh was handled again for it

ringVars == <<pictq, pictq_size, pictq_windex, pictq_rindex, queued>>
loopVars == <<event, waitFails, repeated>>
refreshVars == <<timers, events, lost, loopVars>>
vars == <<ringVars, refreshVars, opened, video, main, exited, screen,
          decoded, shown, inputs>>

(* The operators called Mutant... are broken versions of the definition    *)
(* that follows them; PROJECT.json names the property each must violate.   *)

Next1(i) == IF i + 1 = N THEN 0 ELSE i + 1

-----------------------------------------------------------------------------

(* main() creates the window, sets the first timer and starts the threads. *)
(* Its event is not initialised: what the memory holds may look like any.  *)
Init ==
    /\ pictq = [i \in 0..N-1 |-> Torn]
    /\ pictq_size = 0
    /\ pictq_windex = 0
    /\ pictq_rindex = 0
    /\ opened = FALSE
    /\ video = "closed"
    /\ main = "wait"
    /\ timers = 1
    /\ events = <<>>
    /\ event \in OtherEvents \cup {NoEvent, Refresh}
    /\ exited = FALSE
    /\ screen = 0
    /\ decoded = 0
    /\ queued = <<>>
    /\ shown = 0
    /\ lost = FALSE
    /\ inputs = <<>>
    /\ waitFails = 0
    /\ repeated = 0

(* The mutex is held across steps by the video thread only, between its    *)
(* look at pictq_size and the wait or the unlock.                          *)
PictqMutexFree == video # "size"

-----------------------------------------------------------------------------
(* stream_component_open, in the decode thread: video_st, then the thread. *)

OpenVideo ==
    /\ ~exited
    /\ ~opened
    /\ opened' = TRUE
    /\ video' = "decode"
    /\ UNCHANGED <<ringVars, refreshVars, main, exited, screen, decoded,
                   shown, inputs>>

(* The video thread has the next picture and calls queue_picture.          *)
QueuePicture ==
    /\ ~exited
    /\ video = "decode"
    /\ decoded < MaxPictures
    /\ decoded' = decoded + 1
    /\ video' = "lock"
    /\ UNCHANGED <<ringVars, refreshVars, opened, main, exited, screen,
                   shown, inputs>>

(* SDL_LockMutex, at the top of queue_picture or inside SDL_CondWait.      *)
QueueLock ==
    /\ ~exited
    /\ video = "lock"
    /\ PictqMutexFree
    /\ video' = "size"
    /\ UNCHANGED <<ringVars, refreshVars, opened, main, exited, screen,
                   decoded, shown, inputs>>

(* The video thread waits only when the ring is over-full.                 *)
MutantQueueTestOffByOne ==
    /\ ~exited
    /\ video = "size"
    /\ IF pictq_size > N
       THEN video' = "asleep"
       ELSE video' = "write"
    /\ UNCHANGED <<ringVars, refreshVars, opened, main, exited, screen,
                   decoded, shown, inputs>>

(* while (pictq_size >= VIDEO_PICTURE_QUEUE_SIZE) SDL_CondWait; then the   *)
(* mutex is released before the slot is written.                           *)
QueueTest ==
    /\ ~exited
    /\ video = "size"
    /\ IF pictq_size >= N
       THEN video' = "asleep"
       ELSE video' = "write"
    /\ UNCHANGED <<ringVars, refreshVars, opened, main, exited, screen,
                   decoded, shown, inputs>>

(* The slot is published although it has no frame.                         *)
MutantQueueNoFrameShown ==
    /\ ~exited
    /\ video = "write"
    /\ AllocFails
    /\ pictq[pictq_windex] = Torn
    /\ pictq_windex' = Next1(pictq_windex)
    /\ video' = "publish"
    /\ UNCHANGED <<pictq, pictq_size, pictq_rindex, queued, refreshVars,
                   opened, main, exited, screen, decoded, shown, inputs>>

(* A slot used for the first time gets no frame: queue_picture returns 0   *)
(* all the same.                                                           *)
QueueNoFrame ==
    /\ ~exited
    /\ video = "write"
    /\ AllocFails
    /\ pictq[pictq_windex] = Torn
    /\ video' = "decode"
    /\ UNCHANGED <<ringVars, refreshVars, opened, main, exited, screen,
                   decoded, shown, inputs>>

(* alloc_picture and sws_scale work on the slot for a while.               *)
QueueOverwrite ==
    /\ ~exited
    /\ video = "write"
    /\ pictq' = [pictq EXCEPT ![pictq_windex] = Torn]
    /\ video' = "scale"
    /\ UNCHANGED <<pictq_size, pictq_windex, pictq_rindex, queued, refreshVars,
                   opened, main, exited, screen, decoded, shown, inputs>>

QueueWritten ==
    /\ ~exited
    /\ video = "scale"
    /\ pictq' = [pictq EXCEPT ![pictq_windex] = decoded]
    /\ queued' = Append(queued, decoded)
    /\ pictq_windex' = Next1(pictq_windex)
    /\ video' = "publish"
    /\ UNCHANGED <<pictq_size, pictq_rindex, refreshVars, opened, main,
                   exited, screen, decoded, shown, inputs>>

QueuePublish ==
    /\ ~exited
    /\ video = "publish"
    /\ PictqMutexFree
    /\ pictq_size' = pictq_size + 1
    /\ video' = "decode"
    /\ UNCHANGED <<pictq, pictq_windex, pictq_rindex, queued, refreshVars,
                   opened, main, exited, screen, decoded, shown, inputs>>

-----------------------------------------------------------------------------
(* schedule_refresh and the timer thread; a failure of SDL_AddTimer is     *)
(* only printed, one of SDL_PushEvent not even that.                       *)

ScheduleRefresh ==
    /\ \/ timers' = timers + 1 /\ UNCHANGED lost
       \/ TimerFails /\ lost' = TRUE /\ UNCHANGED timers
    /\ UNCHANGED <<events, loopVars>>

(* The callback returns its interval, so the timer fires again.            *)
MutantTimerPeriodic ==
    /\ ~exited
    /\ timers > 0
    /\ \/ events' = Append(events, Refresh) /\ UNCHANGED lost
       \/ TimerFails /\ lost' = TRUE /\ UNCHANGED events
    /\ UNCHANGED <<ringVars, timers, loopVars, opened, video, main, exited,
                   screen, decoded, shown, inputs>>

TimerCallback ==
    /\ ~exited
    /\ timers > 0
    /\ timers' = timers - 1
    /\ \/ events' = Append(events, Refresh) /\ UNCHANGED lost
       \/ TimerFails /\ lost' = TRUE /\ UNCHANGED events
    /\ UNCHANGED <<ringVars, loopVars, opened, video, main, exited, screen,
                   decoded, shown, inputs>>

OtherEvent(e) ==
    /\ ~exited
    /\ Len(inputs) < MaxInputs
    /\ events' = Append(events, e)
    /\ inputs' = Append(inputs, e)
    /\ UNCHANGED <<ringVars, timers, lost, loopVars, opened, video, main,
                   exited, screen, decoded, shown>>

-----------------------------------------------------------------------------
(* The event loop of main() and video_refresh_timer                        *)

(* The two switches: the first reads keysym.sym whatever the type is.      *)
Handle(e) ==
    IF \/ e.sym \in {SDL_QUIT, SDLK_ESCAPE}
       \/ e.type \in {"FF_QUIT_EVENT", "SDL_QUIT"}
    THEN exited' = TRUE /\ UNCHANGED main
    ELSE /\ main' = IF e = Refresh THEN "refresh" ELSE "wait"
         /\ UNCHANGED exited

MainEvent ==
    /\ ~exited
    /\ main = "wait"
    /\ events # <<>>
    /\ events' = Tail(events)
    /\ event' = Head(events)
    /\ Handle(Head(events))
    /\ UNCHANGED <<ringVars, timers, lost, waitFails, repeated, opened, video,
                   screen, decoded, shown, inputs>>

(* A failure of SDL_WaitEvent is printed, and the event that was handled   *)
(* last is handled once more.                                              *)
WaitEventFails ==
    /\ ~exited
    /\ main = "wait"
    /\ waitFails < MaxWaitFails
    /\ waitFails' = waitFails + 1
    /\ Handle(event)
    /\ repeated' = IF main' = "refresh" THEN repeated + 1 ELSE repeated
    /\ UNCHANGED <<ringVars, timers, events, lost, event, opened, video,
                   screen, decoded, shown, inputs>>

(* Nothing to show: no further refresh is scheduled.                       *)
MutantRefreshNothingStops ==
    /\ ~exited
    /\ main = "refresh"
    /\ ~opened \/ pictq_size = 0
    /\ main' = "wait"
    /\ UNCHANGED <<ringVars, refreshVars, opened, video, exited, screen,
                   decoded, shown, inputs>>

(* There is no picture, or no video stream: try again in a millisecond.    *)
RefreshNothing ==
    /\ ~exited
    /\ main = "refresh"
    /\ ~opened \/ pictq_size = 0
    /\ ScheduleRefresh
    /\ main' = "wait"
    /\ UNCHANGED <<ringVars, opened, video, exited, screen, decoded, shown,
                   inputs>>

(* The next refresh is scheduled before the picture is shown.              *)
RefreshSchedule ==
    /\ ~exited
    /\ main = "refresh"
    /\ opened
    /\ pictq_size # 0
    /\ ScheduleRefresh
    /\ main' = "display"
    /\ UNCHANGED <<ringVars, opened, video, exited, screen, decoded, shown,
                   inputs>>

VideoDisplay ==
    /\ ~exited
    /\ main = "display"
    /\ screen' = pictq[pictq_rindex]
    /\ shown' = shown + 1
    /\ pictq_rindex' = Next1(pictq_rindex)
    /\ main' = "release"
    /\ UNCHANGED <<pictq, pictq_size, pictq_windex, queued, refreshVars,
                   opened, video, exited, decoded, inputs>>

RefreshRelease ==
    /\ ~exited
    /\ main = "release"
    /\ PictqMutexFree
    /\ pictq_size' = pictq_size - 1
    /\ video' = IF video = "asleep" THEN "lock" ELSE video
    /\ main' = "wait"
    /\ UNCHANGED <<pictq, pictq_windex, pictq_rindex, queued, refreshVars,
                   opened, exited, screen, decoded, shown, inputs>>

-----------------------------------------------------------------------------

VideoThread ==
    \/ OpenVideo \/ QueuePicture \/ QueueLock \/ QueueTest \/ QueueOverwrite
    \/ QueueWritten \/ QueueNoFrame \/ QueuePublish

MainThread ==
    \/ MainEvent \/ RefreshNothing \/ RefreshSchedule \/ VideoDisplay
    \/ RefreshRelease

Next ==
    \/ VideoThread \/ MainThread \/ TimerCallback \/ WaitEventFails
    \/ \E e \in OtherEvents : OtherEvent(e)

Spec == Init /\ [][Next]_vars

(* The threads are scheduled and timers fire; the user need do nothing.    *)
FairSpec ==
    /\ Spec
    /\ WF_vars(VideoThread) /\ WF_vars(MainThread) /\ WF_vars(TimerCallback)

-----------------------------------------------------------------------------

VideoPlaces == {"closed", "decode", "lock", "size", "asleep", "write", "scale",
                "publish"}
MainPlaces == {"wait", "refresh", "display", "release"}

TypeOK ==
    /\ pictq \in [0..N-1 -> 0..MaxPictures]
    /\ pictq_size \in 0..N
    /\ pictq_windex \in 0..N-1
    /\ pictq_rindex \in 0..N-1
    /\ opened \in BOOLEAN
    /\ video \in VideoPlaces
    /\ main \in MainPlaces
    /\ timers \in Nat
    /\ events \in Seq(OtherEvents \cup {Refresh})
    /\ event \in OtherEvents \cup {Refresh, NoEvent}
    /\ exited \in BOOLEAN
    /\ screen \in 0..MaxPictures
    /\ decoded \in 0..MaxPictures
    /\ queued \in Seq(0..MaxPictures)
    /\ shown \in Nat
    /\ lost \in BOOLEAN
    /\ inputs \in Seq(OtherEvents)
    /\ waitFails \in Nat /\ repeated \in Nat

(* The slots are not locked, yet the video thread never works on the slot  *)
(* that the main thread is showing.                                        *)
SlotExclusive ==
    ~(/\ video \in {"write", "scale"}
      /\ main = "display"
      /\ pictq_windex = pictq_rindex)

(* What is on the screen is the last of the first n pictures queued, whole *)
(* and in its turn: none is shown torn, twice or out of order, and none is *)
(* overwritten before it was shown.                                        *)
ShownInOrder ==
    /\ shown <= Len(queued)
    /\ screen = IF shown = 0 THEN Torn ELSE queued[shown]
    /\ shown > 0 => screen # Torn

(* The video thread never sleeps while there is room: the main thread      *)
(* signals after every decrement, under the mutex the sleeper tested with. *)
NoSleepWithRoom == video = "asleep" => pictq_size = N

RefreshEvents == {i \in DOMAIN events : events[i] = Refresh}

(* The refreshes that are on their way: a timer that runs, an event in the *)
(* queue, a refresh that has not scheduled the next one yet.               *)
Refreshes ==
    timers + Cardinality(RefreshEvents) + (IF main = "refresh" THEN 1 ELSE 0)

(* Every refresh is followed by exactly one other, on every path and       *)
(* however the refresh events mix with those of the user: a chain neither  *)
(* forks nor ends.  There is one chain, and one more for each time that a  *)
(* failing SDL_WaitEvent had a refresh handled again; a timer or an event  *)
(* that SDL refuses ends one.                                              *)
RefreshesAddUp ==
    /\ Refreshes <= 1 + repeated
    /\ ~lost => Refreshes = 1 + repeated
    /\ repeated <= waitFails

(* Every picture that was queued comes to the screen, unless the player is *)
(* closed or a refresh was lost: the code itself never breaks the chain of *)
(* refreshes and its two threads do not block each other.  (After one loss *)
(* the picture stands still, for nothing but a refresh schedules one.)     *)
QueuedIsShown ==
    \A n \in 1..MaxPictures :
        Len(queued) >= n ~> shown >= n \/ exited \/ lost

(* The video thread gets on with every picture it has decoded.             *)
VideoThreadGoesOn ==
    video # "decode" ~> video = "decode" \/ exited \/ lost

-----------------------------------------------------------------------------
(* The inductive invariant.  The pictures that were written and not shown  *)
(* are in the slots from pictq_rindex on; pictq_size lags behind their     *)
(* number between the write and the increment, and between the display and *)
(* the decrement.                                                          *)

Ahead == Len(queued) - shown

Unpublished == IF video = "publish" THEN 1 ELSE 0
Unreleased == IF main = "release" THEN 1 ELSE 0

SlotFrom(r, i) == IF r + i >= N THEN r + i - N ELSE r + i
Slot(i) == SlotFrom(pictq_rindex, i)

Counting ==
    /\ Ahead \in 0..N
    /\ pictq_size = Ahead - Unpublished + Unreleased
    /\ pictq_size + Unpublished <= N
    /\ video \in {"write", "scale"} => pictq_size < N
    /\ main = "display" => pictq_size > 0
    /\ pictq_size >= Unreleased

Contents ==
    /\ pictq_windex = Slot(Ahead)
    /\ \A i \in 0..N-1 : i < Ahead => pictq[Slot(i)] = queued[shown + 1 + i]
    /\ \A i \in 1..Len(queued) : queued[i] # Torn

VideoState ==
    /\ ~opened => video = "closed"
    /\ video \notin {"closed", "decode"} => decoded > 0

IInv ==
    /\ TypeOK
    /\ Counting
    /\ Contents
    /\ VideoState
    /\ ShownInOrder
    /\ NoSleepWithRoom

-----------------------------------------------------------------------------
(* The ring is a first-in first-out channel from the decoder to the        *)
(* screen: its item k is the k-th picture that queue_picture gets a frame  *)
(* for, and it holds what is in the slots.                                 *)
ItemIn(s) ==
    IF \E k \in DOMAIN queued : queued[k] = pictq[s]
    THEN CHOOSE k \in DOMAIN queued : queued[k] = pictq[s]
    ELSE 0

InRing == [i \in 1..Ahead |-> ItemIn(Slot(i - 1))]
Offered == Len(queued) + (IF video = "scale" THEN 1 ELSE 0)

Channel == INSTANCE FifoChannel WITH
    Capacity <- N,
    MaxItems <- MaxPictures,
    channel <- InRing,
    offered <- Offered,
    delivered <- shown,
    closed <- FALSE,
    broken <- FALSE,
    ended <- FALSE

ImplementsChannel == Channel!Spec
=============================================================================
