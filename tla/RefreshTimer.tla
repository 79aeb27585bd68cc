---------------------------- MODULE RefreshTimer ----------------------------
(***************************************************************************)
(* When the player shows a picture (video_player/player.h): video_thread   *)
(* gives each decoded frame a time in synchronize_video, and               *)
(* video_refresh_timer shows the first picture of the ring and computes,   *)
(* from its pts and the audio clock, when it will be called for the next.  *)
(*                                                                         *)
(* Times are in the unit of AV_SYNC_THRESHOLD, 10 ms, which is also the    *)
(* least delay.  An empty ring is looked at again after 1 ms, a fraction   *)
(* of the unit: the refresh then stays due.                                *)
(*                                                                         *)
(* The sound goes with the time while it is heard, and stands still while  *)
(* there is none.  The audio clock is not the sound: it moves on by twice  *)
(* each frame, is set back by the next pts, and is read without a lock, so *)
(* that each reading differs from the sound by another amount.  ClockLead  *)
(* of AudioDecode bounds it on both sides; the bounds are constants here.  *)
(***************************************************************************)
EXTENDS Integers, Sequences

CONSTANTS
    Films,          \* sequences of [pts, repeat_pict], the decoded frames
    N,              \* VIDEO_PICTURE_QUEUE_SIZE
    Timebase,       \* one tick of the pts, av_q2d(time_base), an even number
    Second,         \* 1.0
    FirstDelay,     \* frame_last_delay at the start, 40e-3
    NoSync,         \* AV_NOSYNC_THRESHOLD
    MaxIdle,        \* how long the refresh may be late, in all
    MaxSilence,     \* how long the sound may be missing, in all
    MaxLead,        \* how far the audio clock may be ahead of the sound
    MaxLag,         \* how far it may be behind it
    MaxTime         \* bound of the model

ASSUME RefreshAssumption ==
    /\ Films \subseteq Seq([pts : Int, repeat_pict : Nat])
    /\ N \in Nat \ {0} /\ Timebase \in Nat \ {0} /\ NoSync \in Nat
    /\ Second \in Nat /\ FirstDelay \in 1..(Second - 1)
    /\ MaxIdle \in Nat /\ MaxSilence \in Nat /\ MaxTime \in Nat
    /\ MaxLead \in Nat /\ MaxLag \in Nat

VARIABLES
    film,
    now,                \* av_gettime()
    heard,              \* how much of the sound has been heard
    decoded,            \* the frames decoded
    video_clock,
    pictq,              \* the pts of the pictures in the ring
    due,                \* when the refresh timer fires
    frame_timer,
    frame_last_pts,
    frame_last_delay,
    idle,               \* how long the refresh has been due, in all
    ahead,              \* how far the picture shown is ahead of the sound
    error               \* and the clock that was read for it

videoVars == <<decoded, video_clock>>
refreshVars == <<due, frame_timer, frame_last_pts, frame_last_delay,
                 ahead, error>>
vars == <<film, now, heard, idle, videoVars, pictq, refreshVars>>

(* The operators called Mutant... are broken versions of the definition    *)
(* that follows them; PROJECT.json names the property each must violate.   *)

Init ==
    /\ film \in Films
    /\ now = 0 /\ heard = 0
    /\ decoded = 0 /\ video_clock = 0
    /\ pictq = <<>>
    /\ due = 0
    /\ frame_timer = 0 /\ frame_last_pts = 0 /\ frame_last_delay = FirstDelay
    /\ idle = 0 /\ ahead = 0 /\ error = 0

Silenced == now - heard

Tick ==
    /\ now < MaxTime
    /\ now' = now + 1
    /\ idle' = IF now < due THEN idle ELSE idle + 1
    /\ idle' <= MaxIdle
    /\ \/ heard' = heard + 1
       \/ Silenced < MaxSilence /\ heard' = heard
    /\ UNCHANGED <<film, videoVars, pictq, refreshVars>>

-----------------------------------------------------------------------------
(* video_thread                                                            *)

(* The pts of a frame, that of the video clock if the frame has none.      *)
Pts(f) == IF f.pts > 0 THEN f.pts ELSE video_clock

(* The clock stays at the time of the frame.                               *)
MutantSynchronizeVideo(f) == video_clock' = Pts(f)

(* synchronize_video: the frame's time, and the clock for the frame after  *)
(* it, one tick of the time base later and half a tick for each repeat.    *)
synchronize_video(f) ==
    video_clock' = Pts(f) + Timebase + (f.repeat_pict * Timebase) \div 2

DecodeFrame ==
    /\ decoded < Len(film)
    /\ Len(pictq) < N
    /\ decoded' = decoded + 1
    /\ synchronize_video(film[decoded + 1])
    /\ pictq' = Append(pictq, Pts(film[decoded + 1]))
    /\ UNCHANGED <<film, now, heard, idle, refreshVars>>

-----------------------------------------------------------------------------
(* video_refresh_timer                                                     *)

(* The delay after a picture, as the film has it: the last one if its pts  *)
(* does not go on from that of the picture before.                         *)
PtsDelay(pts) ==
    LET d == pts - frame_last_pts IN
    IF d <= 0 \/ d >= Second THEN frame_last_delay ELSE d

Larger(m, n) == IF m > n THEN m ELSE n
SyncThreshold(delay) == Larger(delay, 1)

(* An early picture is waited for at once.                                 *)
MutantWaitsAtOnce(delay, diff) ==
    IF diff >= NoSync \/ diff <= -NoSync THEN delay
    ELSE IF diff <= -SyncThreshold(delay) THEN 0
    ELSE IF diff >= SyncThreshold(delay) THEN delay + diff
    ELSE delay

(* Early and late are confused.                                            *)
MutantEarlyIsLate(delay, diff) ==
    IF diff >= NoSync \/ diff <= -NoSync THEN delay
    ELSE IF diff <= -SyncThreshold(delay) THEN 2 * delay
    ELSE IF diff >= SyncThreshold(delay) THEN 0
    ELSE delay

(* The delay that brings picture and sound together: none for a picture    *)
(* that is late by the threshold, twice as long for one as early.          *)
SyncedDelay(delay, diff) ==
    IF diff >= NoSync \/ diff <= -NoSync THEN delay
    ELSE IF diff <= -SyncThreshold(delay) THEN 0
    ELSE IF diff >= SyncThreshold(delay) THEN 2 * delay
    ELSE delay

(* What get_audio_clock may return.                                        *)
AudioClocks == (heard - MaxLag)..(heard + MaxLead)

VideoRefreshTimer ==
    /\ now >= due
    /\ pictq # <<>>
    /\ \E clock \in AudioClocks :
         LET pts == Head(pictq)
             delay == PtsDelay(pts)
         IN  /\ frame_last_delay' = delay
             /\ frame_last_pts' = pts
             /\ frame_timer' = frame_timer + SyncedDelay(delay, pts - clock)
             /\ due' = now + Larger(frame_timer' - now, 1)
             /\ ahead' = pts - heard /\ error' = clock - heard
    /\ pictq' = Tail(pictq)
    /\ UNCHANGED <<film, now, heard, idle, videoVars>>

-----------------------------------------------------------------------------

Next == Tick \/ DecodeFrame \/ VideoRefreshTimer

Spec == Init /\ [][Next]_vars

-----------------------------------------------------------------------------

TypeOK ==
    /\ film \in Films
    /\ now \in Nat /\ heard \in 0..now
    /\ decoded \in 0..Len(film)
    /\ video_clock \in Int
    /\ pictq \in Seq(Int) /\ Len(pictq) <= N
    /\ due \in Nat
    /\ frame_timer \in Nat
    /\ frame_last_pts \in Int
    /\ frame_last_delay \in 1..(Second - 1)
    /\ idle \in Nat /\ ahead \in Int
    /\ error \in (-MaxLag)..MaxLead

(* The player never sleeps longer than twice the last delay of the film,   *)
(* whatever the pts are and however the clocks differ, although            *)
(* frame_timer only ever adds up delays: it is never ahead of the timer.   *)
(* And after a picture that is late by the threshold, as the clock has it, *)
(* the next one is shown as soon as the timer can.                         *)
SleepBounded ==
    /\ TypeOK
    /\ frame_timer <= due
    /\ due <= now + 2 * frame_last_delay
    /\ LET diff == ahead - error IN
       diff <= -SyncThreshold(frame_last_delay) /\ diff > -NoSync =>
         due <= now + 1

Intervals ==
    {film[i].pts - film[i - 1].pts : i \in 2..Len(film)} \cup {FirstDelay}

(* The film begins at 0, and its intervals are longer than the least       *)
(* delay.                                                                  *)
Regular ==
    /\ film # <<>> => film[1].pts = 0
    /\ \A d \in Intervals : 2 <= d /\ d < Second

(* The picture may be ahead of the sound by the clock's lead and by half   *)
(* of what a reading may differ from the one before.                       *)
Slack == MaxLead + (MaxLead + MaxLag) \div 2

(* The differences that InSync allows are all of those that are corrected. *)
Corrected ==
    \A d \in Intervals : 2 * d + idle + Silenced + Slack + MaxLag < NoSync

(* In a regular film a picture is behind the sound by no more than an      *)
(* interval, the time that the refresh was late, in all, and the clock's   *)
(* lag; and ahead of it by no more than two intervals, that time, the time *)
(* without sound and the slack, although every picture is corrected by     *)
(* another reading of the clock: frame_timer falls behind the time while   *)
(* pictures that seem late are caught up, and the pictures after them,     *)
(* which are due at once, make up for it before they are too early.        *)
InSync ==
    Regular /\ Corrected =>
      \E d \in Intervals :
         /\ -d - idle - MaxLag <= ahead
         /\ ahead <= 2 * d + idle + Silenced + Slack

(* The frames with a pts are as far apart as those without need, and no    *)
(* picture is repeated more than twice.                                    *)
Spaced ==
    /\ \A i \in DOMAIN film : film[i].repeat_pict <= 2
    /\ \A i, j \in DOMAIN film :
          i < j /\ film[j].pts > 0 /\ (film[i].pts > 0 \/ i = 1) =>
             film[j].pts >= Larger(film[i].pts, 0) + 2 * (j - i) * Timebase

(* The times of the pictures increase, those of frames without a pts       *)
(* included, which are between those of their neighbours.                  *)
TimesIncrease ==
    Spaced => \A i \in 2..Len(pictq) : pictq[i - 1] < pictq[i]
=============================================================================
