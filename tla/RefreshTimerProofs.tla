------------------------- MODULE RefreshTimerProofs -------------------------
(***************************************************************************)
(* SleepBounded, TimesIncrease and InSync of RefreshTimer, for all films,  *)
(* clocks and constants.                                                   *)
(*                                                                         *)
(* Each action keeps the types; VideoRefreshTimer is called when it is due *)
(* at the earliest, so that frame_timer, which is not after the time it    *)
(* was due, grows to twice the delay after now at most.  TimesInv keeps    *)
(* video_clock between the pictures of the ring and the next frame.        *)
(* SyncInv relates by how much the picture shown is ahead of the sound to  *)
(* by how much frame_timer is behind the time.                             *)
(***************************************************************************)
EXTENDS RefreshTimer, TLAPS

(* The pts of the frames and the intervals are numbers.                    *)
LEMMA FilmTypes ==
    ASSUME TypeOK
    PROVE  /\ \A i \in 1..Len(film) : film[i].pts \in Int
           /\ Len(film) \in Nat /\ DOMAIN film = 1..Len(film)
           /\ Intervals \subseteq Int
<1> DEFINE Frame == [pts : Int, repeat_pict : Nat]
<1>1. film \in Seq(Frame)
  BY RefreshAssumption DEF TypeOK
<1>2. \A i \in 1..Len(film) : film[i].pts \in Int
  <2> TAKE i \in 1..Len(film)
  <2> HIDE DEF Frame
  <2>1. film[i] \in Frame
    BY <1>1
  <2> QED BY <2>1 DEF Frame
<1>3. Len(film) \in Nat /\ DOMAIN film = 1..Len(film)
  <2> HIDE DEF Frame
  <2> QED BY <1>1
<1>4. Intervals \subseteq Int
  BY <1>2, <1>3, RefreshAssumption DEF Intervals
<1> QED BY <1>2, <1>3, <1>4

(* The delay taken from the film is one that the next call may fall back   *)
(* on: at least one unit and less than a second.                           *)
LEMMA DelayType ==
    ASSUME TypeOK, NEW pts \in Int
    PROVE  PtsDelay(pts) \in 1..(Second - 1)
  BY RefreshAssumption DEF TypeOK, PtsDelay

(* The correction at most doubles a delay, and takes all of it from a      *)
(* picture that is late.                                                   *)
LEMMA SyncedDelayBounds ==
    ASSUME NEW delay \in Nat, NEW diff \in Int
    PROVE  /\ SyncedDelay(delay, diff) \in 0..(2 * delay)
           /\ diff <= -SyncThreshold(delay) /\ diff > -NoSync
                => SyncedDelay(delay, diff) = 0
  BY RefreshAssumption DEF SyncedDelay, SyncThreshold, Larger

(* The time of a frame is a number.                                        *)
LEMMA FrameTimes ==
    ASSUME TypeOK, NEW i \in 1..Len(film)
    PROVE  /\ Pts(film[i]) \in Int
           /\ Pts(film[i]) + Timebase
                + (film[i].repeat_pict * Timebase) \div 2 \in Int
<1>1. film[i] \in [pts : Int, repeat_pict : Nat]
  <2> DEFINE Frame == [pts : Int, repeat_pict : Nat]
  <2>1. film \in Seq(Frame)
    BY RefreshAssumption DEF TypeOK
  <2> HIDE DEF Frame
  <2>2. film[i] \in Frame
    BY <2>1
  <2> QED BY <2>2 DEF Frame
<1>2. Pts(film[i]) \in Int
  BY <1>1 DEF TypeOK, Pts
<1>3. film[i].repeat_pict * Timebase \in Nat
  BY <1>1, RefreshAssumption
<1> HIDE DEF Pts
<1> QED BY <1>2, <1>3, RefreshAssumption

LEMMA TickStep == ASSUME SleepBounded, Tick PROVE SleepBounded'
<1> USE DEF SleepBounded, TypeOK, Tick, videoVars, refreshVars, Silenced
<1>1. now' = now + 1 /\ heard' \in 0..now'
  BY RefreshAssumption
<1>2. idle' \in Nat
  BY RefreshAssumption
<1>3. /\ film' = film /\ decoded' = decoded /\ video_clock' = video_clock
      /\ pictq' = pictq /\ due' = due /\ frame_timer' = frame_timer
      /\ frame_last_pts' = frame_last_pts /\ ahead' = ahead
      /\ frame_last_delay' = frame_last_delay /\ error' = error
  OBVIOUS
<1>4. TypeOK'
  BY <1>1, <1>2, <1>3
<1> QED BY <1>1, <1>3, <1>4, RefreshAssumption DEF SyncThreshold, Larger

LEMMA DecodeFrameStep == ASSUME SleepBounded, DecodeFrame PROVE SleepBounded'
<1>1. decoded + 1 \in 1..Len(film)
  BY RefreshAssumption DEF SleepBounded, TypeOK, DecodeFrame
<1>2. /\ Pts(film[decoded + 1]) \in Int
      /\ video_clock' \in Int
  BY <1>1, FrameTimes DEF SleepBounded, DecodeFrame, synchronize_video
<1>3. pictq' \in Seq(Int) /\ Len(pictq') <= N
  BY <1>2, RefreshAssumption DEF SleepBounded, TypeOK, DecodeFrame
<1>4. /\ film' = film /\ now' = now /\ heard' = heard /\ idle' = idle
      /\ due' = due /\ frame_timer' = frame_timer /\ ahead' = ahead
      /\ frame_last_pts' = frame_last_pts /\ error' = error
      /\ frame_last_delay' = frame_last_delay
      /\ decoded' \in 0..Len(film)
  BY <1>1 DEF DecodeFrame, refreshVars
<1>5. TypeOK'
  BY <1>2, <1>3, <1>4 DEF SleepBounded, TypeOK
<1> QED BY <1>4, <1>5 DEF SleepBounded, SyncThreshold, Larger

LEMMA VideoRefreshTimerStep ==
    ASSUME SleepBounded, VideoRefreshTimer PROVE SleepBounded'
<1>0. PICK clock \in AudioClocks :
        LET pts == Head(pictq)
            delay == PtsDelay(pts)
        IN  /\ frame_last_delay' = delay
            /\ frame_last_pts' = pts
            /\ frame_timer' = frame_timer + SyncedDelay(delay, pts - clock)
            /\ due' = now + Larger(frame_timer' - now, 1)
            /\ ahead' = pts - heard /\ error' = clock - heard
  BY DEF VideoRefreshTimer
<1> DEFINE pts == Head(pictq)
           delay == PtsDelay(pts)
           synced == SyncedDelay(delay, pts - clock)
<1>1. /\ pts \in Int /\ pictq' \in Seq(Int) /\ Len(pictq') <= N
  BY RefreshAssumption DEF SleepBounded, TypeOK, VideoRefreshTimer
<1>2. delay \in 1..(Second - 1)
  BY <1>1, DelayType DEF SleepBounded
<1>3. /\ synced \in 0..(2 * delay)
      /\ pts - clock <= -SyncThreshold(delay) /\ pts - clock > -NoSync
           => synced = 0
  <2>1. delay \in Nat /\ pts - clock \in Int
    BY <1>1, <1>2, RefreshAssumption DEF SleepBounded, TypeOK, AudioClocks
  <2> HIDE DEF delay, pts
  <2> QED BY <2>1, SyncedDelayBounds
<1>4. /\ frame_last_delay' = delay /\ frame_last_pts' = pts
      /\ frame_timer' = frame_timer + synced
      /\ due' = now + Larger(frame_timer' - now, 1)
      /\ ahead' = pts - heard /\ due <= now
      /\ error' = clock - heard /\ error' \in (-MaxLag)..MaxLead
      /\ ahead' - error' = pts - clock
      /\ film' = film /\ now' = now /\ heard' = heard /\ idle' = idle
      /\ decoded' = decoded /\ video_clock' = video_clock
  <2>1. clock \in Int /\ heard \in Int /\ pts \in Int
        /\ clock - heard \in (-MaxLag)..MaxLead
    BY <1>1, RefreshAssumption DEF SleepBounded, TypeOK, AudioClocks
  <2> HIDE DEF pts
  <2>2. (pts - heard) - (clock - heard) = pts - clock
    BY <2>1
  <2> QED BY <1>0, <2>1, <2>2
          DEF pts, VideoRefreshTimer, videoVars, SleepBounded, TypeOK
<1> HIDE DEF synced, delay, pts
<1>5. /\ frame_timer \in Nat /\ now \in Nat /\ frame_timer <= now
  BY <1>4 DEF SleepBounded, TypeOK
<1>6. /\ frame_timer' \in Nat /\ frame_timer' <= now + synced
  BY <1>2, <1>3, <1>4, <1>5
<1>7. /\ due' \in Nat /\ frame_timer' <= due'
      /\ due' <= now + 2 * delay
      /\ synced = 0 => due' <= now + 1
  BY <1>2, <1>3, <1>4, <1>5, <1>6 DEF Larger
<1>8. TypeOK'
  BY <1>1, <1>2, <1>4, <1>6, <1>7 DEF SleepBounded, TypeOK
<1> QED BY <1>3, <1>4, <1>7, <1>8 DEF SleepBounded

(* The player never sleeps longer than twice the last delay, nor longer    *)
(* than it must after a late picture.                                      *)
THEOREM SleepCorrect == Spec => []SleepBounded
<1>1. Init => SleepBounded
  BY RefreshAssumption
     DEF Init, SleepBounded, TypeOK, SyncThreshold, Larger
<1>2. SleepBounded /\ [Next]_vars => SleepBounded'
  <2> SUFFICES ASSUME SleepBounded, [Next]_vars PROVE SleepBounded'
    OBVIOUS
  <2>1. CASE Tick
    BY <2>1, TickStep
  <2>2. CASE DecodeFrame
    BY <2>2, DecodeFrameStep
  <2>3. CASE VideoRefreshTimer
    BY <2>3, VideoRefreshTimerStep
  <2>4. CASE UNCHANGED vars
    BY <2>4 DEF SleepBounded, TypeOK, vars, videoVars, refreshVars,
                SyncThreshold, Larger
  <2> QED BY <2>1, <2>2, <2>3, <2>4 DEF Next
<1> QED BY <1>1, <1>2, PTL DEF Spec
-----------------------------------------------------------------------------
(* TimesIncrease.  The video clock is past every picture of the ring; and  *)
(* it has not run past a frame with a pts that is yet to be decoded, even  *)
(* if each of the frames before that takes as long as it may.              *)
ClockBetween ==
    Spaced =>
      /\ \A i \in 1..Len(pictq) : pictq[i] < video_clock
      /\ decoded >= 1 =>
           \A j \in (decoded + 1)..Len(film) :
              film[j].pts > 0 =>
                 video_clock + 2 * (j - decoded - 1) * Timebase <= film[j].pts
      /\ decoded = 0 => video_clock = 0 /\ pictq = <<>>

TimesInv == TypeOK /\ ClockBetween /\ TimesIncrease

(* The clock goes on by two ticks at most.                                 *)
LEMMA ClockStep ==
    ASSUME TypeOK, Spaced, NEW i \in 1..Len(film), synchronize_video(film[i])
    PROVE  /\ Pts(film[i]) \in Int /\ film[i].pts \in Int
           /\ Pts(film[i]) < video_clock'
           /\ video_clock' <= Pts(film[i]) + 2 * Timebase
<1> DEFINE r == film[i].repeat_pict
<1>1. film[i] \in [pts : Int, repeat_pict : Nat]
  <2> DEFINE Frame == [pts : Int, repeat_pict : Nat]
  <2>1. film \in Seq(Frame)
    BY RefreshAssumption DEF TypeOK
  <2> HIDE DEF Frame
  <2>2. film[i] \in Frame
    BY <2>1
  <2> QED BY <2>2 DEF Frame
<1>2. r \in {0, 1, 2} /\ film[i].pts \in Int
  <2>1. i \in DOMAIN film
    BY RefreshAssumption DEF TypeOK
  <2> QED BY <1>1, <2>1 DEF Spaced
<1>3. (r * Timebase) \div 2 \in 0..Timebase
  BY <1>2, RefreshAssumption
<1>4. Pts(film[i]) \in Int
  BY <1>1, FrameTimes
<1>5. video_clock' = Pts(film[i]) + Timebase + (r * Timebase) \div 2
  BY DEF synchronize_video
<1> DEFINE more == (r * Timebase) \div 2
<1>6. more \in Int /\ 0 <= more /\ more <= Timebase
      /\ video_clock' = Pts(film[i]) + Timebase + more
  BY <1>3, <1>5, RefreshAssumption
<1> HIDE DEF r, more, Pts
<1> QED BY <1>2, <1>4, <1>6, RefreshAssumption

LEMMA TimesDecodeStep ==
    ASSUME TimesInv, TypeOK', DecodeFrame
    PROVE  ClockBetween' /\ TimesIncrease'
<1> SUFFICES ASSUME Spaced'
             PROVE  ClockBetween' /\ TimesIncrease'
  BY DEF ClockBetween, TimesIncrease
<1> DEFINE i == decoded + 1
           time == Pts(film[i])
           late(j) == 2 * (j - i - 1) * Timebase
<1>1. /\ film' = film /\ decoded' = i /\ i \in 1..Len(film)
      /\ pictq' = Append(pictq, time) /\ synchronize_video(film[i])
      /\ pictq \in Seq(Int) /\ video_clock \in Int /\ video_clock' \in Int
      /\ DOMAIN film = 1..Len(film) /\ Len(film) \in Nat
  <2>1. Len(film) \in Nat /\ DOMAIN film = 1..Len(film)
    BY FilmTypes DEF TimesInv
  <2>2. decoded \in 0..Len(film) /\ decoded < Len(film)
    BY DEF DecodeFrame, TimesInv, TypeOK
  <2>3. video_clock \in Int /\ pictq \in Seq(Int) /\ video_clock' \in Int
    BY DEF TimesInv, TypeOK
  <2>4. i \in 1..Len(film)
    BY <2>1, <2>2
  <2> QED BY <2>1, <2>3, <2>4 DEF DecodeFrame
<1>2. Spaced
  BY <1>1 DEF Spaced
<1>3. /\ time \in Int /\ film[i].pts \in Int
      /\ time < video_clock' /\ video_clock' <= time + 2 * Timebase
  BY <1>1, <1>2, ClockStep DEF TimesInv
<1>4. time = IF film[i].pts > 0 THEN film[i].pts ELSE video_clock
  BY DEF Pts
<1>5. \A j \in 1..Len(film) : film[j].pts \in Int
  <2> TAKE j \in 1..Len(film)
  <2> DEFINE Frame == [pts : Int, repeat_pict : Nat]
  <2>1. film \in Seq(Frame)
    BY RefreshAssumption DEF TimesInv, TypeOK
  <2> HIDE DEF Frame
  <2>2. film[j] \in Frame
    BY <2>1
  <2> QED BY <2>2 DEF Frame
<1> HIDE DEF time, i
<1>6. \A k \in 1..Len(pictq) : pictq[k] < time
  <2>1. CASE decoded = 0
    BY <1>2, <2>1 DEF TimesInv, ClockBetween
  <2>2. CASE decoded # 0
    <3>1. decoded >= 1 /\ i = decoded + 1 /\ i \in (decoded + 1)..Len(film)
      BY <1>1, <2>2, RefreshAssumption DEF i, TimesInv, TypeOK
    <3>2. film[i].pts > 0 => video_clock <= film[i].pts
      <4>1. film[i].pts > 0 =>
              video_clock + 2 * (i - decoded - 1) * Timebase <= film[i].pts
        BY <1>2, <3>1 DEF TimesInv, ClockBetween
      <4>2. decoded \in Nat /\ i - decoded - 1 = 0
        BY <3>1, RefreshAssumption DEF TimesInv, TypeOK
      <4>3. 2 * (i - decoded - 1) * Timebase = 0
        BY <4>2, RefreshAssumption
      <4> QED BY <1>1, <1>3, <4>1, <4>3
    <3>3. \A k \in 1..Len(pictq) : pictq[k] < video_clock /\ pictq[k] \in Int
      BY <1>1, <1>2 DEF TimesInv, ClockBetween
    <3> QED BY <1>1, <1>3, <1>4, <3>2, <3>3
  <2> QED BY <2>1, <2>2
<1>7. \A k \in 1..Len(pictq') : pictq'[k] < video_clock'
  BY <1>1, <1>3, <1>6
<1>8. TimesIncrease'
  <2> DEFINE n == Len(pictq)
  <2>1. /\ n \in Nat /\ Len(pictq') = n + 1 /\ pictq'[n + 1] = time
        /\ \A k \in 1..n : pictq'[k] = pictq[k]
    BY <1>1, <1>3
  <2>2. \A k \in 2..n : pictq[k - 1] < pictq[k]
    BY <1>2 DEF TimesInv, TimesIncrease
  <2>3. ASSUME NEW k \in 2..Len(pictq') PROVE pictq'[k - 1] < pictq'[k]
    <3> HIDE DEF n
    <3>1. CASE k = n + 1
      <4>1. n \in 1..n /\ k - 1 = n
        BY <2>1, <2>3, <3>1
      <4> QED BY <1>6, <2>1, <3>1, <4>1 DEF n
    <3>2. CASE k # n + 1
      <4>1. k \in 2..n /\ k \in 1..n /\ k - 1 \in 1..n
        BY <2>1, <2>3, <3>2
      <4> QED BY <2>1, <2>2, <4>1
    <3> QED BY <3>1, <3>2
  <2> QED BY <2>3 DEF TimesIncrease
<1>9. ASSUME NEW j \in (i + 1)..Len(film), film[j].pts > 0
      PROVE  video_clock' + late(j) <= film[j].pts
  <2>0. decoded \in Nat /\ i = decoded + 1
    BY <1>1, RefreshAssumption DEF i, TimesInv, TypeOK
  <2> DEFINE room == 2 * (j - i) * Timebase
  <2>1. late(j) = room - 2 * Timebase /\ room \in Int /\ late(j) \in Int
    BY <1>1, RefreshAssumption
  <2>2. film[j].pts \in Int
    BY <1>1, <1>5
  <2>3. time + room <= film[j].pts
    <3>1. CASE film[i].pts > 0 \/ i = 1
      <4>1. film[j].pts >= Larger(film[i].pts, 0) + room
        <5>1. i \in DOMAIN film /\ j \in DOMAIN film /\ i < j
          BY <1>1
        <5> QED BY <1>2, <1>9, <3>1, <5>1 DEF Spaced
      <4>2. i = 1 => video_clock = 0
        <5>1. i = 1 => decoded = 0
          BY <2>0
        <5> QED BY <1>2, <5>1 DEF TimesInv, ClockBetween
      <4>3. time <= Larger(film[i].pts, 0)
        BY <1>1, <1>3, <1>4, <3>1, <4>2 DEF Larger
      <4>4. Larger(film[i].pts, 0) \in Int
        BY <1>3 DEF Larger
      <4> DEFINE first == Larger(film[i].pts, 0)
                 last == film[j].pts
      <4>5. /\ first \in Int /\ last \in Int /\ room \in Int /\ time \in Int
            /\ last >= first + room /\ time <= first
        BY <1>3, <2>1, <2>2, <4>1, <4>3, <4>4
      <4> HIDE DEF room, first, last
      <4>6. time + room <= last
        BY <4>5
      <4> QED BY <4>6 DEF last
    <3>2. CASE ~(film[i].pts > 0 \/ i = 1)
      <4>1. decoded >= 1 /\ j \in (decoded + 1)..Len(film)
            /\ j - decoded - 1 = j - i
        BY <1>1, <2>0, <3>2
      <4>2. video_clock + 2 * (j - decoded - 1) * Timebase <= film[j].pts
        BY <1>2, <1>9, <4>1 DEF TimesInv, ClockBetween
      <4>3. time = video_clock
        BY <1>4, <3>2
      <4> QED BY <4>1, <4>2, <4>3
    <3> QED BY <3>1, <3>2
  <2> HIDE DEF room, late
  <2> QED BY <1>1, <1>3, <2>1, <2>2, <2>3, RefreshAssumption
<1>10. ClockBetween'
  BY <1>1, <1>7, <1>9 DEF ClockBetween
<1> QED BY <1>8, <1>10

(* The times of the pictures increase in every film whose frames with a    *)
(* pts leave room for those without.                                       *)
THEOREM TimesCorrect == Spec => []TimesIncrease
<1>1. Init => TimesInv
  BY RefreshAssumption
     DEF Init, TimesInv, TypeOK, ClockBetween, TimesIncrease
<1>2. SleepBounded' /\ TimesInv /\ [Next]_vars => TimesInv'
  <2> SUFFICES ASSUME SleepBounded', TimesInv, [Next]_vars PROVE TimesInv'
    OBVIOUS
  <2>1. TypeOK'
    BY DEF SleepBounded
  <2>2. CASE DecodeFrame
    BY <2>1, <2>2, TimesDecodeStep DEF TimesInv
  <2>3. CASE VideoRefreshTimer
    <3>1. /\ film' = film /\ decoded' = decoded /\ video_clock' = video_clock
          /\ pictq # <<>> /\ pictq' = Tail(pictq) /\ pictq \in Seq(Int)
      BY <2>3 DEF VideoRefreshTimer, videoVars, TimesInv, TypeOK
    <3> QED BY <2>1, <3>1 DEF TimesInv, ClockBetween, TimesIncrease, Spaced
  <2>4. CASE Tick \/ UNCHANGED vars
    <3>1. /\ film' = film /\ decoded' = decoded /\ video_clock' = video_clock
          /\ pictq' = pictq
      BY <2>4 DEF Tick, vars, videoVars
    <3> QED BY <2>1, <3>1 DEF TimesInv, ClockBetween, TimesIncrease, Spaced
  <2> QED BY <2>2, <2>3, <2>4 DEF Next
<1>3. TimesInv => TimesIncrease
  BY DEF TimesInv
<1> QED BY <1>1, <1>2, <1>3, SleepCorrect, PTL DEF Spec

-----------------------------------------------------------------------------
(* InSync.  In a regular film the pictures come with the pts of the film,  *)
(* and the ring holds those after the ones shown.                          *)
Shown == decoded - Len(pictq)

Ring ==
    /\ Shown \in Nat
    /\ decoded = 0 => video_clock = 0
    /\ decoded > 0 => film[decoded].pts >= 0
    /\ \A i \in 1..Len(pictq) : pictq[i] = film[Shown + i].pts
    /\ frame_last_pts = IF Shown = 0 THEN 0 ELSE film[Shown].pts
    /\ Shown = 0 =>
         /\ frame_last_delay = FirstDelay
         /\ due = 0 /\ frame_timer = 0 /\ idle = now /\ ahead = 0

(* If no more time is lost, the next picture is shown at Wait.  The last   *)
(* one will then be ahead of the sound by Drift, and frame_timer behind    *)
(* the time by Behind.                                                     *)
Wait == Larger(now, due)
Drift == frame_last_pts - Wait + Silenced
Behind == Wait - frame_timer

(* What InSync says, for an interval d not shorter than the last, and what *)
(* it takes: the sum of the two does not fall by more than that interval;  *)
(* and frame_timer is behind by twice the time lost at most, less what the *)
(* last picture is late, or less twice what it is early.                   *)
Within(d) ==
    /\ frame_last_delay <= d
    /\ -d - idle - MaxLag <= ahead
    /\ ahead <= 2 * d + idle + Silenced + Slack
    /\ Behind >= 0
    /\ -d - idle - 1 - MaxLag <= Drift
    /\ -d - MaxLag <= Drift + Behind
    /\ Behind <= 2 * idle + Drift + d + MaxLag
    /\ Behind + 2 * Drift <= 2 * idle + 2 * Silenced + 2 * d - 4
                             + 3 * MaxLead + MaxLag

SyncInv ==
    Regular =>
      /\ Ring
      /\ Corrected => Shown = 0 \/ \E d \in Intervals : Within(d)

LEMMA SlackType ==
    Slack \in Nat /\ 2 * Slack >= 3 * MaxLead + MaxLag - 1
  BY RefreshAssumption DEF Slack

(* A step of the clocks.                                                   *)
LEMMA SyncTickStep ==
    ASSUME SleepBounded, SyncInv, Tick PROVE SyncInv'
<1> SUFFICES ASSUME Regular' PROVE SyncInv'
  BY DEF SyncInv
<1>1. /\ film' = film /\ decoded' = decoded /\ video_clock' = video_clock
      /\ pictq' = pictq /\ due' = due /\ frame_timer' = frame_timer
      /\ frame_last_pts' = frame_last_pts /\ ahead' = ahead
      /\ frame_last_delay' = frame_last_delay
      /\ now' = now + 1 /\ heard' \in {heard, heard + 1}
      /\ idle' = IF now < due THEN idle ELSE idle + 1
  BY DEF Tick, videoVars, refreshVars
<1>2. /\ now \in Nat /\ heard \in Int /\ due \in Nat /\ idle \in Nat
      /\ frame_timer \in Nat /\ frame_last_pts \in Int /\ ahead \in Int
      /\ frame_last_delay \in Int
  BY DEF SleepBounded, TypeOK
<1>3. Regular /\ Intervals' = Intervals /\ Shown' = Shown
  BY <1>1 DEF Regular, Intervals, Shown
<1>4. Ring'
  <2>1. Ring
    BY <1>3 DEF SyncInv
  <2>2. Shown = 0 => idle' = now'
    BY <1>1, <1>2, <2>1 DEF Ring
  <2> QED BY <1>1, <1>3, <2>1, <2>2 DEF Ring
<1> DEFINE lost == Silenced
           lostThen == Silenced'
<1>5. /\ idle' = idle \/ idle' = idle + 1
      /\ lost \in Int /\ lostThen \in Int
      /\ lostThen = lost \/ lostThen = lost + 1
  <2>1. lost = now - heard /\ lostThen = now' - heard'
    BY DEF Silenced
  <2>2. heard' = heard \/ heard' = heard + 1
    BY <1>1
  <2>3. idle' = idle \/ idle' = idle + 1
    BY <1>1
  <2>4. now' = now + 1
    BY <1>1
  <2> HIDE DEF lost, lostThen
  <2> QED BY <1>2, <2>1, <2>2, <2>3, <2>4
<1>6. ASSUME Corrected', Shown # 0
      PROVE  \E d \in Intervals : Within(d)'
  <2>1. Corrected
    <3> SUFFICES ASSUME NEW d \in Intervals
                 PROVE  2 * d + idle + lost + Slack + MaxLag < NoSync
      BY DEF Corrected
    <3>1. 2 * d + idle' + lostThen + Slack + MaxLag < NoSync
      BY <1>3, <1>6 DEF Corrected
    <3>2. d \in Int
      BY FilmTypes DEF SleepBounded
    <3>3. NoSync \in Int /\ Slack \in Int /\ MaxLag \in Int
      BY SlackType, RefreshAssumption
    <3> HIDE DEF lost, lostThen
    <3> QED BY <1>2, <1>5, <3>1, <3>2, <3>3
  <2>2. PICK d \in Intervals : Within(d)
    BY <1>3, <1>6, <2>1 DEF SyncInv
  <2>3. d \in Int
    BY FilmTypes DEF SleepBounded
  <2> DEFINE wait == Wait
             waitThen == Wait'
  <2>4. /\ wait \in Int /\ waitThen \in Int
        /\ \/ waitThen = wait
           \/ waitThen = wait + 1 /\ idle' = idle + 1
    <3>1. CASE now < due
      <4>1. Wait = due /\ Wait' = due
        BY <1>1, <1>2, <3>1 DEF Wait, Larger
      <4> QED BY <1>2, <4>1
    <3>2. CASE ~(now < due)
      <4>1. Wait = now /\ Wait' = now + 1
        BY <1>1, <1>2, <3>2 DEF Wait, Larger
      <4> QED BY <1>1, <1>2, <3>2, <4>1
    <3> QED BY <3>1, <3>2
  <2>5. /\ frame_last_delay <= d
        /\ -d - idle - MaxLag <= ahead
        /\ ahead <= 2 * d + idle + lost + Slack
        /\ wait - frame_timer >= 0
        /\ -d - idle - 1 - MaxLag <= frame_last_pts - wait + lost
        /\ -d - MaxLag
             <= (frame_last_pts - wait + lost) + (wait - frame_timer)
        /\ wait - frame_timer
             <= 2 * idle + (frame_last_pts - wait + lost) + d + MaxLag
        /\ (wait - frame_timer) + 2 * (frame_last_pts - wait + lost)
             <= 2 * idle + 2 * lost + 2 * d - 4 + 3 * MaxLead + MaxLag
    BY <2>2 DEF Within, Behind, Drift
  <2>6. /\ Behind' = waitThen - frame_timer
        /\ Drift' = frame_last_pts - waitThen + lostThen
    BY <1>1 DEF Behind, Drift
  <2>7. /\ frame_last_delay' <= d
        /\ -d - idle' - MaxLag <= ahead'
        /\ ahead' <= 2 * d + idle' + lostThen + Slack
        /\ waitThen - frame_timer >= 0
        /\ -d - idle' - 1 - MaxLag <= frame_last_pts - waitThen + lostThen
        /\ -d - MaxLag <= (frame_last_pts - waitThen + lostThen)
                            + (waitThen - frame_timer)
        /\ waitThen - frame_timer
             <= 2 * idle' + (frame_last_pts - waitThen + lostThen) + d
                + MaxLag
        /\ (waitThen - frame_timer)
             + 2 * (frame_last_pts - waitThen + lostThen)
             <= 2 * idle' + 2 * lostThen + 2 * d - 4 + 3 * MaxLead + MaxLag
    <3> HIDE DEF lost, lostThen, wait, waitThen
    <3> QED BY <1>1, <1>2, <1>5, <2>3, <2>4, <2>5, SlackType,
               RefreshAssumption
  <2>8. Within(d)'
    BY <2>6, <2>7 DEF Within
  <2> QED BY <2>8
<1> QED BY <1>3, <1>4, <1>6 DEF SyncInv

(* The frame's time is its pts.                                            *)
LEMMA SyncDecodeStep ==
    ASSUME SleepBounded, SyncInv, DecodeFrame PROVE SyncInv'
<1> SUFFICES ASSUME Regular' PROVE SyncInv'
  BY DEF SyncInv
<1> DEFINE i == decoded + 1
           n == Len(pictq)
<1>1. /\ film' = film /\ decoded' = i /\ pictq' = Append(pictq, Pts(film[i]))
      /\ now' = now /\ heard' = heard /\ idle' = idle
      /\ due' = due /\ frame_timer' = frame_timer
      /\ frame_last_pts' = frame_last_pts /\ ahead' = ahead
      /\ frame_last_delay' = frame_last_delay
      /\ decoded < Len(film)
  BY DEF DecodeFrame, refreshVars
<1>2. /\ decoded \in Nat /\ pictq \in Seq(Int) /\ n \in Nat
      /\ Len(film) \in Nat /\ i \in 1..Len(film) /\ film[i].pts \in Int
      /\ DOMAIN film = 1..Len(film)
  BY <1>1, FilmTypes, RefreshAssumption DEF SleepBounded, TypeOK
<1>3. Regular /\ Intervals' = Intervals
  BY <1>1 DEF Regular, Intervals
<1>4. Ring
  BY <1>3 DEF SyncInv
<1>5. Pts(film[i]) = film[i].pts /\ film[i].pts >= 0
  <2>1. CASE decoded = 0
    <3>1. i = 1 /\ film # <<>>
      BY <1>1, <2>1
    <3> QED BY <1>3, <1>4, <2>1, <3>1 DEF Regular, Ring, Pts
  <2>2. CASE decoded # 0
    <3>1. decoded \in 1..Len(film) /\ i \in 2..Len(film) /\ i - 1 = decoded
      BY <1>1, <1>2, <2>2
    <3>2. film[i].pts - film[i - 1].pts \in Intervals
      BY <3>1 DEF Intervals
    <3>3. film[decoded].pts >= 0 /\ film[decoded].pts \in Int
      BY <1>4, <3>1, FilmTypes DEF Ring, SleepBounded
    <3>4. 2 <= film[i].pts - film[decoded].pts
      BY <1>3, <3>1, <3>2 DEF Regular
    <3> HIDE DEF i
    <3>5. film[i].pts > 0
      BY <1>2, <3>3, <3>4
    <3> QED BY <1>2, <3>5 DEF Pts
  <2> QED BY <2>1, <2>2
<1> HIDE DEF Pts
<1>6. /\ Len(pictq') = n + 1 /\ Shown' = Shown
      /\ \A k \in 1..n : pictq'[k] = pictq[k]
      /\ pictq'[n + 1] = film[i].pts
  BY <1>1, <1>2, <1>5 DEF Shown
<1>7. Ring'
  <2>1. Shown \in Nat /\ Shown + (n + 1) = i
    BY <1>2, <1>4 DEF Ring, Shown
  <2> HIDE DEF n
  <2>2. \A k \in 1..Len(pictq') : pictq'[k] = film'[Shown' + k].pts
    <3> TAKE k \in 1..Len(pictq')
    <3>1. CASE k = n + 1
      BY <1>1, <1>6, <2>1, <3>1
    <3>2. CASE k # n + 1
      <4>1. k \in 1..n
        BY <1>2, <1>6, <3>2
      <4> QED BY <1>1, <1>4, <1>6, <4>1 DEF Ring, n
    <3> QED BY <3>1, <3>2
  <2>3. decoded' # 0
    BY <1>1, <1>2
  <2> QED BY <1>1, <1>4, <1>5, <1>6, <2>2, <2>3 DEF Ring
<1>8. /\ Corrected' = Corrected
      /\ \A d \in Intervals : Within(d)' = Within(d)
  BY <1>1, <1>3
     DEF Corrected, Within, Behind, Drift, Wait, Silenced
<1> QED BY <1>3, <1>6, <1>7, <1>8 DEF SyncInv

(* The delay after a picture is the interval before it; after the first    *)
(* picture, which is not early, it is the first delay.                     *)
LEMMA IntervalIsDelay ==
    ASSUME SleepBounded, Regular, Ring, pictq # <<>>
    PROVE  /\ PtsDelay(Head(pictq)) \in Intervals
           /\ Head(pictq) = film[Shown + 1].pts
           /\ IF Shown = 0
              THEN Head(pictq) = 0 /\ PtsDelay(Head(pictq)) = FirstDelay
              ELSE PtsDelay(Head(pictq)) = Head(pictq) - frame_last_pts
<1> DEFINE i == Shown + 1
<1>1. /\ Head(pictq) = film[i].pts /\ i \in 1..Len(film) /\ Shown \in Nat
      /\ film[i].pts \in Int /\ Len(film) \in Nat
  <2>1. /\ Len(pictq) \in Nat /\ Len(pictq) >= 1
        /\ Head(pictq) = pictq[1] /\ decoded \in 0..Len(film)
    BY DEF SleepBounded, TypeOK
  <2>2. Shown \in Nat /\ Head(pictq) = film[i].pts
    BY <2>1 DEF Ring
  <2>3. Len(film) \in Nat /\ i \in 1..Len(film)
    BY <2>1, <2>2, FilmTypes DEF SleepBounded, Shown
  <2> QED BY <2>2, <2>3, FilmTypes DEF SleepBounded
<1>2. CASE Shown = 0
  <2>1. Head(pictq) = 0 /\ frame_last_pts = 0 /\ frame_last_delay = FirstDelay
    <3>1. i = 1 /\ film # <<>>
      BY <1>1, <1>2
    <3> QED BY <1>1, <1>2, <3>1 DEF Regular, Ring
  <2> QED BY <1>1, <1>2, <2>1 DEF PtsDelay, Intervals
<1>3. CASE Shown # 0
  <2>1. /\ Shown \in 1..Len(film) /\ i \in 2..Len(film) /\ i - 1 = Shown
        /\ frame_last_pts = film[Shown].pts /\ film[Shown].pts \in Int
    BY <1>1, <1>3, FilmTypes DEF Ring, SleepBounded
  <2> DEFINE d == film[i].pts - frame_last_pts
  <2>2. d \in Intervals
    BY <2>1 DEF Intervals
  <2>3. d \in Int /\ 2 <= d /\ d < Second
    BY <1>1, <2>1, <2>2 DEF Regular
  <2>4. PtsDelay(Head(pictq)) = d
    <3>1. PtsDelay(Head(pictq)) =
            IF d <= 0 \/ d >= Second THEN frame_last_delay ELSE d
      BY <1>1 DEF PtsDelay
    <3> HIDE DEF d
    <3> QED BY <2>3, <3>1, RefreshAssumption
  <2> QED BY <1>1, <1>3, <2>2, <2>4
<1> QED BY <1>2, <1>3

(* A picture is shown: the first, which is late if at all, or another.     *)
LEMMA SyncShowStep ==
    ASSUME SleepBounded, SyncInv, VideoRefreshTimer PROVE SyncInv'
<1> SUFFICES ASSUME Regular' PROVE SyncInv'
  BY DEF SyncInv
<1>0. PICK clock \in AudioClocks :
        LET pts == Head(pictq)
            delay == PtsDelay(pts)
        IN  /\ frame_last_delay' = delay
            /\ frame_last_pts' = pts
            /\ frame_timer' = frame_timer + SyncedDelay(delay, pts - clock)
            /\ due' = now + Larger(frame_timer' - now, 1)
            /\ ahead' = pts - heard /\ error' = clock - heard
  BY DEF VideoRefreshTimer
<1> DEFINE pts == Head(pictq)
           delay == PtsDelay(pts)
           diff == pts - heard
           seen == pts - clock
           synced == SyncedDelay(delay, seen)
<1>1. /\ frame_last_delay' = delay /\ frame_last_pts' = pts
      /\ frame_timer' = frame_timer + synced
      /\ due' = now + Larger(frame_timer' - now, 1)
      /\ ahead' = diff /\ due <= now
      /\ film' = film /\ now' = now /\ heard' = heard /\ idle' = idle
      /\ decoded' = decoded /\ video_clock' = video_clock
      /\ pictq # <<>> /\ pictq' = Tail(pictq)
  BY <1>0 DEF VideoRefreshTimer, videoVars, SleepBounded, TypeOK
<1>2. /\ now \in Nat /\ heard \in 0..now /\ due \in Nat /\ idle \in Nat
      /\ frame_timer \in Nat /\ frame_timer <= due
      /\ frame_last_pts \in Int /\ pts \in Int /\ diff \in Int
      /\ decoded \in Nat /\ pictq \in Seq(Int) /\ pictq # <<>>
  BY <1>1, RefreshAssumption DEF SleepBounded, TypeOK
<1>11. /\ seen \in Int /\ MaxLead \in Nat /\ MaxLag \in Nat
       /\ diff - MaxLead <= seen /\ seen <= diff + MaxLag
  <2> HIDE DEF pts
  <2>1. /\ clock \in Int /\ heard - MaxLag <= clock
        /\ clock <= heard + MaxLead
    BY <1>2, RefreshAssumption DEF AudioClocks
  <2> QED BY <1>2, <2>1, RefreshAssumption
<1>3. Regular /\ Intervals' = Intervals /\ Ring
  BY <1>1 DEF Regular, Intervals, SyncInv
<1>4. /\ delay \in Intervals /\ pts = film[Shown + 1].pts
      /\ IF Shown = 0 THEN pts = 0 /\ delay = FirstDelay
         ELSE delay = pts - frame_last_pts
  BY <1>1, <1>3, IntervalIsDelay
<1>5. delay \in Int /\ 2 <= delay
  BY <1>3, <1>4, FilmTypes DEF Regular, SleepBounded
<1> HIDE DEF synced, delay
<1>6. Shown \in Nat /\ Shown' = Shown + 1
  BY <1>1, <1>2, <1>3 DEF Ring, Shown
<1>7. Ring'
  <2>1. \A k \in 1..Len(pictq') : pictq'[k] = film'[Shown' + k].pts
    <3> TAKE k \in 1..Len(pictq')
    <3>1. k + 1 \in 1..Len(pictq) /\ pictq'[k] = pictq[k + 1]
      BY <1>1, <1>2
    <3>2. Shown' + k = Shown + (k + 1)
      BY <1>2, <1>6
    <3> QED BY <1>1, <1>3, <3>1, <3>2 DEF Ring
  <2> QED BY <1>1, <1>3, <1>4, <1>6, <2>1 DEF Ring
<1>8. ASSUME Corrected'
      PROVE  \E d \in Intervals : Within(d)'
  <2>1. Corrected
    BY <1>1, <1>3, <1>8 DEF Corrected, Silenced
  <2>2. /\ Silenced' = Silenced /\ Silenced = now - heard
        /\ Silenced \in Nat
    BY <1>1, <1>2 DEF Silenced
  <2>3. Wait = now
    BY <1>1, <1>2 DEF Wait, Larger
  (* The picture is within the bounds, and its difference is corrected.    *)
  <2>4. PICK d \in Intervals :
          /\ delay <= d
          /\ -d - idle - MaxLag <= diff
          /\ diff <= 2 * d + idle + Silenced + Slack
          /\ Shown # 0 => Within(d)
    <3>1. CASE Shown = 0
      <4>1. diff = -heard /\ idle = now
        BY <1>2, <1>3, <1>4, <3>1 DEF Ring
      <4>2. /\ delay <= delay /\ -delay - idle - MaxLag <= diff
            /\ diff <= 2 * delay + idle + Silenced + Slack
        <5> HIDE DEF diff, Silenced
        <5> QED BY <1>2, <1>5, <1>11, <2>2, <4>1, SlackType
      <4> HIDE DEF diff, Silenced
      <4> QED BY <1>4, <3>1, <4>2
    <3>2. CASE Shown # 0
      <4>1. PICK e \in Intervals : Within(e)
        BY <1>3, <2>1, <3>2 DEF SyncInv
      <4> DEFINE d == IF delay <= e THEN e ELSE delay
      <4>2. d \in Intervals /\ e \in Int /\ d \in Int /\ e <= d /\ delay <= d
        BY <1>4, <1>5, FilmTypes DEF SleepBounded
      <4> HIDE DEF d
      <4>3. frame_last_delay \in Int /\ ahead \in Int
        BY DEF SleepBounded, TypeOK
      <4> HIDE DEF Silenced
      <4>4. Within(d)
        BY <1>2, <1>11, <2>2, <2>3, <4>1, <4>2, <4>3, SlackType
           DEF Within, Behind, Drift
      <4>5. diff = Drift + delay /\ Drift \in Int
        BY <1>2, <1>4, <1>5, <2>2, <2>3, <3>2 DEF Drift
      <4>6. /\ -d - idle - MaxLag <= diff
            /\ diff <= 2 * d + idle + Silenced + Slack
        <5>1. /\ -d - idle - 1 - MaxLag <= Drift
              /\ Behind >= 0 /\ Behind \in Int
              /\ Behind + 2 * Drift <= 2 * idle + 2 * Silenced + 2 * d - 4
                                       + 3 * MaxLead + MaxLag
          BY <1>2, <2>3, <4>4 DEF Within, Behind
        <5> HIDE DEF diff
        <5> QED BY <1>2, <1>5, <1>11, <2>2, <4>2, <4>5, <5>1, SlackType
      <4> QED BY <4>2, <4>4, <4>6
    <3> QED BY <3>1, <3>2
  <2>5. d \in Int /\ 2 * d + idle + Silenced + Slack + MaxLag < NoSync
    BY <2>1, FilmTypes DEF Corrected, SleepBounded
  <2>6. synced = IF seen <= -delay THEN 0
                 ELSE IF seen >= delay THEN 2 * delay ELSE delay
    <3> HIDE DEF diff, seen
    <3>1. seen < NoSync /\ seen > -NoSync /\ SyncThreshold(delay) = delay
      BY <1>2, <1>5, <1>11, <2>2, <2>4, <2>5, SlackType, RefreshAssumption
         DEF SyncThreshold, Larger
    <3> QED BY <1>11, <3>1, RefreshAssumption DEF synced, SyncedDelay
  <2> DEFINE behind == now - frame_timer
             drift == pts - now + Silenced
  <2>7. /\ behind \in Nat /\ drift \in Int /\ diff = drift
    <3>1. frame_timer <= now
      BY <1>1, <1>2
    <3> HIDE DEF pts, Silenced
    <3> QED BY <1>2, <2>2, <3>1
  <2>8. /\ Behind' = IF synced - behind > 1 THEN 0 ELSE behind - synced + 1
        /\ Drift' = drift - (IF synced - behind > 1 THEN synced - behind
                             ELSE 1)
    <3>1. synced \in Int
      BY <1>5, <2>6
    <3>2. due' = now + Larger(synced - behind, 1)
      BY <1>1, <1>2, <3>1
    <3>3. due' >= now' /\ due' \in Int
      BY <1>1, <1>2, <2>7, <3>1, <3>2 DEF Larger
    <3>4. Wait' = due'
      BY <1>1, <1>2, <3>3 DEF Wait, Larger
    <3>5. /\ Behind' = due' - (frame_timer + synced)
          /\ Drift' = pts - due' + Silenced
      BY <1>1, <2>2, <3>4 DEF Behind, Drift
    <3> DEFINE later == due' - now
    <3>6. later = IF synced - behind > 1 THEN synced - behind ELSE 1
      BY <1>2, <2>7, <3>1, <3>2 DEF Larger
    <3>7. /\ Behind' = later + behind - synced
          /\ Drift' = drift - later
      BY <1>2, <2>2, <3>1, <3>3, <3>5
    <3> HIDE DEF behind, drift, later
    <3> QED BY <2>7, <3>1, <3>6, <3>7
  <2>9. /\ Shown = 0 => drift = -heard /\ behind = now /\ idle = now
        /\ Shown # 0 => /\ drift = Drift + delay /\ behind = Behind
                        /\ Drift \in Int /\ Within(d)
    <3>1. CASE Shown = 0
      BY <1>2, <1>3, <1>4, <2>2, <3>1 DEF Ring
    <3>2. CASE Shown # 0
      <4>1. /\ Drift = frame_last_pts - now + Silenced
            /\ Behind = now - frame_timer
        BY <2>3 DEF Drift, Behind
      <4> HIDE DEF Silenced
      <4>2. delay = pts - frame_last_pts
        BY <1>4, <3>2
      <4> HIDE DEF pts
      <4> QED BY <1>2, <2>2, <2>4, <3>2, <4>1, <4>2
    <3> QED BY <3>1, <3>2
  <2> HIDE DEF behind, drift, diff, seen, Silenced, Drift, Behind
  <2>10. /\ Behind' >= 0
         /\ -d - idle - 1 - MaxLag <= Drift'
         /\ -d - MaxLag <= Drift' + Behind'
         /\ Behind' <= 2 * idle + Drift' + d + MaxLag
         /\ Behind' + 2 * Drift' <= 2 * idle + 2 * Silenced + 2 * d - 4
                                    + 3 * MaxLead + MaxLag
    <3>1. CASE Shown = 0
      BY <1>2, <1>5, <1>11, <2>2, <2>4, <2>5, <2>6, <2>7, <2>8, <2>9, <3>1
    <3>2. CASE Shown # 0
      <4>1. /\ Drift \in Int /\ drift = Drift + delay /\ behind >= 0
            /\ -d - idle - 1 - MaxLag <= Drift
            /\ -d - MaxLag <= Drift + behind
            /\ behind <= 2 * idle + Drift + d + MaxLag
            /\ behind + 2 * Drift <= 2 * idle + 2 * Silenced + 2 * d - 4
                                     + 3 * MaxLead + MaxLag
        BY <2>9, <3>2 DEF Within
      <4> QED BY <1>2, <1>5, <1>11, <2>2, <2>4, <2>5, <2>6, <2>7, <2>8, <4>1
    <3> QED BY <3>1, <3>2
  <2>11. Within(d)'
    BY <1>1, <2>2, <2>4, <2>10 DEF Within
  <2> QED BY <2>11
<1> QED BY <1>3, <1>7, <1>8 DEF SyncInv

(* Picture and sound stay together in every regular film, whatever the     *)
(* audio clock returns within its lead and its lag, as long as they are    *)
(* not so far apart that nothing is corrected.                             *)
THEOREM SyncCorrect == Spec => []InSync
<1>1. Init => SyncInv
  <2> SUFFICES ASSUME Init PROVE SyncInv
    OBVIOUS
  <2>1. Len(pictq) = 0 /\ decoded = 0
    BY DEF Init
  <2>2. Shown = 0
    BY <2>1 DEF Shown
  <2> QED BY <2>1, <2>2 DEF Init, SyncInv, Ring
<1>2. SleepBounded /\ SyncInv /\ [Next]_vars => SyncInv'
  <2> SUFFICES ASSUME SleepBounded, SyncInv, [Next]_vars PROVE SyncInv'
    OBVIOUS
  <2>1. CASE Tick
    BY <2>1, SyncTickStep
  <2>2. CASE DecodeFrame
    BY <2>2, SyncDecodeStep
  <2>3. CASE VideoRefreshTimer
    BY <2>3, SyncShowStep
  <2>4. CASE UNCHANGED vars
    BY <2>4 DEF SyncInv, Regular, Intervals, Ring, Shown, Corrected,
                Silenced, Within, Behind, Drift, Wait, vars, videoVars,
                refreshVars
  <2> QED BY <2>1, <2>2, <2>3, <2>4 DEF Next
<1>3. SleepBounded /\ SyncInv => InSync
  <2> SUFFICES ASSUME SleepBounded, SyncInv, Regular, Corrected
               PROVE  \E d \in Intervals :
                        /\ -d - idle - MaxLag <= ahead
                        /\ ahead <= 2 * d + idle + Silenced + Slack
    BY DEF InSync
  <2>1. CASE Shown = 0
    <3>1. ahead = 0 /\ idle \in Nat /\ Silenced \in Nat
      BY <2>1 DEF SyncInv, Ring, SleepBounded, TypeOK, Silenced
    <3>2. FirstDelay \in Intervals /\ FirstDelay \in Nat
      BY RefreshAssumption DEF Intervals
    <3> HIDE DEF Silenced
    <3> QED BY <3>1, <3>2, SlackType, RefreshAssumption
  <2>2. CASE Shown # 0
    BY <2>2 DEF SyncInv, Within
  <2> QED BY <2>1, <2>2
<1> QED BY <1>1, <1>2, <1>3, SleepCorrect, PTL DEF Spec

=============================================================================
