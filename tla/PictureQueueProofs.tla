-------------------------- MODULE PictureQueueProofs --------------------------
(***************************************************************************)
(* Proofs about the picture ring, for any number of slots and pictures,    *)
(* and whatever the user does and whichever allocation or timer fails.     *)
(***************************************************************************)
EXTENDS PictureQueue, FiniteSetTheorems, FunctionTheorems, SequenceTheorems,
        TLAPS

LEMMA ScheduleType ==
    ASSUME timers \in Nat, lost \in BOOLEAN, ScheduleRefresh
    PROVE  /\ timers' \in Nat /\ lost' \in BOOLEAN
           /\ UNCHANGED <<events, loopVars>>
<1>1. timers' \in Nat /\ UNCHANGED <<events, loopVars>>
  BY DEF ScheduleRefresh
<1>2. lost' \in BOOLEAN
  BY Zenon DEF ScheduleRefresh
<1> QED BY <1>1, <1>2

LEMMA HandleType ==
    ASSUME exited \in BOOLEAN, main \in MainPlaces, NEW e, Handle(e)
    PROVE  exited' \in BOOLEAN /\ main' \in MainPlaces
  BY DEF Handle, MainPlaces

(* The one thing type correctness needs besides itself is the count of the *)
(* slots in use.                                                           *)
LEMMA TypeStep ==
    TypeOK /\ Counting /\ [Next]_vars
        => TypeOK'
<1> USE PictureQueueAssumption DEF N, Torn
<1> SUFFICES ASSUME TypeOK, Counting, [Next]_vars
             PROVE  TypeOK'
  OBVIOUS
<1> USE DEF TypeOK, VideoPlaces, MainPlaces, ringVars, refreshVars, loopVars
<1>1. CASE OpenVideo
  BY <1>1 DEF OpenVideo
<1>2. CASE QueuePicture
  BY <1>2 DEF QueuePicture
<1>3. CASE QueueLock
  BY <1>3 DEF QueueLock
<1>4. CASE QueueTest
  BY <1>4 DEF QueueTest
<1>5. CASE QueueOverwrite
  BY <1>5 DEF QueueOverwrite
<1>6. CASE QueueWritten
  BY <1>6 DEF QueueWritten, Next1
<1>7. CASE QueueNoFrame
  BY <1>7 DEF QueueNoFrame
<1>8. CASE QueuePublish
  <2>1. pictq_size + 1 \in 0..N
    BY <1>8 DEF QueuePublish, Counting, Unpublished
  <2> QED BY <1>8, <2>1 DEF QueuePublish
<1>9. CASE MainEvent
  <2>1. events \in Seq(OtherEvents \cup {Refresh}) /\ events # <<>>
    BY <1>9 DEF MainEvent
  <2>2. Tail(events) \in Seq(OtherEvents \cup {Refresh})
    BY <2>1
  <2>3. Head(events) \in OtherEvents \cup {Refresh}
    BY <2>1
  <2>4. exited' \in BOOLEAN /\ main' \in MainPlaces
    BY <1>9, HandleType DEF MainEvent
  <2>5. /\ events' = Tail(events) /\ event' = Head(events)
        /\ UNCHANGED <<ringVars, timers, lost, waitFails, repeated, opened,
                       video, screen, decoded, shown, inputs>>
    BY <1>9 DEF MainEvent
  <2> QED BY <2>2, <2>3, <2>4, <2>5
<1>10. CASE RefreshNothing
  <2>1. timers' \in Nat /\ lost' \in BOOLEAN /\ UNCHANGED <<events, loopVars>>
    BY <1>10, ScheduleType DEF RefreshNothing
  <2>2. /\ UNCHANGED <<ringVars, opened, video, exited, screen, decoded,
                       shown, inputs>>
        /\ main' = "wait"
    BY <1>10 DEF RefreshNothing
  <2> QED BY <2>1, <2>2
<1>11. CASE RefreshSchedule
  <2>1. timers' \in Nat /\ lost' \in BOOLEAN /\ UNCHANGED <<events, loopVars>>
    BY <1>11, ScheduleType DEF RefreshSchedule
  <2>2. /\ UNCHANGED <<ringVars, opened, video, exited, screen, decoded,
                       shown, inputs>>
        /\ main' = "display"
    BY <1>11 DEF RefreshSchedule
  <2> QED BY <2>1, <2>2
<1>12. CASE VideoDisplay
  BY <1>12 DEF VideoDisplay, Next1
<1>13. CASE RefreshRelease
  <2>1. pictq_size - 1 \in 0..N
    BY <1>13 DEF RefreshRelease, Counting, Unreleased
  <2> QED BY <1>13, <2>1 DEF RefreshRelease
<1>14. CASE TimerCallback
  <2>1. timers' \in Nat
    BY <1>14 DEF TimerCallback
  <2>2. events' \in Seq(OtherEvents \cup {Refresh})
    <3>1. Append(events, Refresh) \in Seq(OtherEvents \cup {Refresh})
      BY AppendProperties
    <3> QED BY <1>14, <3>1 DEF TimerCallback
  <2> QED BY <1>14, <2>1, <2>2 DEF TimerCallback
<1>15. ASSUME NEW e \in OtherEvents, OtherEvent(e)
     PROVE  TypeOK'
  BY <1>15 DEF OtherEvent
<1>16. CASE UNCHANGED vars
  BY <1>16 DEF vars
<1>17. CASE WaitEventFails
  <2>1. exited' \in BOOLEAN /\ main' \in MainPlaces
    BY <1>17, HandleType DEF WaitEventFails
  <2>2. /\ waitFails' = waitFails + 1 /\ repeated' \in {repeated, repeated + 1}
        /\ UNCHANGED <<ringVars, timers, events, lost, event, opened, video,
                       screen, decoded, shown, inputs>>
    BY <1>17 DEF WaitEventFails
  <2> QED BY <2>1, <2>2
<1> QED
  BY <1>1, <1>2, <1>3, <1>4, <1>5, <1>6, <1>7, <1>8, <1>9, <1>10, <1>11,
     <1>12, <1>13, <1>14, <1>15, <1>16, <1>17
  DEF Next, VideoThread, MainThread

(* The numbers, as the steps below need them.                              *)
LEMMA Lengths ==
    TypeOK => /\ Len(queued) \in Nat
              /\ shown \in Nat
              /\ pictq_size \in 0..N
              /\ N \in Nat \ {0}
              /\ pictq_rindex \in 0..N-1
  BY PictureQueueAssumption DEF TypeOK

(* The three steps of the video thread that bear on the count.             *)
LEMMA QueueTestCounting ==
    ASSUME TypeOK, Counting, QueueTest
    PROVE  Counting'
<1>1. /\ queued' = queued /\ shown' = shown
      /\ pictq_size' = pictq_size /\ main' = main
      /\ video = "size"
      /\ \/ video' = "asleep"
         \/ video' = "write" /\ ~(pictq_size >= N)
  BY DEF QueueTest, ringVars
<1>2. Ahead' = Ahead /\ Unreleased' = Unreleased
      /\ Unpublished' = 0 /\ Unpublished = 0
  BY <1>1 DEF Ahead, Unreleased, Unpublished
<1>3. video' \in {"write", "scale"} => pictq_size' < N
  BY <1>1, Lengths
<1> QED
  BY <1>1, <1>2, <1>3 DEF Counting

LEMMA QueueTestSleeps ==
    ASSUME TypeOK, QueueTest
    PROVE  NoSleepWithRoom'
<1>1. video' = "asleep" => pictq_size' = pictq_size /\ pictq_size >= N
  BY DEF QueueTest, ringVars
<1> QED
  BY <1>1, Lengths DEF NoSleepWithRoom

LEMMA QueueWrittenCounting ==
    ASSUME TypeOK, Counting, QueueWritten
    PROVE  Counting'
<1>1. /\ queued' = Append(queued, decoded) /\ shown' = shown
      /\ pictq_size' = pictq_size /\ main' = main
      /\ video = "scale" /\ video' = "publish"
  BY DEF QueueWritten
<1>2. Len(queued') = Len(queued) + 1
  BY <1>1 DEF TypeOK
<1>3. Unreleased' = Unreleased /\ Unpublished' = 1 /\ Unpublished = 0
      /\ Unreleased \in {0, 1}
  BY <1>1 DEF Unreleased, Unpublished
<1>4. Ahead' = Ahead + 1
  BY <1>1, <1>2, Lengths DEF Ahead
<1>5. /\ Ahead \in 0..N /\ pictq_size = Ahead - Unpublished + Unreleased
      /\ pictq_size < N /\ pictq_size >= Unreleased
      /\ main = "display" => pictq_size > 0
  BY <1>1 DEF Counting
<1>6. /\ Ahead' \in 0..N
      /\ pictq_size' = Ahead' - Unpublished' + Unreleased'
      /\ pictq_size' + Unpublished' <= N
      /\ pictq_size' >= Unreleased'
  BY <1>1, <1>3, <1>4, <1>5, Lengths
<1> QED
  BY <1>1, <1>5, <1>6 DEF Counting

LEMMA QueuePublishCounting ==
    ASSUME TypeOK, Counting, QueuePublish
    PROVE  Counting'
<1>1. /\ queued' = queued /\ shown' = shown
      /\ pictq_size' = pictq_size + 1 /\ main' = main
      /\ video = "publish" /\ video' = "decode"
  BY DEF QueuePublish
<1>2. Unreleased' = Unreleased /\ Unpublished' = 0 /\ Unpublished = 1
      /\ Unreleased \in {0, 1} /\ Ahead' = Ahead
  BY <1>1 DEF Unreleased, Unpublished, Ahead
<1>3. /\ Ahead \in 0..N /\ pictq_size = Ahead - Unpublished + Unreleased
      /\ pictq_size + Unpublished <= N /\ pictq_size >= Unreleased
      /\ main = "display" => pictq_size > 0
  BY DEF Counting
<1>4. /\ pictq_size' = Ahead' - Unpublished' + Unreleased'
      /\ pictq_size' + Unpublished' <= N
      /\ pictq_size' >= Unreleased'
      /\ main' = "display" => pictq_size' > 0
  BY <1>1, <1>2, <1>3, Lengths
<1> QED
  BY <1>1, <1>2, <1>3, <1>4 DEF Counting

(* The step of the main thread that does.                                  *)
LEMMA ReleaseCounting ==
    ASSUME TypeOK, Counting, RefreshRelease
    PROVE  Counting'
<1>1. /\ queued' = queued /\ shown' = shown
      /\ pictq_size' = pictq_size - 1
      /\ main = "release" /\ main' = "wait"
      /\ \/ video' = video
         \/ video = "asleep" /\ video' = "lock"
  BY DEF RefreshRelease
<1>2. Unpublished' = Unpublished /\ Unreleased' = 0 /\ Unreleased = 1
      /\ Unpublished \in {0, 1} /\ Ahead' = Ahead
  BY <1>1 DEF Unreleased, Unpublished, Ahead
<1>3. /\ Ahead \in 0..N /\ pictq_size = Ahead - Unpublished + Unreleased
      /\ pictq_size + Unpublished <= N /\ pictq_size >= Unreleased
      /\ video \in {"write", "scale"} => pictq_size < N
  BY DEF Counting
<1>4. /\ pictq_size' = Ahead' - Unpublished' + Unreleased'
      /\ pictq_size' + Unpublished' <= N
      /\ pictq_size' >= Unreleased'
      /\ video' \in {"write", "scale"} => pictq_size' < N
  BY <1>1, <1>2, <1>3, Lengths
<1> QED
  BY <1>1, <1>2, <1>3, <1>4 DEF Counting

(* The number of slots in use, against pictq_size.                         *)
LEMMA CountingStep ==
    TypeOK /\ TypeOK' /\ Counting /\ Contents /\ VideoState /\ ShownInOrder
       /\ NoSleepWithRoom /\ [Next]_vars
        => Counting' /\ VideoState' /\ NoSleepWithRoom'
<1> USE PictureQueueAssumption DEF N, Torn
<1> SUFFICES ASSUME TypeOK, TypeOK', Counting, Contents, VideoState,
                    ShownInOrder, NoSleepWithRoom, [Next]_vars
             PROVE  Counting' /\ VideoState' /\ NoSleepWithRoom'
  OBVIOUS
<1> USE DEF TypeOK, Counting, Unpublished, Unreleased, Ahead, VideoState,
   ShownInOrder, NoSleepWithRoom, Next1, ringVars, refreshVars, PictqMutexFree
<1>1. CASE OpenVideo
  BY <1>1 DEF OpenVideo
<1>2. CASE QueuePicture
  BY <1>2 DEF QueuePicture
<1>3. CASE QueueLock
  BY <1>3 DEF QueueLock
<1>4. CASE QueueTest
  <2>1. Counting'
    BY <1>4, QueueTestCounting
  <2>2. VideoState'
    BY <1>4 DEF QueueTest
  <2>3. NoSleepWithRoom'
    BY <1>4, QueueTestSleeps
  <2> QED BY <2>1, <2>2, <2>3
<1>5. CASE QueueOverwrite
  BY <1>5 DEF QueueOverwrite
<1>6. CASE QueueWritten
  <2>1. Counting'
    BY <1>6, QueueWrittenCounting
  <2>2. VideoState'
    BY <1>6 DEF QueueWritten
  <2>3. NoSleepWithRoom'
    BY <1>6 DEF QueueWritten
  <2> QED BY <2>1, <2>2, <2>3
<1>7. CASE QueueNoFrame
  BY <1>7 DEF QueueNoFrame
<1>8. CASE QueuePublish
  <2>1. Counting'
    BY <1>8, QueuePublishCounting
  <2>2. VideoState'
    BY <1>8 DEF QueuePublish
  <2>3. NoSleepWithRoom'
    BY <1>8 DEF QueuePublish
  <2> QED BY <2>1, <2>2, <2>3
<1>9. CASE MainEvent
  <2>1. /\ UNCHANGED <<queued, shown, pictq_size, video, opened, decoded>>
        /\ main = "wait" /\ main' \in {"wait", "refresh"}
    BY <1>9 DEF MainEvent, Handle
  <2>2. Counting'
    BY <2>1
  <2>3. VideoState' /\ NoSleepWithRoom'
    BY <2>1
  <2> QED BY <2>2, <2>3
<1>10. CASE RefreshNothing
  BY <1>10 DEF RefreshNothing, ScheduleRefresh
<1>11. CASE RefreshSchedule
  BY <1>11 DEF RefreshSchedule, ScheduleRefresh
<1>12. CASE VideoDisplay
  BY <1>12 DEF VideoDisplay
<1>13. CASE RefreshRelease
  <2>1. Counting'
    BY <1>13, ReleaseCounting
  <2>2. VideoState' /\ NoSleepWithRoom'
    BY <1>13 DEF RefreshRelease
  <2> QED BY <2>1, <2>2
<1>14. CASE TimerCallback
  BY <1>14 DEF TimerCallback
<1>15. ASSUME NEW e \in OtherEvents, OtherEvent(e)
     PROVE  Counting' /\ VideoState' /\ NoSleepWithRoom'
  BY <1>15 DEF OtherEvent
<1>16. CASE UNCHANGED vars
  BY <1>16 DEF vars
<1>17. CASE WaitEventFails
  <2>1. /\ UNCHANGED <<queued, shown, pictq_size, video, opened, decoded>>
        /\ main = "wait" /\ main' \in {"wait", "refresh"}
    BY <1>17 DEF WaitEventFails, Handle
  <2>2. Counting'
    BY <2>1
  <2>3. VideoState' /\ NoSleepWithRoom'
    BY <2>1
  <2> QED BY <2>2, <2>3
<1> QED
  BY <1>1, <1>2, <1>3, <1>4, <1>5, <1>6, <1>7, <1>8, <1>9, <1>10, <1>11,
     <1>12, <1>13, <1>14, <1>15, <1>16, <1>17
  DEF Next, VideoThread, MainThread

(* Slots at different distances from the same index, below N, differ.      *)
LEMMA SlotsDiffer ==
    ASSUME NEW r \in 0..N-1, NEW i \in 0..N-1, NEW j \in 0..N-1, i # j
    PROVE  SlotFrom(r, i) # SlotFrom(r, j) /\ SlotFrom(r, i) \in 0..N-1
  BY PictureQueueAssumption DEF N, SlotFrom

(* One slot further, counted from the far end and from the near end.       *)
LEMMA SlotNext ==
    ASSUME NEW r \in 0..N-1, NEW i \in 0..N-1
    PROVE  /\ Next1(SlotFrom(r, i)) = SlotFrom(r, i + 1)
           /\ SlotFrom(Next1(r), i) = SlotFrom(r, i + 1)
  BY PictureQueueAssumption DEF N, SlotFrom, Next1

(* The three steps that touch the slots in use, or the indexes.            *)
LEMMA QueueOverwriteContents ==
    ASSUME TypeOK, Counting, Contents, QueueOverwrite
    PROVE  Contents'
<1>1. /\ pictq' = [pictq EXCEPT ![pictq_windex] = Torn]
      /\ UNCHANGED <<pictq_windex, pictq_rindex, queued, shown>>
      /\ video = "write"
  BY DEF QueueOverwrite
<1>2. Ahead \in 0..N-1
  <2>1. /\ Ahead \in 0..N /\ pictq_size < N
        /\ pictq_size = Ahead - 0 + Unreleased /\ Unreleased \in {0, 1}
    BY <1>1 DEF Counting, Unpublished, Unreleased
  <2> QED BY <2>1, Lengths
<1>3. \A i \in 0..N-1 : i < Ahead => pictq'[Slot(i)] = pictq[Slot(i)]
  <2> SUFFICES ASSUME NEW i \in 0..N-1, i < Ahead
               PROVE  pictq'[Slot(i)] = pictq[Slot(i)]
    OBVIOUS
  <2>1. Slot(i) # Slot(Ahead) /\ Slot(i) \in 0..N-1
    BY <1>2, Lengths, SlotsDiffer DEF Slot
  <2> QED BY <1>1, <2>1 DEF TypeOK, Contents
<1> QED
  BY <1>1, <1>3 DEF Contents, Slot, Ahead

LEMMA QueueWrittenContents ==
    ASSUME TypeOK, Counting, Contents, VideoState, QueueWritten
    PROVE  Contents'
<1>1. /\ pictq' = [pictq EXCEPT ![pictq_windex] = decoded]
      /\ queued' = Append(queued, decoded)
      /\ pictq_windex' = Next1(pictq_windex)
      /\ UNCHANGED <<pictq_rindex, shown>>
      /\ video = "scale"
  BY DEF QueueWritten
<1>2. Ahead \in 0..N-1
  <2>1. /\ Ahead \in 0..N /\ pictq_size < N
        /\ pictq_size = Ahead - 0 + Unreleased /\ Unreleased \in {0, 1}
    BY <1>1 DEF Counting, Unpublished, Unreleased
  <2> QED BY <2>1, Lengths
<1>3. /\ Len(queued') = Len(queued) + 1
      /\ queued'[Len(queued) + 1] = decoded
      /\ \A i \in 1..Len(queued) : queued'[i] = queued[i]
  BY <1>1 DEF TypeOK
<1>4. Ahead' = Ahead + 1
  BY <1>1, <1>3, Lengths DEF Ahead
<1>5. pictq_windex' = SlotFrom(pictq_rindex, Ahead')
  BY <1>1, <1>2, <1>4, SlotNext, Lengths DEF Contents, Slot
<1>6. ASSUME NEW i \in 0..N-1, i < Ahead'
      PROVE  pictq'[Slot(i)] = queued'[shown + 1 + i]
  <2>1. CASE i < Ahead
    <3>1. Slot(i) # Slot(Ahead) /\ Slot(i) \in 0..N-1
      BY <1>2, <2>1, Lengths, SlotsDiffer DEF Slot
    <3>2. pictq'[Slot(i)] = pictq[Slot(i)]
      BY <1>1, <3>1 DEF TypeOK, Contents
    <3>3. shown + 1 + i \in 1..Len(queued)
      BY <2>1, Lengths DEF Ahead
    <3> QED BY <1>3, <2>1, <3>2, <3>3 DEF Contents
  <2>2. CASE i = Ahead
    <3>1. pictq'[Slot(i)] = decoded
      BY <1>1, <1>2, <2>2 DEF TypeOK, Contents
    <3>2. shown + 1 + i = Len(queued) + 1
      BY <2>2, Lengths DEF Ahead
    <3> QED BY <1>3, <3>1, <3>2
  <2> QED BY <1>2, <1>4, <1>6, <2>1, <2>2, Lengths
<1>7. \A i \in 1..Len(queued') : queued'[i] # Torn
  <2>1. decoded # Torn
    BY <1>1 DEF VideoState, TypeOK, Torn
  <2> QED BY <1>3, <2>1, Lengths DEF Contents
<1> QED
  BY <1>1, <1>5, <1>6, <1>7 DEF Contents, Slot, Ahead

LEMMA VideoDisplayContents ==
    ASSUME TypeOK, Counting, Contents, ShownInOrder, VideoDisplay
    PROVE  Contents' /\ ShownInOrder'
<1>1. /\ screen' = pictq[pictq_rindex] /\ shown' = shown + 1
      /\ pictq_rindex' = Next1(pictq_rindex)
      /\ UNCHANGED <<pictq, pictq_windex, queued>>
      /\ main = "display"
  BY DEF VideoDisplay
<1>2. Ahead \in 1..N
  <2>1. /\ Ahead \in 0..N /\ pictq_size > 0
        /\ pictq_size = Ahead - Unpublished + 0 /\ Unpublished \in {0, 1}
    BY <1>1 DEF Counting, Unpublished, Unreleased
  <2> QED BY <2>1, Lengths
<1>3. Ahead' = Ahead - 1
  BY <1>1, Lengths DEF Ahead
<1>4. \A i \in 0..N-1 :
         SlotFrom(pictq_rindex', i) = SlotFrom(pictq_rindex, i + 1)
  BY <1>1, Lengths, SlotNext
<1>5. pictq_windex' = SlotFrom(pictq_rindex', Ahead')
  <2>1. Ahead' \in 0..N-1 /\ Ahead' + 1 = Ahead
    BY <1>2, <1>3, Lengths
  <2> QED BY <1>1, <1>4, <2>1 DEF Contents, Slot
<1>6. ASSUME NEW i \in 0..N-1, i < Ahead'
      PROVE  pictq[SlotFrom(pictq_rindex', i)] = queued[shown' + 1 + i]
  <2>1. i + 1 \in 0..N-1 /\ i + 1 < Ahead /\ shown + 1 + (i + 1) = shown' + 1
     + i
    BY <1>1, <1>2, <1>3, <1>6, Lengths
  <2>2. pictq[Slot(i + 1)] = queued[shown + 1 + (i + 1)]
    BY <2>1 DEF Contents
  <2> QED BY <1>4, <2>1, <2>2 DEF Slot
<1>7. Contents'
  BY <1>1, <1>5, <1>6 DEF Contents, Slot, Ahead
<1>8. screen' = queued[shown + 1]
  <2>1. pictq_rindex = Slot(0) /\ 0 \in 0..N-1
    BY Lengths DEF Slot, SlotFrom
  <2>2. pictq[Slot(0)] = queued[shown + 1 + 0]
    BY <1>2, <2>1 DEF Contents
  <2> QED BY <1>1, <2>1, <2>2, Lengths
<1>9. shown + 1 \in 1..Len(queued)
  BY <1>2, Lengths DEF Ahead
<1> QED
  BY <1>1, <1>7, <1>8, <1>9, Lengths DEF ShownInOrder, Contents

(* The pictures in the slots in use.                                       *)
LEMMA ContentsStep ==
    TypeOK /\ TypeOK' /\ Counting /\ Counting' /\ Contents /\ VideoState /\
       ShownInOrder /\ [Next]_vars
        => Contents' /\ ShownInOrder'
<1> USE PictureQueueAssumption DEF N, Torn
<1> SUFFICES ASSUME TypeOK, TypeOK', Counting, Counting', Contents, VideoState,
                    ShownInOrder, [Next]_vars
             PROVE  Contents' /\ ShownInOrder'
  OBVIOUS
<1> USE DEF TypeOK, Counting, Unpublished, Unreleased, Ahead, Slot, SlotFrom,
   Contents, VideoState, ShownInOrder, Next1, ringVars, refreshVars
<1>1. CASE OpenVideo
  BY <1>1 DEF OpenVideo
<1>2. CASE QueuePicture
  BY <1>2 DEF QueuePicture
<1>3. CASE QueueLock
  BY <1>3 DEF QueueLock
<1>4. CASE QueueTest
  BY <1>4 DEF QueueTest
<1>5. CASE QueueOverwrite
  <2>1. Contents'
    BY <1>5, QueueOverwriteContents
  <2>2. ShownInOrder'
    BY <1>5 DEF QueueOverwrite
  <2> QED BY <2>1, <2>2
<1>6. CASE QueueWritten
  <2>1. Contents'
    BY <1>6, QueueWrittenContents
  <2>2. ShownInOrder'
    BY <1>6 DEF QueueWritten
  <2> QED BY <2>1, <2>2
<1>7. CASE QueueNoFrame
  BY <1>7 DEF QueueNoFrame
<1>8. CASE QueuePublish
  BY <1>8 DEF QueuePublish
<1>9. CASE MainEvent
  BY <1>9 DEF MainEvent
<1>10. CASE RefreshNothing
  BY <1>10 DEF RefreshNothing, ScheduleRefresh
<1>11. CASE RefreshSchedule
  BY <1>11 DEF RefreshSchedule, ScheduleRefresh
<1>12. CASE VideoDisplay
  <2>1. Contents'
    BY <1>12, VideoDisplayContents
  <2>2. ShownInOrder'
    BY <1>12, VideoDisplayContents
  <2> QED BY <2>1, <2>2
<1>13. CASE RefreshRelease
  BY <1>13 DEF RefreshRelease
<1>14. CASE TimerCallback
  BY <1>14 DEF TimerCallback
<1>15. ASSUME NEW e \in OtherEvents, OtherEvent(e)
     PROVE  Contents' /\ ShownInOrder'
  BY <1>15 DEF OtherEvent
<1>16. CASE UNCHANGED vars
  BY <1>16 DEF vars
<1>17. CASE WaitEventFails
  BY <1>17 DEF WaitEventFails
<1> QED
  BY <1>1, <1>2, <1>3, <1>4, <1>5, <1>6, <1>7, <1>8, <1>9, <1>10, <1>11,
     <1>12, <1>13, <1>14, <1>15, <1>16, <1>17
  DEF Next, VideoThread, MainThread

-----------------------------------------------------------------------------
LEMMA InitInv == Init => IInv
<1> USE PictureQueueAssumption DEF N, Torn
<1> SUFFICES ASSUME Init PROVE IInv
  OBVIOUS
<1> USE DEF Init
<1>1. TypeOK
  BY DEF TypeOK, VideoPlaces, MainPlaces
<1>2. Counting /\ Contents
  BY DEF Counting, Contents, Ahead, Unpublished, Unreleased, Slot, SlotFrom
<1>3. VideoState /\ ShownInOrder /\ NoSleepWithRoom
  BY DEF VideoState, ShownInOrder, NoSleepWithRoom
<1> QED BY <1>1, <1>2, <1>3 DEF IInv

(* The ring and its two threads never leave the inductive invariant:       *)
(* pictq_size equals the slots in use but for the two moments at which a   *)
(* thread has moved an index and not yet the size.                         *)
THEOREM InductiveInvariant == Spec => []IInv
<1>1. Init => IInv
  BY InitInv
<1>2. IInv /\ [Next]_vars => IInv'
  <2> SUFFICES ASSUME IInv, [Next]_vars PROVE IInv'
    OBVIOUS
  <2>1. TypeOK'
    BY TypeStep DEF IInv
  <2>2. Counting' /\ VideoState' /\ NoSleepWithRoom'
    BY <2>1, CountingStep DEF IInv
  <2>3. Contents' /\ ShownInOrder'
    BY <2>1, <2>2, ContentsStep DEF IInv
  <2> QED BY <2>1, <2>2, <2>3 DEF IInv
<1> QED BY <1>1, <1>2, PTL DEF Spec

(* Every reachable state of the player's picture ring is well formed: no   *)
(* index leaves the ring and pictq_size stays within it.                   *)
THEOREM TypeCorrect == Spec => []TypeOK
<1>1. IInv => TypeOK
  BY DEF IInv
<1> QED BY <1>1, InductiveInvariant, PTL

(* No picture reaches the screen torn, twice or out of order.              *)
THEOREM OrderCorrect == Spec => []ShownInOrder
<1>1. IInv => ShownInOrder
  BY DEF IInv
<1> QED BY <1>1, InductiveInvariant, PTL

(* queue_picture never sleeps while a slot is free.                        *)
THEOREM WakeCorrect == Spec => []NoSleepWithRoom
<1>1. IInv => NoSleepWithRoom
  BY DEF IInv
<1> QED BY <1>1, InductiveInvariant, PTL

(* Although the slots are not locked, the slot being written is never the  *)
(* slot being shown: pictq_size bounds the distance of the two indexes.    *)
THEOREM ExclusionCorrect == Spec => []SlotExclusive
<1>1. IInv => SlotExclusive
  <2> SUFFICES ASSUME IInv, video \in {"write", "scale"}, main = "display"
               PROVE  pictq_windex # pictq_rindex
    BY DEF SlotExclusive
  <2>1. TypeOK /\ Counting /\ Contents
    BY DEF IInv
  <2>2. pictq_size = Ahead /\ pictq_size < N /\ pictq_size > 0
    BY <2>1, Lengths DEF Counting, Unpublished, Unreleased
  <2>3. Ahead \in 0..N-1 /\ Ahead # 0 /\ 0 \in 0..N-1
    BY <2>1, <2>2, Lengths
  <2>4. SlotFrom(pictq_rindex, Ahead) # SlotFrom(pictq_rindex, 0)
    BY <2>1, <2>3, Lengths, SlotsDiffer
  <2>5. SlotFrom(pictq_rindex, 0) = pictq_rindex
    BY <2>1, Lengths DEF SlotFrom
  <2> QED BY <2>1, <2>4, <2>5 DEF Contents, Slot
<1> QED BY <1>1, InductiveInvariant, PTL

-----------------------------------------------------------------------------
(* What the steps on the event queue of SDL do to the number of refresh    *)
(* events in it.                                                           *)
LEMMA RefreshEventsFinite ==
    ASSUME TypeOK
    PROVE  /\ IsFiniteSet(RefreshEvents) /\ Cardinality(RefreshEvents) \in Nat
           /\ RefreshEvents \subseteq 1..Len(events)
           /\ Len(events) \in Nat
<1>1. RefreshEvents \subseteq 1..Len(events) /\ Len(events) \in Nat
  BY DEF RefreshEvents, TypeOK
<1>2. IsFiniteSet(1..Len(events))
  BY <1>1, FS_Interval
<1>3. IsFiniteSet(RefreshEvents)
  BY <1>1, <1>2, FS_Subset
<1> QED BY <1>1, <1>3, FS_CardinalityType

LEMMA AppendCount ==
    ASSUME TypeOK, NEW e \in OtherEvents \cup {Refresh},
           events' = Append(events, e)
    PROVE  Cardinality(RefreshEvents') =
               Cardinality(RefreshEvents) + (IF e = Refresh THEN 1 ELSE 0)
<1>0. events \in Seq(OtherEvents \cup {Refresh})
  BY DEF TypeOK
<1>1. /\ DOMAIN events = 1..Len(events) /\ Len(events) \in Nat
      /\ DOMAIN events' = 1..(Len(events) + 1)
      /\ events'[Len(events) + 1] = e
      /\ \A i \in 1..Len(events) : events'[i] = events[i]
  BY <1>0
<1>2. CASE e = Refresh
  <2>1. RefreshEvents' = RefreshEvents \cup {Len(events) + 1}
    BY <1>1, <1>2 DEF RefreshEvents
  <2>2. Len(events) + 1 \notin RefreshEvents
    BY <1>1 DEF RefreshEvents
  <2> QED BY <1>2, <2>1, <2>2, RefreshEventsFinite, FS_AddElement
<1>3. CASE e # Refresh
  <2>1. RefreshEvents' = RefreshEvents
    BY <1>1, <1>3 DEF RefreshEvents
  <2> QED BY <1>3, <2>1, RefreshEventsFinite
<1> QED BY <1>2, <1>3

LEMMA TailCount ==
    ASSUME TypeOK, events # <<>>, events' = Tail(events)
    PROVE  /\ Cardinality(RefreshEvents') \in Nat
           /\ Cardinality(RefreshEvents) = Cardinality(RefreshEvents') +
                  (IF Head(events) = Refresh THEN 1 ELSE 0)
<1> DEFINE Later == RefreshEvents \ {1}
           move == [i \in Later |-> i - 1]
<1>0. events \in Seq(OtherEvents \cup {Refresh})
  BY DEF TypeOK
<1>1. /\ DOMAIN events = 1..Len(events) /\ Len(events) \in Nat \ {0}
      /\ DOMAIN events' = 1..(Len(events) - 1)
      /\ events[1] = Head(events)
      /\ \A i \in 1..(Len(events) - 1) : events'[i] = events[i + 1]
  BY <1>0
<1>2. \A i \in Later : i \in Nat /\ i > 1 /\ i - 1 \in RefreshEvents'
  BY <1>1 DEF RefreshEvents
<1>3. \A j \in RefreshEvents' : j \in Nat /\ j + 1 \in Later
  BY <1>1 DEF RefreshEvents
<1>4. move \in Bijection(Later, RefreshEvents')
  <2> HIDE DEF Later
  <2>1. move \in [Later -> RefreshEvents']
    BY <1>2
  <2>2. \A a, b \in Later : move[a] = move[b] => a = b
    BY <1>2
  <2>3. \A j \in RefreshEvents' : \E i \in Later : move[i] = j
    <3> SUFFICES ASSUME NEW j \in RefreshEvents'
                 PROVE  \E i \in Later : move[i] = j
      OBVIOUS
    <3>1. j \in Nat /\ j + 1 \in Later /\ move[j + 1] = (j + 1) - 1
      BY <1>3
    <3> QED BY <3>1
  <2> HIDE DEF move
  <2> QED BY <2>1, <2>2, <2>3, Fun_IsBij
<1>5. IsFiniteSet(Later) /\ Cardinality(Later) =
          IF 1 \in RefreshEvents THEN Cardinality(RefreshEvents) - 1
                                 ELSE Cardinality(RefreshEvents)
  BY RefreshEventsFinite, FS_RemoveElement
<1>6. /\ Cardinality(RefreshEvents') = Cardinality(Later)
      /\ Cardinality(RefreshEvents') \in Nat
  BY <1>4, <1>5, FS_Bijection, FS_CardinalityType DEF ExistsBijection
<1>7. 1 \in RefreshEvents <=> Head(events) = Refresh
  BY <1>1 DEF RefreshEvents
<1> QED BY <1>5, <1>6, <1>7, RefreshEventsFinite

(* What is running of the chains, against what started them, over a step.  *)
LEMMA ChainStep ==
    ASSUME RefreshesAddUp, TypeOK, TypeOK', [Next]_vars
    PROVE  RefreshesAddUp'
<1>0. /\ timers \in Nat /\ timers' \in Nat /\ repeated \in Nat
      /\ waitFails \in Nat /\ Cardinality(RefreshEvents) \in Nat
      /\ lost \in BOOLEAN
  BY RefreshEventsFinite DEF TypeOK
<1>1. Refreshes \in Nat
  BY <1>0 DEF Refreshes
<1>2. ASSUME UNCHANGED <<waitFails, repeated>>, Refreshes' = Refreshes,
             ~lost' => ~lost
      PROVE  RefreshesAddUp'
  BY <1>0, <1>1, <1>2 DEF RefreshesAddUp
<1>3. ASSUME UNCHANGED <<waitFails, repeated>>, Refreshes' = Refreshes - 1,
             lost'
      PROVE  RefreshesAddUp'
  BY <1>0, <1>1, <1>3 DEF RefreshesAddUp
<1>4. CASE UNCHANGED <<timers, events, lost, loopVars>>
           /\ (main = "refresh" <=> main' = "refresh")
  <2>1. Refreshes' = Refreshes
    BY <1>4 DEF Refreshes, RefreshEvents
  <2> QED BY <1>2, <1>4, <2>1 DEF loopVars
<1>5. CASE RefreshNothing \/ RefreshSchedule
  <2>1. main = "refresh" /\ main' # "refresh" /\ ScheduleRefresh
    BY <1>5 DEF RefreshNothing, RefreshSchedule
  <2>2. UNCHANGED <<events, waitFails, repeated>>
    BY <2>1 DEF ScheduleRefresh, loopVars
  <2>3. Cardinality(RefreshEvents') = Cardinality(RefreshEvents)
    BY <2>2 DEF RefreshEvents
  <2>4. CASE timers' = timers + 1 /\ UNCHANGED lost
    <3>1. Refreshes' = Refreshes
      BY <1>0, <2>1, <2>3, <2>4 DEF Refreshes
    <3> QED BY <1>2, <2>2, <2>4, <3>1
  <2>5. CASE lost' /\ UNCHANGED timers
    <3>1. Refreshes' = Refreshes - 1
      BY <1>0, <2>1, <2>3, <2>5 DEF Refreshes
    <3> QED BY <1>3, <2>2, <2>5, <3>1
  <2> QED BY <2>1, <2>4, <2>5 DEF ScheduleRefresh
<1>6. CASE TimerCallback
  <2>1. /\ timers > 0 /\ timers' = timers - 1 /\ main' = main
        /\ UNCHANGED <<waitFails, repeated>>
    BY <1>6 DEF TimerCallback, loopVars
  <2>2. CASE events' = Append(events, Refresh) /\ UNCHANGED lost
    <3>1. Cardinality(RefreshEvents') = Cardinality(RefreshEvents) + 1
      BY <2>2, AppendCount
    <3>2. Refreshes' = Refreshes
      BY <1>0, <2>1, <3>1 DEF Refreshes
    <3> QED BY <1>2, <2>1, <2>2, <3>2
  <2>3. CASE lost' /\ UNCHANGED events
    <3>1. Cardinality(RefreshEvents') = Cardinality(RefreshEvents)
      BY <2>3 DEF RefreshEvents
    <3>2. Refreshes' = Refreshes - 1
      BY <1>0, <2>1, <3>1 DEF Refreshes
    <3> QED BY <1>3, <2>1, <2>3, <3>2
  <2> QED BY <1>6, <2>2, <2>3 DEF TimerCallback
<1>7. ASSUME NEW e \in OtherEvents, OtherEvent(e)
      PROVE  RefreshesAddUp'
  <2>1. /\ events' = Append(events, e) /\ e # Refresh
        /\ UNCHANGED <<timers, lost, main, waitFails, repeated>>
    BY <1>7, OtherEventsAssumption DEF OtherEvent, loopVars
  <2>2. Cardinality(RefreshEvents') = Cardinality(RefreshEvents)
    BY <1>0, <2>1, AppendCount
  <2>3. Refreshes' = Refreshes
    BY <2>1, <2>2 DEF Refreshes
  <2> QED BY <1>2, <2>1, <2>3
<1>8. CASE MainEvent
  <2>1. /\ main = "wait" /\ events # <<>> /\ events' = Tail(events)
        /\ UNCHANGED <<timers, lost, waitFails, repeated>>
        /\ Handle(Head(events))
    BY <1>8 DEF MainEvent
  <2>2. main' = "refresh" <=> Head(events) = Refresh
    BY <2>1 DEF Handle, Refresh, SDL_QUIT, SDLK_ESCAPE
  <2>3. /\ Cardinality(RefreshEvents') \in Nat
        /\ Cardinality(RefreshEvents) = Cardinality(RefreshEvents') +
               (IF Head(events) = Refresh THEN 1 ELSE 0)
    BY <2>1, TailCount
  <2>4. Refreshes' = Refreshes
    BY <1>0, <2>1, <2>2, <2>3 DEF Refreshes
  <2> QED BY <1>2, <2>1, <2>4
<1>9. CASE WaitEventFails
  <2>1. /\ main = "wait" /\ waitFails' = waitFails + 1
        /\ repeated' = IF main' = "refresh" THEN repeated + 1 ELSE repeated
        /\ UNCHANGED <<timers, events, lost>>
    BY <1>9 DEF WaitEventFails
  <2>2. Cardinality(RefreshEvents') = Cardinality(RefreshEvents)
    BY <2>1 DEF RefreshEvents
  <2>3. Refreshes' = Refreshes + (IF main' = "refresh" THEN 1 ELSE 0)
    BY <1>0, <2>1, <2>2 DEF Refreshes
  <2> QED BY <1>0, <1>1, <2>1, <2>3 DEF RefreshesAddUp
<1>10. CASE VideoThread
  <2>1. UNCHANGED <<timers, events, lost, loopVars, main>>
    BY <1>10 DEF VideoThread, OpenVideo, QueuePicture, QueueLock, QueueTest,
                 QueueOverwrite, QueueWritten, QueueNoFrame, QueuePublish,
                 refreshVars
  <2> QED BY <1>4, <2>1
<1>11. CASE VideoDisplay \/ RefreshRelease
  BY <1>4, <1>11 DEF VideoDisplay, RefreshRelease, refreshVars
<1>12. CASE UNCHANGED vars
  BY <1>4, <1>12 DEF vars, refreshVars
<1> QED
  BY <1>5, <1>6, <1>7, <1>8, <1>9, <1>10, <1>11, <1>12 DEF Next, MainThread

(* A refresh is followed by one other: there is one chain of them, and one *)
(* more for each refresh that was handled again for a failing SDL_WaitEvent*)
(* and one fewer only after a timer or an event was lost.                  *)
THEOREM ChainCorrect == Spec => []RefreshesAddUp
<1>1. Init => RefreshesAddUp
  <2> SUFFICES ASSUME Init PROVE RefreshesAddUp
    OBVIOUS
  <2>1. RefreshEvents = {} /\ timers = 1 /\ main = "wait"
        /\ repeated = 0 /\ waitFails = 0
    BY DEF Init, RefreshEvents
  <2> QED BY <2>1, FS_EmptySet DEF RefreshesAddUp, Refreshes
<1>2. RefreshesAddUp /\ TypeOK /\ TypeOK' /\ [Next]_vars => RefreshesAddUp'
  BY ChainStep
<1> QED BY <1>1, <1>2, TypeCorrect, PTL DEF Spec
-----------------------------------------------------------------------------
(* The ring is the channel.  Pictures are queued in the order of their     *)
(* numbers, so that the number in a slot tells which item the slot holds;  *)
(* one number is taken while its picture is on its way into the ring.      *)
Pending ==
    IF video \in {"lock", "size", "asleep", "write", "scale"} THEN 1 ELSE 0

Numbered ==
    /\ Len(queued) + Pending <= decoded
    /\ \A i \in 1..Len(queued) : queued[i] + Pending <= decoded
    /\ \A i, j \in 1..Len(queued) : i < j => queued[i] < queued[j]

LEMMA NumberedStep ==
    ASSUME TypeOK, TypeOK', Numbered, [Next]_vars
    PROVE  Numbered'
<1> USE DEF VideoPlaces
<1>0. /\ queued \in Seq(0..MaxPictures) /\ Len(queued) \in Nat
      /\ decoded \in Nat /\ Pending \in {0, 1}
      /\ \A i \in 1..Len(queued) : queued[i] \in Nat
  <2>1. queued \in Seq(0..MaxPictures) /\ Len(queued) \in Nat
        /\ decoded \in Nat
    BY PictureQueueAssumption DEF TypeOK
  <2>2. Pending \in {0, 1}
    BY DEF Pending
  <2>3. \A i \in 1..Len(queued) : queued[i] \in 0..MaxPictures
    BY <2>1, ElementOfSeq
  <2> QED BY <2>1, <2>2, <2>3, PictureQueueAssumption
<1>1. CASE QueuePicture
  <2>1. /\ queued' = queued /\ decoded' = decoded + 1
        /\ Pending = 0 /\ Pending' = 1
    BY <1>1 DEF QueuePicture, ringVars, Pending
  <2> QED BY <1>0, <2>1 DEF Numbered
<1>2. CASE QueueWritten
  <2>1. /\ queued' = Append(queued, decoded) /\ decoded' = decoded
        /\ Pending = 1 /\ Pending' = 0
    BY <1>2 DEF QueueWritten, Pending
  <2>2. /\ Len(queued') = Len(queued) + 1
        /\ queued'[Len(queued) + 1] = decoded
        /\ \A i \in 1..Len(queued) : queued'[i] = queued[i]
    BY <1>0, <2>1
  <2>3. \A i \in 1..Len(queued) : queued[i] < decoded
    BY <1>0, <2>1 DEF Numbered
  <2>4. \A i \in 1..Len(queued') :
           i \in 1..Len(queued) \/ i = Len(queued) + 1
    BY <1>0, <2>2
  <2>5. \A i \in 1..Len(queued') : queued'[i] + Pending' <= decoded'
    BY <1>0, <2>1, <2>2, <2>3, <2>4
  <2>6. \A i, j \in 1..Len(queued') : i < j => queued'[i] < queued'[j]
    BY <1>0, <2>2, <2>3, <2>4 DEF Numbered
  <2>7. Len(queued') + Pending' <= decoded'
    BY <1>0, <2>1, <2>2 DEF Numbered
  <2> QED BY <2>5, <2>6, <2>7 DEF Numbered
<1>3. CASE /\ UNCHANGED <<queued, decoded>>
           /\ Pending' <= Pending
  BY <1>0, <1>3 DEF Numbered, Pending
<1>4. CASE VideoThread /\ ~QueuePicture /\ ~QueueWritten
  BY <1>3, <1>4 DEF VideoThread, OpenVideo, QueueLock, QueueTest,
     QueueOverwrite, QueueNoFrame, QueuePublish, ringVars, Pending
<1>5. CASE MainThread \/ TimerCallback \/ WaitEventFails \/ UNCHANGED vars
           \/ \E e \in OtherEvents : OtherEvent(e)
  <2>1. CASE MainEvent \/ WaitEventFails
    <3>1. UNCHANGED <<queued, decoded, video>>
      BY <2>1 DEF MainEvent, WaitEventFails, ringVars
    <3> QED BY <1>0, <1>3, <3>1 DEF Pending
  <2>2. CASE RefreshNothing \/ RefreshSchedule \/ VideoDisplay
             \/ TimerCallback \/ UNCHANGED vars
    <3>1. UNCHANGED <<queued, decoded, video>>
      BY <2>2 DEF RefreshNothing, RefreshSchedule, VideoDisplay,
         TimerCallback, ringVars, vars
    <3> QED BY <1>0, <1>3, <3>1 DEF Pending
  <2>3. CASE RefreshRelease
    <3>1. UNCHANGED <<queued, decoded>>
      BY <2>3 DEF RefreshRelease
    <3>2. video' = video \/ (video = "asleep" /\ video' = "lock")
      BY <2>3 DEF RefreshRelease
    <3> QED BY <1>0, <1>3, <3>1, <3>2 DEF Pending
  <2>4. ASSUME NEW e \in OtherEvents, OtherEvent(e) PROVE Numbered'
    <3>1. UNCHANGED <<queued, decoded, video>>
      BY <2>4 DEF OtherEvent, ringVars
    <3> QED BY <1>0, <1>3, <3>1 DEF Pending
  <2> QED BY <1>5, <2>1, <2>2, <2>3, <2>4 DEF MainThread
<1> QED BY <1>1, <1>2, <1>4, <1>5 DEF Next

(* A run of consecutive numbers, which grows at its end and shrinks at its *)
(* head.                                                                   *)
Run(from, n) == [i \in 1..n |-> from + i]

LEMMA RunGrows ==
    ASSUME NEW from \in Nat, NEW n \in Nat
    PROVE  /\ Run(from, n) \in Seq(Nat) /\ Len(Run(from, n)) = n
           /\ Append(Run(from, n), from + n + 1) = Run(from, n + 1)
  BY DEF Run

LEMMA RunShrinks ==
    ASSUME NEW from \in Nat, NEW n \in Nat, n > 0
    PROVE  /\ Run(from, n) # <<>> /\ Head(Run(from, n)) = from + 1
           /\ Tail(Run(from, n)) = Run(from + 1, n - 1)
<1>1. Run(from, n) \in Seq(Nat) /\ Len(Run(from, n)) = n
  BY DEF Run
<1>2. Run(from, n) # <<>> /\ Head(Run(from, n)) = from + 1
  BY <1>1 DEF Run
<1>3. Tail(Run(from, n)) = [i \in 1..(n - 1) |-> Run(from, n)[i + 1]]
  <2> DEFINE s == Run(from, n)
             t == [i \in 1..(n - 1) |-> s[i + 1]]
  <2> HIDE DEF s
  <2>1. s \in Seq(Nat) /\ Len(s) = n /\ s # <<>>
    BY <1>1, <1>2 DEF s
  <2>2. Tail(s) \in Seq(Nat) /\ Len(Tail(s)) = n - 1
    BY <2>1
  <2>3. \A i \in 1..(n - 1) : Tail(s)[i] = s[i + 1]
    BY <2>1
  <2>4. t \in Seq(Nat) /\ Len(t) = n - 1
    <3>1. \A i \in 1..(n - 1) : s[i + 1] \in Nat
      BY <2>1
    <3> QED BY <3>1
  <2>5. \A i \in 1..(n - 1) : t[i] = Tail(s)[i]
    BY <2>3
  <2> HIDE DEF t
  <2>6. Tail(s) = t
    BY <2>2, <2>4, <2>5, SeqEqual
  <2> QED BY <2>6 DEF s, t
<1>4. \A i \in 1..(n - 1) : Run(from, n)[i + 1] = from + 1 + i
  BY DEF Run
<1> QED BY <1>2, <1>3, <1>4 DEF Run

(* The slots in use hold the items that come next.                         *)
HoldsRun ==
    /\ Ahead \in Nat /\ shown \in Nat /\ shown + Ahead = Len(queued)
    /\ InRing = Run(shown, Ahead)

LEMMA RingHoldsRun == IInv /\ Numbered => HoldsRun
<1> SUFFICES ASSUME IInv, Numbered PROVE HoldsRun
  OBVIOUS
<1>1. /\ queued \in Seq(0..MaxPictures) /\ Len(queued) \in Nat
      /\ shown \in Nat /\ Ahead \in 0..N /\ N \in Nat
      /\ shown + Ahead = Len(queued)
      /\ \A i \in 1..Len(queued) : queued[i] \in Nat
  BY Lengths, PictureQueueAssumption DEF IInv, TypeOK, Counting, Ahead
<1>2. ASSUME NEW i \in 1..Ahead
      PROVE  ItemIn(Slot(i - 1)) = shown + i
  <2>1. i - 1 \in 0..N-1 /\ i - 1 < Ahead /\ shown + 1 + (i - 1) = shown + i
        /\ shown + i \in 1..Len(queued)
    BY <1>1
  <2>2. pictq[Slot(i - 1)] = queued[shown + i]
    BY <2>1 DEF IInv, Contents
  <2>3. \A k \in 1..Len(queued) :
           queued[k] = queued[shown + i] => k = shown + i
    BY <1>1, <2>1 DEF Numbered
  <2>4. DOMAIN queued = 1..Len(queued)
    BY <1>1
  <2> QED BY <2>1, <2>2, <2>3, <2>4 DEF ItemIn
<1> QED BY <1>1, <1>2 DEF HoldsRun, InRing, Run

(* Every step of the ring is one of the channel, or none.                  *)
LEMMA RefinementStep ==
    ASSUME IInv, IInv', Numbered, HoldsRun, HoldsRun', [Next]_vars
    PROVE  Channel!Next \/ UNCHANGED Channel!channelVars
<1> USE DEF Channel!channelVars
<1>1. /\ InRing = Run(shown, Ahead) /\ InRing' = Run(shown', Ahead')
      /\ Ahead \in Nat /\ shown \in Nat /\ Ahead' \in Nat /\ shown' \in Nat
      /\ shown + Ahead = Len(queued) /\ shown' + Ahead' = Len(queued')
      /\ Len(queued) \in Nat
  BY Lengths DEF HoldsRun, IInv
<1>2. CASE QueueOverwrite
  <2>1. /\ video = "write" /\ video' = "scale"
        /\ UNCHANGED <<queued, shown, decoded>>
    BY <1>2 DEF QueueOverwrite
  <2>2. Offered = Len(queued) /\ Offered' = Len(queued) + 1
    BY <1>1, <2>1 DEF Offered
  <2>3. Len(queued) < MaxPictures
    <3>1. Len(queued) + 1 <= decoded /\ decoded \in 0..MaxPictures
      BY <2>1 DEF Numbered, Pending, IInv, TypeOK
    <3> QED BY <1>1, <3>1, PictureQueueAssumption
  <2>4. InRing' = InRing
    BY <1>1, <2>1 DEF Ahead
  <2>5. Channel!Offer
    BY <2>1, <2>2, <2>3, <2>4 DEF Channel!Offer
  <2> QED BY <2>5 DEF Channel!Next
<1>3. CASE QueueWritten
  <2>1. /\ video = "scale" /\ video' = "publish"
        /\ queued' = Append(queued, decoded) /\ shown' = shown
    BY <1>3 DEF QueueWritten
  <2>2. Len(queued') = Len(queued) + 1
    BY <2>1 DEF IInv, TypeOK
  <2>3. Offered = Len(queued) + 1 /\ Offered' = Len(queued) + 1
    BY <1>1, <2>1, <2>2 DEF Offered
  <2>4. Ahead' = Ahead + 1 /\ Offered = shown + Ahead + 1
    BY <1>1, <2>1, <2>2, <2>3
  <2>5. InRing' = Append(InRing, Offered) /\ Len(InRing) = Ahead
    BY <1>1, <2>1, <2>4, RunGrows
  <2>6. Ahead' <= N /\ N \in Nat
    BY PictureQueueAssumption DEF IInv, Counting, N
  <2>7. Channel!Accept
    BY <1>1, <2>1, <2>3, <2>4, <2>5, <2>6 DEF Channel!Accept
  <2> QED BY <2>7 DEF Channel!Next
<1>4. CASE VideoDisplay
  <2>1. UNCHANGED <<queued, video>> /\ shown' = shown + 1
    BY <1>4 DEF VideoDisplay
  <2>2. Offered' = Offered /\ Ahead' = Ahead - 1 /\ Ahead > 0
    BY <1>1, <2>1 DEF Offered
  <2>3. InRing # <<>> /\ Head(InRing) = shown + 1 /\ InRing' = Tail(InRing)
    BY <1>1, <2>1, <2>2, RunShrinks
  <2>4. Channel!Deliver
    BY <2>1, <2>2, <2>3 DEF Channel!Deliver
  <2> QED BY <2>4 DEF Channel!Next
<1>5. ASSUME /\ UNCHANGED <<queued, shown>>
             /\ (video = "scale") <=> (video' = "scale")
      PROVE  UNCHANGED Channel!channelVars
  <2>1. Ahead' = Ahead /\ Offered' = Offered
    BY <1>1, <1>5 DEF Offered, Ahead
  <2> QED BY <1>1, <1>5, <2>1
<1>6. CASE OpenVideo \/ QueuePicture \/ QueueLock \/ QueueTest
           \/ QueueNoFrame \/ QueuePublish
  <2>1. (video = "scale") <=> (video' = "scale")
    BY <1>6 DEF OpenVideo, QueuePicture, QueueLock, QueueTest, QueueNoFrame,
       QueuePublish, IInv, VideoState
  <2>2. UNCHANGED <<queued, shown>>
    BY <1>6 DEF OpenVideo, QueuePicture, QueueLock, QueueTest, QueueNoFrame,
       QueuePublish, ringVars
  <2> QED BY <1>5, <2>1, <2>2
<1>7. CASE MainEvent \/ WaitEventFails
  BY <1>5, <1>7 DEF MainEvent, WaitEventFails, ringVars
<1>8. CASE RefreshNothing \/ RefreshSchedule \/ TimerCallback
           \/ UNCHANGED vars
  BY <1>5, <1>8 DEF RefreshNothing, RefreshSchedule, TimerCallback,
     ringVars, vars
<1>9. CASE RefreshRelease
  BY <1>5, <1>9 DEF RefreshRelease
<1>10. ASSUME NEW e \in OtherEvents, OtherEvent(e)
       PROVE  UNCHANGED Channel!channelVars
  BY <1>5, <1>10 DEF OtherEvent, ringVars
<1> QED
  BY <1>2, <1>3, <1>4, <1>6, <1>7, <1>8, <1>9, <1>10
     DEF Next, VideoThread, MainThread

(* The ring, its two unlocked indexes and the two threads do what a bounded*)
(* first-in first-out channel does: no picture leaves but in its turn, and *)
(* none enters a full ring.                                                *)
THEOREM Refinement == Spec => ImplementsChannel
<1>1. Init => Numbered /\ Channel!Init
  <2> SUFFICES ASSUME Init PROVE Numbered /\ Channel!Init
    OBVIOUS
  <2>1. Numbered /\ Ahead = 0 /\ shown = 0 /\ queued = <<>>
        /\ video = "closed"
    BY DEF Init, Numbered, Pending, Ahead
  <2>2. InRing = <<>> /\ Offered = 0
    BY <2>1 DEF InRing, Offered
  <2> QED BY <2>1, <2>2 DEF Channel!Init
<1>2. TypeOK /\ TypeOK' /\ Numbered /\ [Next]_vars => Numbered'
  BY NumberedStep
<1>3. IInv /\ IInv' /\ Numbered /\ HoldsRun /\ HoldsRun' /\ [Next]_vars
         => [Channel!Next]_(Channel!channelVars)
  BY RefinementStep
<1> QED
  BY <1>1, <1>2, <1>3, RingHoldsRun, InductiveInvariant, TypeCorrect, PTL
     DEF Spec, ImplementsChannel, Channel!Spec

=============================================================================
