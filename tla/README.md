# SuperStreaming in TLA+

SuperStreaming makes a film smaller by leaving out frames that a decoder can
interpolate, and plays the smaller film with those frames put back. It has two
programs of its own. The *transcoder* (`src/video_skipping`) reads a film, drops
the middle frame of a triple when its neighbours can replace it, and writes the
film and an *index*: one line for every frame of the original, with its timestamp
and a flag that tells whether the frame is in the film. The *player*
(`src/video_player`) reads the film and the index and shows one picture for each
line. Both are multi-threaded C++ around libav and SDL, with hand-written queues
between the threads. A third program, the *streaming server*
(`src/live555_server`), is the live555 library with a server of it: one thread, an
event loop, timers, sockets and the sessions of its clients.

The queues, the bookkeeping of timestamps and index lines, the clocks and the end
of the stream are what this project specifies of the first two; of the server,
the event loop, the reception of RTP and the lifetime of media sessions. The
other directories are listed under *Not modelled*.

In what follows `live` stands for `live555_server/live`.

## The system

| component | state | operations | talks to |
|---|---|---|---|
| stage queue (`queue.h`) | `queue_`, `size_max_`, `quit_`, `finished_`, a mutex, two condition variables | `push`, `pop`, `finished`, `quit` | the stages of the transcoder |
| transcoder stages (`VideoContext.cpp`) | `next_pts`, `delta_pts`, `skipped_count`, `ready_frames`, `exception_`, the codecs | `demultiplex`, `decode`, `processFrames`, `encode`, one thread each | each other over three stage queues; the film and index files |
| packet queue (`player.h`) | a linked list, `nb_packets`, `size`, a mutex and a condition | `packet_queue_put`, `packet_queue_get`; ended by `finished_decoding` | `decode_thread` puts, `video_thread` or the audio callback gets |
| picture ring (`player.h`) | `pictq[3]`, `pictq_windex`, `pictq_rindex`, `pictq_size` | `queue_picture`, `alloc_picture` | `video_thread` writes, the main thread shows |
| refresh loop (`player.h`, `main.cpp`) | SDL timers, the SDL event queue | `schedule_refresh`, the timer callback, `video_refresh_timer`, the event loop | the ring; the user |
| player threads (`player.h`) | `finished_decoding`, the decoders, the index stream | `decode_thread`, `video_thread`, `readNextIndex`, `audio_callback`, `audio_decode_frame` | packet queues, ring |
| sound (`player.h`) | `audio_buf`, its size and index, the static `audio_pkt_size`, `audio_clock` | `audio_callback`, `audio_decode_frame` | the audio packet queue, the audio device, the refresh loop |
| clocks (`player.h`) | `video_clock`, `frame_timer`, `frame_last_pts`, `frame_last_delay` | `synchronize_video`, the delay of `video_refresh_timer`, `get_audio_clock` | the ring, the sound |
| timers (`live/BasicUsageEnvironment/DelayQueue.cpp`) | a list of tasks with the time between them, `fLastSyncTime` | `scheduleDelayedTask`, `unscheduleDelayedTask`, `timeToNextAlarm`, `handleAlarm` | everything in the server |
| event loop (`live/BasicUsageEnvironment/BasicTaskScheduler*.cpp`) | the list of handlers, the socket sets, `fMaxNumSockets`, `fLastHandledSocketNum` | `setBackgroundHandling`, `moveSocketHandling`, `SingleStep` | timers, sockets |
| RTP reception (`live/liveMedia/MultiFramedRTPSource.cpp`) | the reordering buffer, `fNeedDelivery`, `fPacketLossInFragmentedFrame` | `networkReadHandler1`, `storePacket`, `doGetNextFrame`, `doGetNextFrame1` | the network, a client that takes frames |
| media sessions (`GenericMediaServer.cpp`, `RTSPServer.cpp`, `DynamicRTSPServer.cpp`) | the table of `ServerMediaSession`s with their reference counts, client sessions | `DESCRIBE`, `SETUP`, `TEARDOWN`, the liveness timer | event loop, timers, files |

What is hard in each, and what makes it right:

- **Stage queue.** `finished()` and `quit()` set their flags and notify without the
  mutex, so they fall between any two steps of a `push` or `pop`. Right: items
  leave in order, none lost; no thread sleeps on a condition that holds; a
  failing `pop` means that the stream is drained.
- **Transcoder.** Frames are renumbered so that no gap remains where one was
  dropped, while the index must keep the original timestamps; each stage can
  meet an error or throw at any time while the others run. Right: the index lists
  the input's pictures in order, the n-th kept line is the n-th frame of the output,
  output timestamps increase without gaps, a normal return means a complete
  output, and the threads end.
- **Packet queue.** `finished_decoding` is read without a lock and set without a
  signal. Right: order, no sleep on a packet, the end reported only when drained.
- **Picture ring.** Slots are read and written without a lock; only `pictq_size`,
  which lags behind, keeps writer and reader apart. Right: pictures shown whole
  and in order, no slot written while shown, no sleep while there is room.
- **Refresh loop.** Each refresh schedules the next, and the event loop handles
  whatever is in its event variable. Right: every refresh is followed by exactly one,
  on every path.
- **Player threads.** `decode_thread` waits for whichever queue is full; frames and
  index lines are matched by counting only. Right: bounded queues, line i shown
  with the right frame, sound in order, the film read and shown to its end.
- **Sound.** What is left of a packet or a frame is kept from one call to the next
  in statics, and the main thread computes the clock from three variables that it
  reads one after the other without a lock. Right: every frame
  written whole and once, silence only where it is meant, a clock that is never far
  from what is heard.
- **Clocks.** `frame_timer` only adds up delays, which are computed from timestamps
  that may be anything. Right: a bounded sleep, picture and sound together.
- **Timers.** The list knows differences only, and the time of day may be set.
  Right: nothing early, no sleep past a task, the order of the deadlines.
- **Event loop.** Handlers set, clear and move handlers, their own included, while
  the loop walks over the list; `fMaxNumSockets` only goes down by one at a time.
  Right: select is given every socket with a handler and no closed one, and every
  readable socket gets its turn.
- **RTP reception.** Sequence numbers wrap around; packets are lost, repeated and
  reordered, and another sender may take over. Right: frames whole and in order, a
  loss costs what it touches.
- **Media sessions.** The object of a file is removed by name while sessions use
  it, and looking at a file enters the event loop again, in which other requests
  are handled and the session whose request waits may be deleted. Right: no object deleted while used, none left behind, silent
  clients reclaimed.

## The modules

    FifoChannel            what a queue promises (abstract)
      BoundedQueue         queue.h, refines FifoChannel
        BoundedQueueProofs
      PacketQueue          packet_queue_*, refines FifoChannel
        PacketQueueProofs
      PictureQueue         ring, refresh loop and event loop, refines FifoChannel
        PictureQueueProofs
    SkippingPipeline       the four stages over three channels
      SkippingPipelineProofs
    Player                 the player's threads over two packet queues and the ring
      PlayerProofs
    AudioDecode            audio_decode_frame, audio_callback, the audio clock
      AudioDecodeProofs
    RefreshTimer           synchronize_video and the delay of video_refresh_timer
      RefreshTimerProofs
    Timers                 what scheduled tasks are promised (abstract)
      DelayQueue           DelayQueue.cpp, refines Timers
    TaskScheduler          the sockets of the event loop
    RtpReordering          MultiFramedRTPSource.cpp
    MediaSessions          the server's media and client sessions
      ServerProofs         of DelayQueue, TaskScheduler, RtpReordering, MediaSessions

Each `MC...` module holds the inputs of one component's runs. Operators named
`Mutant...` stand before the definition they break, with a comment that says how;
for every property of a passing run `PROJECT.json` names one that violates it.
They belong to no specification.

`ServerProofs` extends four components at once; in three of them `Init`, `Next`,
`Spec` and the like therefore have names of their own (`RtpInit`, `DelayNext`, ...).

**FifoChannel.** Offer, Accept, Deliver, Close (finished), Break (quit) and End
(a consumer is told that nothing will come). Items are numbers in the order of
their offering; an item is delivered only as the successor of the last one.

**BoundedQueue.** One Producer, a set of Consumers and Others that only quit. The
place `pc` of a thread is a point of `push`, `pop`, `finished` or `quit` at which
another thread can intervene: the loop condition (`PushTest`, `PopTest`), the
critical part (`PushStore`/`PushWait`, `PopTake`/`PopEmpty`), the second read of the
flags (`PopRefuse`), the wait (`PopWait`) and each notification
(`FinishNotify`, `QuitNotifyEmpty`, `QuitNotifyFull`). The mutex and the two wait
sets are explicit. `SpuriousWake` is a wakeup without notification.

**SkippingPipeline.** A stage queue is a record (items, finished, quit) used as
FifoChannel describes it; a `push` or `pop` is one step, enabled when the call can
return. FifoChannel does not promise that a waiting call hears of `finished()` and
`quit()`, and the stage queue does not keep such a promise (`queue_lost_wakeup`): at
each of the two, any of the stages that wait on the queue may miss the notification
(`MayMiss`), and is then `deaf` until the next one. Each stage has actions for its pop, its processing and its push, and
`Throw`/`CatchQuit` for its handler, which quits queues one at a time. `ProcessPop`
takes up to three frames with their renumbering, `ProcessDrop` and `ProcessKeep`
are the two answers of `shouldSkip`, `ProcessIndex` writes a line and `ProcessPush`
hands the frame on. The decoder and the encoder are sequences that hold back
`DecoderDelay` and `EncoderDelay` elements until flushed.

**PacketQueue.** `list` holds the `AVPacketList`s with their `next`; `first_pkt`,
`last_pkt`, `nb_packets` and `size` are the code's. `GetTest` is the test of `size`
and `finished_decoding`, `GetTake` the unlinking, `GetWait` the wait. `bytes` is a
history of the bytes put, which gives `size` its meaning.

**PictureQueue.** `QueueLock`, `QueueTest`, `QueueOverwrite`, `QueueWritten`,
`QueueNoFrame` and `QueuePublish` are `queue_picture`, split where the mutex is taken
and released; a slot is `Torn` while it is scaled. `RefreshNothing`,
`RefreshSchedule`, `VideoDisplay` and `RefreshRelease` are `video_refresh_timer`,
`TimerCallback` the timer thread, `MainEvent` the event loop with its two switches.
An event carries the word that `keysym.sym` reads, whatever its type. `WaitEventFails`
is the failure of `SDL_WaitEvent`, after which the code handles the event that is
still in its variable once more.

**Player.** One variable says where each thread is. `OpenVideo` ... `DecodeFinish` are
`decode_thread`, `VideoGet` ... `QueueParent` are `video_thread` with `readNextIndex`
and the wait of `queue_picture`, `AudioGet` ... `AudioDrain` are
`audio_decode_frame` as the audio device calls it again and again; `AudioReject` and
`AudioDrain` are what follows when the decoder rejects a packet. `DecodeRetry` is the
branch that waits and reads again. `ShowPicture`
and `UserQuits` the main thread. The queues are sequences with a size, because
PacketQueue and PictureQueue show that this is what they are; a get that finds
nothing sleeps until a put wakes it, as there.

**AudioDecode.** `at` is where the audio thread is: outside, in the loop of
`audio_decode_frame` before a send or a receive, asleep in the get, or writing. A
packet has a size, perhaps a pts, and the sizes of its frames; the decoder holds
one packet and one frame and, like libavcodec, takes no packet while it has one.
`ReadClock`, `ReadSize` and `ReadIndex` are the three reads of `get_audio_clock` in the
main thread, with any steps of the audio thread in between.

**RefreshTimer.** `DecodeFrame` gives a frame its time (`synchronize_video`), and
`VideoRefreshTimer` is one call of `video_refresh_timer` with a picture in the ring.
Time is counted in `AV_SYNC_THRESHOLD`, 10 ms. `Tick` lets it go by; the refresh may
be late by `MaxIdle` in all, and the sound may stand still for `MaxSilence`. The audio
clock is not the sound: each call reads any value from `MaxLag` behind what was heard
to `MaxLead` ahead of it (`AudioClocks`), as `ClockLead` of AudioDecode bounds it.

**DelayQueue.** `queue` is the list of tasks with their deltas; `Select`,
`SelectReturns`, `handleAlarm` and `TaskReturns` are `SingleStep` as far as timers are
concerned, and a handler may schedule and cancel in between. `SetTime` sets the time
of day. `counted`, `due`, `earliest` and `latest` are histories.

**TaskScheduler.** The list of handlers, the read set and `fMaxNumSockets`, with
`SetHandling`, `ClearHandling`, `ChangePort` (which moves a handler to the socket that
is opened in place of another) and `closeSockets`. `SingleStep` is the choice of
the socket whose handler is called, among those that select found readable or, when
it was interrupted by a signal, among all. The system gives the lowest free number to a
new socket, as POSIX has it, and may give one that does not fit the sets.

**RtpReordering.** `networkReadHandler1` has `storePacket` in it and the change of the
sender; then the loop of `doGetNextFrame1` takes packets (`RejectHeader`,
`RejectUnusable`, `Use`) until it has a frame or has to wait. A packet may hold several
frames, of which each `Use` takes one, or none. `used`, `next` and `delivered` are
histories, and `astray` says that the sequence numbers no longer tell the order:
that the sender changed while packets waited, or is half the range ahead of what is
expected.

**MediaSessions.** `objects` has the table and the `ServerMediaSession`s with their
counts and `fDeleteWhenUnreferenced`. `calls` is the stack of requests whose handling
has entered the event loop again: `handleCmd_DESCRIBE` and `handleCmd_SETUP` push,
`LookUpReturns` and `DescriptionIsMade` go on with the top. A session may be deleted
while its SETUP waits; `SetUpDeleted` goes on with what the freed memory holds. The
objects that were counted for such a SETUP, which nothing will release, are `strays`.

## What is checked

Twelve runs, eleven of which pass:

| run | what it asks | bounds |
|---|---|---|
| `queue_stages` | the inductive invariant `IInv` (which contains `Fifo`, `NoSleepOnData` and `EndMeansDrained`), `ImplementsChannel`, `AcceptedIsDelivered`, `PushReturns` | 1 producer, 2 consumers, 1 other stage, capacity 2, 3 items, 1 spurious wakeup |
| `pipeline_stages` | `IndexFaithful`, `IndexAligned`, `GapFree`, `Complete`, `Ends` | 4 films of up to 8 packets, capacity 2, delays 1, 2 kinds of failure in a run |
| `packet_list` | `IInv`, `ImplementsChannel`, `PacketIsTaken` | 5 packets of 1 or 2 bytes |
| `picture_ring` | `RefreshesAddUp`, `IInv`, `ImplementsChannel`, `QueuedIsShown` | 3 slots as in the code, 5 pictures, 1 event of the user, 1 failure of `SDL_WaitEvent` |
| `player_film` | `QueueBounds`, `ShownByIndex`, `IndexSuffices`, `HeardInOrder`, `PlayedToEnd` | 26 films of up to 9 packets, 3 slots, limits 2 bytes, decoder delays of 1 |
| `audio_frames` | `InOrder`, `SilentAtTheEnds`, `ClockLead`, `HeardToEnd` | every film of 4 packets with frames of 1 or 3, with or without a pts, and two more; the device asks for 2, an error gives 3 of silence |
| `refresh_delay` | `SleepBounded`, `InSync`, `TimesIncrease` | 34 films of 6 or 7 frames, 3 slots, 45 units of time, 5 late, 2 without sound, the clock 2 ahead or 1 behind |
| `delay_queue` | `DeltasAddUp`, `ImplementsTimers`, `NotEarly`, `SleepsUntilDue` | delays 0, 1, 3; 3 tasks; 5 units of time; the time of day set on by 3 or back by 2, twice |
| `server_sockets` | `SelectSeesAll`, `HandledInTurn` | 5 sockets, of which 4 fit the sets |
| `rtp_reorder` | `ListInOrder`, `WholeFrames`, `NothingElseLost` | 4 streams of 7 packets and another sender's 2, numbers below 8 starting at 5, 4 packets waiting |
| `media_sessions` | `ReferencesExact`, `NotLeaked`, `Reclaimed` | 4 objects, 2 client sessions, 2 tracks, reclamation after 1, 2 calls under way |

A type invariant is a conjunct of the first invariant of its module. The run that
fails, `queue_lost_wakeup`, checks what `queue.h:34` says of `finished()`: its
notification may fall between a pop's read of the flag and its wait, and that pop
then sleeps for ever.

Why the bounds are enough. The stage queue is full with 2 items and must then
wrap with a third, and two consumers are what it takes for one to steal the item
another was woken for. In the pipeline the longest film gives two full triples,
so that a second drop happens while frames are renumbered for the first, and
another one a triple and a rest; the films have a constant rate, a variable rate,
fewer frames than a triple and a corrupt packet, and every stage may throw at any
time, two of them or one besides a failing call in one run. In the ring 5 pictures
wrap around the 3 slots. In the player every choice of drops before the four
frames of a film is tried, the limits are low enough for each queue to be full
while the other is empty, and there are films whose index is too short, exact,
wrong or missing, films without sound or picture, and films whose sound is rejected
at once or in the middle. Frames of the sound are
shorter and longer than what the device asks for, so that a call needs several
frames and a frame several calls. Six frames go round the ring twice, and the
intervals of the films are longer than the least delay, where picture and
sound must stay together; other films have a step back, a leap and no pts. Three
timers are what it takes to insert between two. In the scheduler one socket more
than fits shows what is ignored. The numbers of the RTP streams wrap around after
three packets, and any packet of the last half of their range may arrive, whatever
arrived before; the second sender takes over, and the first one again, at any time. With
four media objects, two clients, each with a call under way, always find a free
one. The theorems below remove the bounds for the refinements and for every safety
property of the passing runs; what is left to the runs is liveness.

Fairness. Weak fairness for each thread, which the operating system's scheduler
justifies: a thread that can go on does so in the end. In `queue_stages` it is split
by call, because a stage may stop calling once it is refused; `MaxRefusals` is 2
because `encode` pops once more after the pop that fails. Timers that were set do
fire. None for quitting, the user, an exception, an error or a spurious wakeup.
For `Player` it includes that a queued picture is shown some time, which
`QueuedIsShown` establishes of the refresh loop; that one exempts a run in which a
timer or an event was lost (`lost`), for then the code really stops. `av_read_frame`
may fail for ever, which `PlayedToEnd` says. For
`SkippingPipeline` a stage that has missed a notification may sleep for ever, which
`Ends` says. For
`AudioDecode` each of the two threads goes on. For `TaskScheduler` only the event loop
is fair: `HandledInTurn` exempts a run in which a handler is cleared for ever just
after it was called, in which the code does starve others. For `MediaSessions` time
goes by and the tasks that are due are done, in whichever event loop is entered;
nothing is asked of the calls that wait. `RefreshTimer`, `DelayQueue` and `RtpReordering` have only
safety properties: what must happen there is that the others go on.

## Known defects

Things the code does, met while modelling, that its authors hardly mean. The
models have them unless it says otherwise, and the properties are stated around
them, so that a correction of the code makes a property stronger.

Transcoder: the one or two frames of an incomplete last triple are discarded
(`VideoContext.cpp:513`), although `:494` says that frames read are put into the next
queue. A packet that the decoder rejects is tried for ever (`:461`). `!index == stream`
(`:455`) lets packets of other streams into the video decoder. -1 is both "nothing
dropped" and a legal timestamp (`:525`). When an audio packet cannot be written or
the encoder refuses a frame, the stage ends without telling the others, which then
wait for ever. A stage that tests the flags just before `finished()` or `quit()` sets
them sleeps on (`queue.h:90`, `queue_lost_wakeup`), also at the end of a film in which
nothing failed. `Ends` names all of these.

Player: `finished_decoding` is set without a signal (`player.h:1589`), and a consumer
asleep does not wake. Mouse coordinates are read as keys (`main.cpp:79`): a mouse at
column 27 or 256 ends the player. A failure of `SDL_WaitEvent` is printed, and the
event before it handled again (`main.cpp:72`): if that was a refresh, there are two
refreshes for each from then on; `RefreshesAddUp` counts them. A film read before its first sound is decoded
stays silent (`player.h:696`). An audio packet that the decoder rejects leaves `audio_pkt_size`
positive, so that the next call sends an empty packet, which ends the stream for the
decoder (`:713`): the sound is silent from then on, nobody takes its packets any
more, and once `audioq` is full `decode_thread` waits for ever, the pictures
included; so it does behind `videoq` when `video_thread` has ended for a rejected
packet. `PlayedToEnd` exempts both (`Abandoned`). The audio clock moves on by twice the length of a frame (`:757`)
until the next packet with a pts corrects it; `ClockLead` says by how much it is
wrong. A refused timer is only printed, and ends the refreshes for good
(`:1758`). Without an index `readNextIndex` ends the process at the first frame, so
the branch "Just add frames no skipping mode" (`:1233`) is dead: it is left out of
`Player`, whose `PlainFilm` ends that way. The frames that the decoder holds back at
the end of a film are never shown; `PlayedToEnd` says so. A film without sound is
opened and never read (`:1547`); a stream that is not a file has no `pb` to ask for an
error (`:1591`). The bounds of the correction in `synchronize_audio` are 0 and 1 in
integers (`:593`), which matters only if the audio is not the master.

Server: a media session that was removed, when its last user goes, removes by its
name the newer one of the table (`GenericMediaServer.cpp:49`, `:278`); one that is in
use is then never deleted (`pushedOut`). A session can be deleted by its liveness
timer, or by a TEARDOWN, in the event loop that its own SETUP has entered
(`DynamicRTSPServer.cpp:216`). `RTSPServer.cpp:898` says that this may happen and guards
what comes after the SETUP, but the SETUP itself goes on with the freed memory
(`:1273`): it may count a reference that nobody releases (`strays`), or change a
session made since in the same place. What else a write to freed memory breaks, and
the PLAY that follows a SETUP of such a session (`:783`), the model leaves out. A DESCRIBE or first SETUP of one client
between two SETUPs of another makes the second of them fail
(`RTSPServer.cpp:1277`, `DynamicRTSPServer.cpp:67`). Calls that wait in nested event
loops return in the reverse order of their beginning (`DynamicRTSPServer.cpp:216`).
A packet with a wrong header is left out before the loss ahead of it is noted
(`MultiFramedRTPSource.cpp:148`), so that a frame with a hole can be delivered; and
if it should have completed a frame, what was used of that frame stays in the
buffer, and the next frame is delivered behind it. `WholeFrames` and
`NothingElseLost` exempt just these frames. After a change of the sender (SSRC) with
packets of the one before in the list, the packet that is expected is one of the new
sender, and the comparisons with those in the list mean nothing
(`MultiFramedRTPSource.cpp:307`, whose comment says that the case is handled): packets
of the new sender may be dropped as duplicates or as too late, frames be made of
both, and the assertion of `:601` does not hold. The same is true of a sender that
gets half the range of the numbers ahead while nobody takes packets. The three
properties exempt what follows, until the client stops or another change finds the
list empty (`astray`). A gap is only looked at again when another packet
arrives (`:602`). Two sockets whose handlers are cleared and set in turn starve a
third (`BasicTaskScheduler.cpp:138`). Not in the models: `fReclamationSeconds` times a
million wraps in 32 bits above 4294 s (`GenericMediaServer.cpp:294`); ending a stream
over TCP clears the alternative byte handler before it removes the stream's socket
(`OnDemandServerMediaSubsession.cpp`); a track that is set up over TCP and then again
over UDP keeps its TCP socket number (`RTSPServer.cpp`).

## What is proved

TLAPS checks the following for every value of the constants (any capacity,
number of threads, packets, pictures, films), from the assumptions in the
modules and nothing else.

*BoundedQueueProofs.* `InductiveInvariant`: in every reachable state `IInv` holds.
`Fifo` is not inductive, since it does not know that the producer is inside one
push only; `IInv` adds who holds the mutex (`MutexOwned`), which calls a thread can
be in (`Roles`), what the flags imply (`Flags`), that a consumer about to wait has
seen the queue empty (`Blocking`) and by how much the accepted items lag behind the
offered ones (`Behind`). The step is split in two: `ControlStep` for places and
flags, `DataStep` for contents. `TypeCorrect`, `FifoCorrect`, `NoSleepCorrect` and
`EndCorrect` follow. `Refinement` shows that the queue implements `FifoChannel`: each
step is a channel step or leaves the channel as it is.

*PictureQueueProofs.* `pictq_size` is wrong by one between the write of a slot
and its publication, and between the display of one and its release. `Counting`
states the exact lag, `Contents` that the slots from `pictq_rindex` on hold the
pictures not yet shown. From `IInv`: `OrderCorrect`, `WakeCorrect`, and
`ExclusionCorrect`, which needs both lags: the writer's slot is the reader's only if
the ring is full or empty, and the writer waits in the one case and the reader in
the other. `ChainCorrect`: every refresh is followed by one, so that there are as many
on their way as chains were begun, which is one and one more for each refresh that
was handled again after a failure of `SDL_WaitEvent`, less those that a refused timer
or event ended. `RefreshesAddUp` is inductive with the type invariant, and counts the
events in the queue by the cardinality of their places. `OtherEventsAssumption` says
that no event of the user is a refresh. `Refinement`: the ring implements
FifoChannel, item k being the k-th picture that a frame was had for. The numbers in
`queued` increase (`Numbered`), so the slots between the indexes hold consecutive
items (`RingHoldsRun`): `QueueOverwrite` offers, `QueueWritten` accepts, `VideoDisplay`
delivers, and every other step stutters.

*PacketQueueProofs.* `Links`: the elements put and not yet taken form one chain
from `first_pkt` to `last_pkt`. `Counts`: `nb_packets` is its length and `size` the bytes
in it, so that `size <= 0` holds exactly for the empty chain; this is where the
assumption is needed that no packet has size 0. `TypeCorrect`, `OrderCorrect`,
`WakeCorrect` and `EndCorrect` follow. `Refinement`: the list implements FifoChannel.
The mapping follows the pointers by a recursive function; that it exists, and that
what it collects is the run of packets put and not taken, is shown by a least
counterexample over the natural numbers (`next` of each element is the following one
or NULL).

*SkippingPipelineProofs.* `AlignmentCorrect` (`IndexAligned`): the n-th kept line of the
index is the n-th frame handed to the encoder. `IndexCorrect` (`IndexFaithful`) and
`GapsCorrect` (`GapFree`): the index lists the pictures of the input in order with their
own timestamps, and those of the output have no gap where a frame was dropped. The
invariant `Safe` has where each stage is (`Control`), what its queues say of their
producers and consumers (`Queuing`), the shape of what is in hand (`Data`, `Shape`) and
in which order the frames are in the decoder, the queues and the triple (`Ordered`,
`Aligned`). For the timestamps `Spaced` relates `next_pts` and `delta_pts` to the frames
renumbered so far. That a stage which throws quits the queue of frames first is what
keeps `processFrames` from writing a line after the others have given up. The last two
theorems assume `StreamsTold`, that the test `!index == stream` (`VideoContext.cpp:455`)
lets the packets of the picture and no others into the video decoder: with the
precedence of `!` that depends on the numbers of the streams. `TwoStreams` shows that
it is so when the picture has number 0, the sound 1, and there is no third.
Assumed of the decoder: it gives the pictures in the order of their packets.
`CompleteCorrect` (`Complete`), under the same premise: a run in which nothing fails
loses nothing but what the known defects name. `Flowing` follows the pictures from
the file to the output: a decoder that gives one only when it has more than the
`DecoderDelay` pictures it keeps (`Kept`), whole triples until the input ends (`Tripled`), the frames
handed on as those written, then those in the encoder, then those in the queue
(`Encoded`), and that the encoder is flushed only when that queue is drained
(`Flushing`). None of this is asked of a run once a stage has failed (`Calm`).

*PlayerProofs.* `BoundsCorrect`: neither packet queue exceeds its limit by more than
one of its own packets. The invariant is `ReadWithRoom`: the room that
`decode_thread` saw without a lock is still there when it puts, because nobody
else puts. `ShownCorrect` (`ShownByIndex`), `IndexSufficesCorrect` (`IndexSuffices`) and
`HeardCorrect` (`HeardInOrder`) follow from `FilmInv`, for all films and any delays of the
decoders. Frames and lines are matched by counting only, and so is the proof: a
queue holds the packets that follow those taken from it (`Queued`), the video decoder
the frames that follow those it has given (`Watched`), the audio decoder those that
follow the ones heard (`Listened`, as long as no packet was rejected: `Sound` has how
the callback falls silent), and at each place of `video_thread` the kept lines
read so far are the frames given, or one less while the parent of a dropped frame is
in hand (`Placed`). `Queued` also makes the size of a queue the sum of its packets, hence
never negative. `PacketsUpTo` and `ParentLines` are recursive functions; that they are
what their definitions describe is shown once (`Recursion`, `CountingUp`).

*AudioDecodeProofs.* `OrderCorrect` (`InOrder`): the frames are written to the device
in order, each whole and in one piece, and in a simple film (one frame that can be
decoded to a packet) none is left out; `SilenceCorrect` (`SilentAtTheEnds`): in such a
film there is silence only at its ends. The decoder may hold a frame that is ready,
the rest of a packet and a packet more: `Ordered` says that all of them come after the
frame returned last. That rests on a packet being sent once at most, although
`audio_pkt_size` outlives the call and the packet does not: while a packet is to be
sent, `audio_pkt_size` is its size and all that the decoder holds is of packets before
it (`CallInv`). `BufferInv` ties what was written to `audio_buf_index`: the buffer has
been written to its end when it is filled again. In a simple film the decoder holds
exactly the frame of the last packet sent (`SimpleInv`), so that it answers EAGAIN only
for the first packet; the early `return -1` once `finished_decoding` is set can thus
cost sound only if not one frame was decoded by then. `LeadCorrect` (`ClockLead`): in
such a film what `get_audio_clock` returns is no more than a buffer behind the sound
heard when it began, and ahead of that by three frames at most, one more for each
packet without a pts since the last one with it, and a buffer. The clock is compared
with where the packet sent last begins (`ClockInv`): each frame returned moves it on
by twice its length, the next pts sets it right. The size and the index of the
buffer are changed one after the other and belong to different frames in between,
which `SwapInv` bounds. The call reads the two and the clock one after the other
while the audio thread goes on for as long as it likes, so that the three may belong
to different packets; what bounds the result is that the index is never beyond a
buffer, whichever one it belongs to, and that the clock was read against the sound
of that moment.

*RefreshTimerProofs.* `SleepCorrect`: the player never sleeps longer than twice the
last delay, whatever the timestamps and the clocks are, and not at all, but for the
least delay, after a picture that the clock says is late by the threshold. `SleepBounded` is
inductive as it stands: a refresh is never before `due`, so that `frame_timer`, which
was not ahead of it, is not ahead of the present when the next delay is added. The
only assumption on the constants is that the first delay is between 0 and a second.
`TimesCorrect` (`TimesIncrease`): the pictures of the ring have increasing times, also
those that `synchronize_video` had to guess. `ClockBetween` keeps `video_clock` after
every picture in the ring and, by what the frames without a pts may add, before the
next frame that has one. `Spaced`, the premise of the property, asks of the film what
that takes: at most two repeats of a frame and enough room between two frames.
`SyncCorrect` (`InSync`): in a film whose intervals are longer than the least delay
and shorter than a second (`Regular`), picture and sound differ by no more than two
intervals, the time that was lost and what the clock may be wrong by, if that is a
difference which is corrected at all (`Corrected`), although every picture is
corrected by another reading of the clock. The invariant is about two quantities:
`Drift`, by which the picture shown will be ahead when the next is due, and `Behind`,
by which `frame_timer` is behind the time then. While pictures that seem late are
caught up, each shown after the least delay, `frame_timer` falls behind, up to twice
the time lost; the pictures that follow are due at once, early ones among them,
until it has caught up. `Within` has the inequalities between the two that one call
keeps; the last one bounds `Behind` and twice `Drift` together, and is why only half of
what two readings may differ by enters the bound (`Slack`). Both premises are
needed: at intervals of the least delay `frame_timer` falls behind without a bound,
and beyond `NoSync` nothing is corrected.

*ServerProofs.* `ReferencesCorrect` (`ReferencesExact`): the count of every
`ServerMediaSession` is the number of client sessions that use it, so that none is
deleted while it is used; `LeakCorrect` (`NotLeaked`): none is left behind without a
user once it is out of the table, except in the two ways that `pushedOut` and `strays`
name. The number of the sessions includes those that are deleted while their SETUP
waits (`CallsForget`: the calls under way keep the objects that they use). The
counts are cardinalities of sets that gain or lose one client at a time (`Counted`);
`Good` says what a request under way knows of the object it has found when the
nested event loop returns to it. The clients are assumed to be finitely many.
`SelectCorrect` (`SelectSeesAll`) is inductive as it stands: `fMaxNumSockets` is
lowered only when the socket taken out was the highest possible, and the socket that
replaces another one has a number no greater, hence one that fits the sets.
`ListCorrect` (`ListInOrder`): as long as the numbers are not astray, the sender is not
more than half the range ahead of the packet that is expected and the list holds
packets of that sender only (`Window`), so that the comparisons of `seqNumLT` are those
of the order of sending (`SeqNumOrder`), for any range, any first numbers and any
number of senders that take turns.
`FramesCorrect` (`WholeFrames`) and `LossCorrect` (`NothingElseLost`): frames are delivered
in order and whole, and a frame that came to its turn is not lost, if the streams are
cut into frames, each beginning after the one before is complete (`StreamsFramed`), and
for as long as the numbers are not astray. `FrameInv` compares what the source
remembers with the stream: packets come to their turn in the order of sending
(`TakenInOrder`), so do the frames of what was delivered (`GotInOrder`); the packets put
together so far are those with data of a frame that has begun and is not complete,
`fNeedDelivery` and `fPacketLossInFragmentedFrame` say whether that is so (`Assembled`),
and the client has got the frames that the packet at the head was used for
(`HeadPartly`). A wrong header forgets the loss before it, hence the exception for what is near one.
`DeltasCorrect`, `EarlyCorrect` and `SleepCorrect` (`DeltasAddUp`, `NotEarly`,
`SleepsUntilDue`) for any delays and settings of the time of day: the sum of the
deltas up to a task is what is left until it is due, as the queue counts time, also
for the queue itself, which is due at `Eternity`; real time is compared with that
count by what has gone by since the last synchronization (`SinceSync`). The count
stays below `Eternity` by `DelayAssumption`. `TimersCorrect`: the list implements `Timers`.

The proofs by induction are made of one fact of the library, that the natural
numbers are well founded: a set of numbers that holds 0, and n whenever it holds
n - 1, has no least number outside (`HasMin`, `CountingUp`). So are those about the
recursive functions (`Sums`, `PacketsUpTo`, the chain of the packet queue): that one
with the defining equations exists, and then what it is at each number. The
theorems of the library that take an operator as a parameter are not used, since
the provers cannot instantiate them.

Only model-checked is what says that something happens in the end, which needs
fairness and ENABLED: `AcceptedIsDelivered` and `PushReturns` of BoundedQueue, `Ends` of
SkippingPipeline, `PacketIsTaken`, `QueuedIsShown`, `PlayedToEnd`, `HeardToEnd`,
`HandledInTurn` of TaskScheduler and `Reclaimed` of MediaSessions. Every other
invariant, action property and refinement that a passing run checks is proved.

## Abstractions

- Pixels, sound samples, names and messages are left out; frames are their
  timestamps or positions.
- `shouldSkip` answers yes or no freely.
- The codecs are external: queues with a delay that may reject a packet. In `Player`
  the audio decoder gives one frame for a packet; AudioDecode has any number.
- The pipeline uses the stage queue through FifoChannel and adds the notifications
  that are missed. A stage that has missed one sleeps until a later `finished()` or
  `quit()` of that queue reaches it.
- `processFrames` throws at one place of its loop, wherever in it the code throws.
- The reads of `pictq_size` and of packet queue sizes without a mutex are atomic, as
  those of an aligned `int` are on the platforms of the build.
- Packet sizes and the timestamps of the films are positive.
- `decode` falls off its end without returning a value, which its callers ignore.
- In PictureQueue and Player the time at which a refresh fires is free; RefreshTimer
  has it.
- The clocks are integers and the audio is the master, as `main.cpp` sets it. A byte
  of sound lasts one unit of time in AudioDecode.
- A handler of the server's event loop may do anything that the program may.
- One file in MediaSessions: the sessions of different files share nothing but the
  table. A stack of calls stands for the nested event loops.
- The network of RtpReordering delays nothing by half the range of the numbers; apart
  from that any packet comes at any time, again and again or never. The time that a
  packet has waited is left out: the threshold may be exceeded at any moment. Not
  modelled are payload formats that do not set both flags in every header
  (`H264VideoRTPSource.cpp:73`, MPEG4-generic), and frames that do not fit the buffer.
- `select` fails because of a signal or not at all; after another failure the server
  aborts. A socket is closed when its handler was cleared, which `~Socket` does not do
  but its owners in this repository do (`RTCP.cpp:396`, `RTPInterface.cpp:305`).
- How far the audio clock may be from the sound is given to RefreshTimer as two
  constants; that it is bounded at all is what AudioDecode shows, for simple films.
- In `Player` allocations and timers do not fail; PictureQueue has both.

## Not modelled

- Codec and output set-up (`openOutputFile`, `getDecoderCntx`, `getEncoderCntx`,
  `writeHeader`): sequential configuration of libav.
- The video and the external clock as masters, and `synchronize_audio` under them:
  `av_sync_type` is never set so.
- `video_display`, `create_window`, `pgm_save`: calls of SDL and file output.
- `Skipping.h` beyond its answer, `VideoFrame`: pixel work and an unused record.
- `Xtream_1.0`: a Qt window that starts the player, and older players that are not
  built. `video_player_testing*`: copies of an older `player.h` with unit tests.
  `ffmpeg_examples`, `benchmark`, `Readings`: examples, measurements, papers.
- Of `live555_server`: event triggers, which only a template uses; the write and
  exception sets, which have the bookkeeping of the read set; the payload formats,
  RTP over TCP, the statistics of reception; authentication and the parsing of
  requests; what PLAY does to the streams. And the whole of the formats, parsers,
  framers and sinks, the RTSP and SIP clients and the proxy: about 75 000 lines that
  transform data and that the server of this repository, which streams files, uses
  one at a time. They are most of the repository's lines, and the reason why the
  share of its lines that is modelled is small.

## Plan

Done, in this order: the stage queue with its channel and proofs, the pipeline,
the picture ring with its proofs, the packet queue with its proofs, the player,
its sound and its clocks, the server's timers, sockets, RTP reception and sessions.

Then the proofs, from the queues to the whole: the media sessions by counting, the
times of the refresh, the refinements of PictureQueue and PacketQueue, the pipeline,
the player and its sound, at last the clocks and the rest of the server: sockets,
RTP and timers.

What could come next is one module: *SkipIndex*, transcoder and player end to end, the index that
SkippingPipeline writes given to Player, every original picture shown as itself or
as an interpolation of its parent. New questions go into the existing runs, so that
the whole project stays checkable in minutes.
