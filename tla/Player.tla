------------------------------- MODULE Player -------------------------------
(***************************************************************************)
(* The player as a whole (video_player/player.h, main.cpp): decode_thread  *)
(* reads the packets of a film into two packet queues, video_thread        *)
(* decodes the pictures and places them by the lines of the index file,    *)
(* the audio callback decodes the sound, and the main thread shows the     *)
(* pictures.                                                               *)
(*                                                                         *)
(* The queues stand here at the level of what PacketQueue and PictureQueue *)
(* say of them: a get takes the first packet or sleeps until the next put, *)
(* the ring is a sequence of at most N pictures that are shown in order.   *)
(* When a picture is shown is left open, as the clocks decide it.          *)
(*                                                                         *)
(* A line of the index is TRUE for a frame that is in the film, its parent *)
(* flag being 1, and FALSE for one that the transcoder dropped and whose   *)
(* parent is the next frame of the film.  Its pts is abstracted to its     *)
(* number.  Packets are named by their position in the film.               *)
(***************************************************************************)
EXTENDS Integers, Sequences, SequencesExt

CONSTANTS
    Films,          \* [streams, packets, index], the inputs of the player
    MaxAudioqSize,  \* MAX_AUDIOQ_SIZE, in bytes
    MaxVideoqSize,  \* MAX_VIDEOQ_SIZE
    N,              \* VIDEO_PICTURE_QUEUE_SIZE
    VideoDelay,     \* frames that the video decoder holds back
    AudioDelay,     \* frames that the audio decoder holds back
    ReadFails       \* av_read_frame may report an error

Streams == {"video", "audio"}

ASSUME PlayerAssumption ==
    /\ MaxAudioqSize \in Nat /\ MaxVideoqSize \in Nat
    /\ N \in Nat \ {0}
    /\ VideoDelay \in Nat /\ AudioDelay \in Nat
    /\ ReadFails \in BOOLEAN
    /\ \A f \in Films :
         /\ f.index \in Seq(BOOLEAN)
         /\ f.packets \in Seq([stream : f.streams, size : Nat \ {0},
                               good : BOOLEAN])

VARIABLES
    film,
    decode,         \* where decode_thread is
    position,       \* the packets it has read
    finished,       \* finished_decoding
    queue,          \* videoq and audioq: their packets and their size
    video,          \* where video_thread is
    videoPacket,    \* its packet
    videoDecoder,   \* the frames in the video decoder
    frame,          \* pFrame
    line,           \* the lines that readNextIndex has read
    pictq,          \* the ring of pictures
    shown,          \* the pictures shown, in order
    audio,          \* where the audio callback is
    audioPacket,    \* avPacket
    audioDecoder,   \* the frames in the audio decoder
    heard,          \* the audio frames given to the device, in order
    exited          \* "no", or what ended the process

decodeVars == <<decode, position, finished>>
videoVars == <<video, videoPacket, videoDecoder, frame, line>>
audioVars == <<audio, audioPacket, audioDecoder, heard>>
vars == <<film, decodeVars, queue, videoVars, pictq, shown, audioVars, exited>>

(* The operators called Mutant... are broken versions of the definition    *)
(* that follows them; PROJECT.json names the property each must violate.   *)

Init ==
    /\ film \in Films
    /\ decode = "open video"
    /\ position = 0
    /\ finished = FALSE
    /\ queue = [s \in Streams |-> [packets |-> <<>>, size |-> 0]]
    /\ video = "off"
    /\ videoPacket = 0
    /\ videoDecoder = <<>>
    /\ frame = 0
    /\ line = 0
    /\ pictq = <<>>
    /\ shown = <<>>
    /\ audio = "off"
    /\ audioPacket = 0
    /\ audioDecoder = <<>>
    /\ heard = <<>>
    /\ exited = "no"

Running == exited = "no"

-----------------------------------------------------------------------------
(* decode_thread                                                           *)

(* stream_component_open starts video_thread.                              *)
OpenVideo ==
    /\ Running
    /\ decode = "open video"
    /\ IF "video" \in film.streams
       THEN decode' = "open audio" /\ video' = "get"
       ELSE decode' = "returned" /\ UNCHANGED video
    /\ UNCHANGED <<film, position, finished, queue, videoPacket, videoDecoder,
                   frame, line, pictq, shown, audioVars, exited>>

(* Without an audio stream decode_thread returns here.                     *)
OpenAudio ==
    /\ Running
    /\ decode = "open audio"
    /\ IF "audio" \in film.streams
       THEN decode' = "check" /\ audio' = "get"
       ELSE decode' = "returned" /\ UNCHANGED audio
    /\ UNCHANGED <<film, position, finished, queue, videoVars, pictq, shown,
                   audioPacket, audioDecoder, heard, exited>>

(* The size of the audio queue is not looked at.                           *)
MutantQueuesFull == queue["video"].size > MaxVideoqSize

QueuesFull ==
    \/ queue["audio"].size > MaxAudioqSize
    \/ queue["video"].size > MaxVideoqSize

(* While a queue is full decode_thread sleeps and looks again.             *)
DecodeCheck ==
    /\ Running
    /\ decode = "check"
    /\ ~QueuesFull
    /\ decode' = "read"
    /\ UNCHANGED <<film, position, finished, queue, videoVars, pictq, shown,
                   audioVars, exited>>

Packet(p) == film.packets[p]

(* No signal.                                                              *)
MutantWoken(consumer, s) == consumer

(* The signal of packet_queue_put to the consumer of queue s.              *)
Woken(consumer, s) ==
    IF consumer = "asleep" /\ Packet(position').stream = s THEN "get"
    ELSE consumer

(* A packet of another stream is freed.                                    *)
DecodeRead ==
    /\ Running
    /\ decode = "read"
    /\ position < Len(film.packets)
    /\ position' = position + 1
    /\ queue' = [s \in Streams |->
                   IF Packet(position').stream = s
                   THEN [packets |-> Append(queue[s].packets, position'),
                         size |-> queue[s].size + Packet(position').size]
                   ELSE queue[s]]
    /\ video' = Woken(video, "video")
    /\ audio' = Woken(audio, "audio")
    /\ decode' = "check"
    /\ UNCHANGED <<film, finished, videoPacket, videoDecoder, frame, line,
                   pictq, shown, audioPacket, audioDecoder, heard, exited>>

(* A failure that av_read_frame does not report as the end, and that is no *)
(* error of the file: the thread sleeps and tries again, as often as need  *)
(* be.                                                                     *)
DecodeRetry ==
    /\ Running
    /\ decode = "read"
    /\ ReadFails
    /\ decode' = "check"
    /\ UNCHANGED <<film, position, finished, queue, videoVars, pictq, shown,
                   audioVars, exited>>

(* The end of the film or an error of the file.  Nobody is told.           *)
DecodeFinish ==
    /\ Running
    /\ decode = "read"
    /\ position = Len(film.packets) \/ ReadFails
    /\ finished' = TRUE
    /\ decode' = "wait for quit"
    /\ UNCHANGED <<film, position, queue, videoVars, pictq, shown, audioVars,
                   exited>>

-----------------------------------------------------------------------------
(* packet_queue_get on the queue of stream s                               *)

HasPacket(s) == queue[s].packets # <<>>

Take(s) ==
    queue' = [queue EXCEPT
                ![s] = [packets |-> Tail(@.packets),
                        size |-> @.size - Packet(Head(@.packets)).size]]

-----------------------------------------------------------------------------
(* video_thread                                                            *)

VideoGet ==
    /\ Running
    /\ video = "get"
    /\ HasPacket("video")
    /\ Take("video")
    /\ videoPacket' = Head(queue["video"].packets)
    /\ video' = "send"
    /\ UNCHANGED <<film, decodeVars, videoDecoder, frame, line, pictq, shown,
                   audioVars, exited>>

(* The frames that the decoder holds back are not asked for.               *)
VideoGetNone ==
    /\ Running
    /\ video = "get"
    /\ ~HasPacket("video")
    /\ video' = IF finished THEN "ended" ELSE "asleep"
    /\ UNCHANGED <<film, decodeVars, queue, videoPacket, videoDecoder, frame,
                   line, pictq, shown, audioVars, exited>>

(* A packet that the decoder rejects ends the thread.                      *)
VideoSend ==
    /\ Running
    /\ video = "send"
    /\ IF Packet(videoPacket).good
       THEN /\ videoDecoder' = Append(videoDecoder, videoPacket)
            /\ video' = "receive"
       ELSE /\ video' = "failed"
            /\ UNCHANGED videoDecoder
    /\ UNCHANGED <<film, decodeVars, queue, videoPacket, frame, line, pictq,
                   shown, audioVars, exited>>

FrameReady == Len(videoDecoder) > VideoDelay

VideoDrained ==
    /\ Running
    /\ video = "receive"
    /\ ~FrameReady
    /\ video' = "get"
    /\ UNCHANGED <<film, decodeVars, queue, videoPacket, videoDecoder, frame,
                   line, pictq, shown, audioVars, exited>>

(* The process ends before the last line is used.                          *)
MutantReadNextIndex(next) ==
    /\ line' = line + 1
    /\ IF line + 1 < Len(film.index)
       THEN video' = next /\ UNCHANGED exited
       ELSE exited' = "index" /\ UNCHANGED video

(* readNextIndex ends the process when there is no further line, also when *)
(* there is no index at all.                                               *)
ReadNextIndex(next) ==
    IF line < Len(film.index)
    THEN line' = line + 1 /\ video' = next /\ UNCHANGED exited
    ELSE exited' = "index" /\ UNCHANGED <<line, video>>

(* What the flag of line l asks for.                                       *)
Place(l) ==
    IF l > Len(film.index) \/ film.index[l] THEN "queue parent"
    ELSE "queue child"

VideoReceive ==
    /\ Running
    /\ video = "receive"
    /\ FrameReady
    /\ frame' = Head(videoDecoder)
    /\ videoDecoder' = Tail(videoDecoder)
    /\ ReadNextIndex(Place(line + 1))
    /\ UNCHANGED <<film, decodeVars, queue, videoPacket, pictq, shown,
                   audioVars>>

(* queue_picture, which waits while the ring is full.                      *)
QueuePicture ==
    /\ Len(pictq) < N
    /\ pictq' = Append(pictq, [line |-> line, frame |-> frame])

(* The frame's interpolated_frame, in the place of the one dropped.        *)
QueueChild ==
    /\ Running
    /\ video = "queue child"
    /\ QueuePicture
    /\ video' = "child queued"
    /\ UNCHANGED <<film, decodeVars, queue, videoPacket, videoDecoder, frame,
                   line, shown, audioVars, exited>>

(* The line of the parent is forgotten.                                    *)
MutantReadParentLine ==
    /\ Running
    /\ video = "child queued"
    /\ video' = "queue parent"
    /\ UNCHANGED <<film, decodeVars, queue, videoPacket, videoDecoder, frame,
                   line, pictq, shown, audioVars, exited>>

(* The next line is taken for the parent's, whatever its flag.             *)
ReadParentLine ==
    /\ Running
    /\ video = "child queued"
    /\ ReadNextIndex("queue parent")
    /\ UNCHANGED <<film, decodeVars, queue, videoPacket, videoDecoder, frame,
                   pictq, shown, audioVars>>

QueueParent ==
    /\ Running
    /\ video = "queue parent"
    /\ QueuePicture
    /\ video' = "receive"
    /\ UNCHANGED <<film, decodeVars, queue, videoPacket, videoDecoder, frame,
                   line, shown, audioVars, exited>>

-----------------------------------------------------------------------------
(* The audio callback: audio_decode_frame, call after call                 *)

AudioGet ==
    /\ Running
    /\ audio = "get"
    /\ HasPacket("audio")
    /\ Take("audio")
    /\ audioPacket' = Head(queue["audio"].packets)
    /\ audio' = "decode"
    /\ UNCHANGED <<film, decodeVars, videoVars, pictq, shown, audioDecoder,
                   heard, exited>>

(* Once the stream is over each call fails and is filled with silence.     *)
AudioGetNone ==
    /\ Running
    /\ audio = "get"
    /\ ~HasPacket("audio")
    /\ ~finished
    /\ audio' = "asleep"
    /\ UNCHANGED <<film, decodeVars, queue, videoVars, pictq, shown,
                   audioPacket, audioDecoder, heard, exited>>

SoundReady == Len(audioDecoder) > AudioDelay

(* A frame is received, the packet sent after it, and the call returns.    *)
AudioFrame ==
    /\ Running
    /\ audio = "decode"
    /\ SoundReady
    /\ Packet(audioPacket).good
    /\ heard' = Append(heard, Head(audioDecoder))
    /\ audioDecoder' = Append(Tail(audioDecoder), audioPacket)
    /\ audio' = "get"
    /\ UNCHANGED <<film, decodeVars, queue, videoVars, pictq, shown,
                   audioPacket, exited>>

(* No frame yet.  Once finished_decoding is set the call fails, with       *)
(* audio_pkt_size left positive and the packet dropped: every later call   *)
(* finds no frame either, and fails as well.                               *)
AudioNoFrame ==
    /\ Running
    /\ audio = "decode"
    /\ ~SoundReady
    /\ finished \/ Packet(audioPacket).good
    /\ IF finished
       THEN audio' = "mute" /\ UNCHANGED audioDecoder
       ELSE /\ audioDecoder' = Append(audioDecoder, audioPacket)
            /\ audio' = "get"
    /\ UNCHANGED <<film, decodeVars, queue, videoVars, pictq, shown,
                   audioPacket, heard, exited>>

(* The call goes on to the next packet.                                    *)
MutantAudioReject ==
    /\ Running
    /\ audio = "decode"
    /\ SoundReady \/ ~finished
    /\ ~Packet(audioPacket).good
    /\ audioDecoder' = IF SoundReady THEN Tail(audioDecoder) ELSE audioDecoder
    /\ audio' = "get"
    /\ UNCHANGED <<film, decodeVars, queue, videoVars, pictq, shown,
                   audioPacket, heard, exited>>

(* The decoder rejects the packet: the call fails, with the frame that it  *)
(* has received, if any, and with audio_pkt_size left positive.            *)
AudioReject ==
    /\ Running
    /\ audio = "decode"
    /\ SoundReady \/ ~finished
    /\ ~Packet(audioPacket).good
    /\ audioDecoder' = IF SoundReady THEN Tail(audioDecoder) ELSE audioDecoder
    /\ audio' = "rejected"
    /\ UNCHANGED <<film, decodeVars, queue, videoVars, pictq, shown,
                   audioPacket, heard, exited>>

(* The next call therefore gets no packet but sends an empty one, which    *)
(* tells the decoder that the stream is over.  What it gives from then on  *)
(* is lost, for after each frame another packet is sent, and refused.      *)
AudioDrain ==
    /\ Running
    /\ audio \in {"rejected", "draining"}
    /\ IF audioDecoder = <<>> \/ (audio = "rejected" /\ finished)
       THEN audio' = "mute" /\ UNCHANGED audioDecoder
       ELSE audio' = "draining" /\ audioDecoder' = Tail(audioDecoder)
    /\ UNCHANGED <<film, decodeVars, queue, videoVars, pictq, shown,
                   audioPacket, heard, exited>>

-----------------------------------------------------------------------------
(* main                                                                    *)

ShowPicture ==
    /\ Running
    /\ pictq # <<>>
    /\ shown' = Append(shown, Head(pictq))
    /\ pictq' = Tail(pictq)
    /\ UNCHANGED <<film, decodeVars, queue, videoVars, audioVars, exited>>

UserQuits ==
    /\ Running
    /\ exited' = "user"
    /\ UNCHANGED <<film, decodeVars, queue, videoVars, pictq, shown,
                   audioVars>>

-----------------------------------------------------------------------------

DecodeThread == OpenVideo \/ OpenAudio \/ DecodeCheck \/ DecodeRead
                \/ DecodeRetry \/ DecodeFinish

VideoThread == VideoGet \/ VideoGetNone \/ VideoSend \/ VideoDrained
               \/ VideoReceive \/ QueueChild \/ ReadParentLine \/ QueueParent

AudioCallback == AudioGet \/ AudioGetNone \/ AudioFrame \/ AudioNoFrame
                 \/ AudioReject \/ AudioDrain

Next == DecodeThread \/ VideoThread \/ AudioCallback \/ ShowPicture \/ UserQuits

Spec == Init /\ [][Next]_vars

(* The threads are scheduled and a queued picture is shown some time;      *)
(* the user need not quit.                                                 *)
FairSpec ==
    /\ Spec
    /\ WF_vars(DecodeThread)
    /\ WF_vars(VideoThread)
    /\ WF_vars(AudioCallback)
    /\ WF_vars(ShowPicture)

-----------------------------------------------------------------------------

TypeOK ==
    /\ film \in Films
    /\ decode \in {"open video", "open audio", "check", "read", "wait for quit",
                   "returned"}
    /\ position \in 0..Len(film.packets)
    /\ finished = (decode = "wait for quit")
    /\ \A s \in Streams :
         /\ queue[s].size \in Nat
         /\ queue[s].packets \in Seq(1..position)
    /\ video \in {"off", "get", "asleep", "send", "receive", "queue child",
                  "child queued", "queue parent", "failed", "ended"}
    /\ videoPacket \in 0..position /\ frame \in 0..position
    /\ videoDecoder \in Seq(1..position) /\ Len(videoDecoder) <= VideoDelay + 1
    /\ line \in 0..Len(film.index)
    /\ Len(pictq) <= N
    /\ audio \in {"off", "get", "asleep", "decode", "rejected", "draining",
                  "mute"}
    /\ audioPacket \in 0..position
    /\ audioDecoder \in Seq(1..position) /\ Len(audioDecoder) <= AudioDelay + 1
    /\ exited \in {"no", "index", "user"}

Sizes(s) ==
    {Packet(i).size : i \in {j \in DOMAIN film.packets : Packet(j).stream = s}}

(* Neither packet queue ever holds more than its limit and one packet,     *)
(* although decode_thread tests both sizes without a lock and before it    *)
(* knows which queue the packet is for.                                    *)
QueueBounds ==
    /\ \E n \in Sizes("audio") \cup {0} :
         queue["audio"].size <= MaxAudioqSize + n
    /\ \E n \in Sizes("video") \cup {0} :
         queue["video"].size <= MaxVideoqSize + n

(* The packets of a stream among the first n of the film, for each n.      *)
PacketsUpTo(s) ==
    LET upTo[n \in 0..Len(film.packets)] ==
            IF n = 0 THEN <<>>
            ELSE IF Packet(n).stream = s THEN Append(upTo[n - 1], n)
            ELSE upTo[n - 1]
    IN upTo

PacketsOf(s) == PacketsUpTo(s)[position]

(* An index as the transcoder writes it: no two frames in a row dropped,   *)
(* the last one kept.                                                      *)
WellFormed(index) ==
    \A i \in DOMAIN index : ~index[i] => i < Len(index) /\ index[i + 1]

(* How many of the first l lines are of frames of the film, for each l.    *)
ParentLines ==
    LET upTo[l \in 0..Len(film.index)] ==
            IF l = 0 THEN 0
            ELSE IF film.index[l] THEN upTo[l - 1] + 1
            ELSE upTo[l - 1]
    IN upTo

(* With an index of the transcoder, the i-th picture shown is that of the  *)
(* i-th line: the frame of the line, or for a dropped one that of its      *)
(* parent.                                                                 *)
ShownByIndex ==
    /\ TypeOK
    /\ WellFormed(film.index) =>
         \A i \in DOMAIN shown :
             LET parent == ParentLines[i - 1] + 1 IN
             shown[i] = [line |-> i, frame |-> PacketsOf("video")[parent]]

(* The player is not ended by its index while the index has a kept line    *)
(* for each frame that the decoder has given.                              *)
IndexSuffices ==
    exited = "index" /\ WellFormed(film.index) =>
        ParentLines[Len(film.index)] + VideoDelay
            < Len(PacketsUpTo("video")[videoPacket])

(* The callback gets no more packets: each call fails, for silence.        *)
Silent == audio \in {"rejected", "draining", "mute"}

(* The audio frames are heard in the order of their packets from the first *)
(* one on, with none left out, until the callback falls silent for good;   *)
(* and that it does only when decode_thread has ended its reading, or when *)
(* the decoder has rejected the packet at hand.                            *)
HeardInOrder ==
    /\ IsPrefix(heard, PacketsOf("audio"))
    /\ Silent => finished \/ ~Packet(audioPacket).good

(* The consumer of a stream has failed for a rejected packet, and the      *)
(* queue that it no longer empties keeps decode_thread from reading on.    *)
Abandoned ==
    \/ video = "failed" /\ queue["video"].size > MaxVideoqSize
    \/ Silent /\ ~finished /\ queue["audio"].size > MaxAudioqSize

(* decode_thread reads on, however slow its consumers are, until the film  *)
(* or the file is at its end or in error; and when the index is one of the *)
(* transcoder, all frames that were read are shown but those that the      *)
(* decoder holds back.  Only these prevent it: the process ends, a stream  *)
(* lacks, a rejected packet ends video_thread or leaves a queue full, or   *)
(* av_read_frame fails for ever, without an error of the file: then alone  *)
(* decode_thread comes back to its reading without end.                    *)
PlayedToEnd ==
    \/ <>(\/ exited # "no" \/ decode = "returned" \/ Abandoned
          \/ /\ finished
             /\ WellFormed(film.index) /\ video # "failed" =>
                  \/ shown # <<>> /\ ParentLines[Len(shown)] + VideoDelay
                                       = Len(PacketsOf("video"))
                  \/ Len(PacketsOf("video")) <= VideoDelay)
    \/ []<>(decode = "read")

=============================================================================
