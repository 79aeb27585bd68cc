-------------------------- MODULE SkippingPipeline --------------------------
(***************************************************************************)
(* VideoContext (video_skipping/src/VideoContext.cpp): the four stages of  *)
(* the transcoder that drops the middle frame of a triple when its         *)
(* neighbours can replace it.  Each stage is a thread; three queues        *)
(* connect them:                                                           *)
(*                                                                         *)
(*   demultiplex -packets-> decode -frames-> processFrames -processed->    *)
(*   encode                                                                *)
(*                                                                         *)
(* A queue is used through what FifoChannel promises of it (BoundedQueue   *)
(* is shown to implement that); a blocking push or pop is a step that is   *)
(* enabled when the call can return.  What FifoChannel does not promise is *)
(* that a waiting call hears of finished() and quit(): they notify without *)
(* the mutex, and a call that has tested the flags and does not wait yet   *)
(* misses it (queue_lost_wakeup).  The codecs are external: each holds     *)
(* back a number of frames, and may refuse what it is given.               *)
(***************************************************************************)
EXTENDS Integers, Sequences, SequencesExt, FiniteSetsExt

CONSTANTS
    Files,          \* the input files: sequences of packets
    VideoStream,    \* video_stream_indx
    AudioStream,    \* audio_stream_indx
    QueueMax,       \* capacity of each queue (10 in the code)
    DecoderDelay,   \* frames the decoder holds back until it is flushed
    EncoderDelay,   \* packets the encoder holds back until it is flushed
    Throwing,       \* the stages in which an exception may be thrown
    AudioWriteFails, VideoWriteFails, EncoderRefuses
                    \* whether these calls may report an error
CONSTANT MaxFailures  \* bound: how many of all these fail in one run

Stages == {"demultiplex", "decode", "processFrames", "encode"}
Queues == {"packets", "frames", "processed"}

(* A packet that the decoder makes a picture of.                           *)
IsPicture(p) == p.stream = VideoStream /\ p.good

(* The pictures of a file are in the order of their pts, as the decoder    *)
(* returns them.                                                           *)
ASSUME PipelineAssumption ==
    /\ Files \subseteq Seq([stream : Nat, pts : Nat, good : BOOLEAN])
    /\ \A f \in Files : \A i, j \in DOMAIN f :
          i < j /\ IsPicture(f[i]) /\ IsPicture(f[j]) => f[i].pts < f[j].pts
    /\ QueueMax \in Nat \ {0}
    /\ DecoderDelay \in Nat
    /\ EncoderDelay \in Nat
    /\ Throwing \subseteq Stages
    /\ MaxFailures \in Nat
    /\ {AudioWriteFails, VideoWriteFails, EncoderRefuses} \subseteq BOOLEAN

None == -1  \* next_pts and delta_pts before the first drop; a null opaque

VARIABLES
    at,         \* where each stage is
    chan,       \* the three queues
    deaf,       \* the stages asleep in a push or pop that should return
    quitting,   \* the quit() calls a stage's exception handler still makes
    file,       \* the input file
    position,   \* how many of its packets were read
    packet,     \* the packet in the hands of decode
    sent,       \* decode's local of that name: the decoder took the packet
    decoder,    \* pts of the frames inside the decoder
    ready,      \* ready_frames of processFrames
    nextPts, deltaPts, skippedCount,
    index,      \* lines of the index file
    encoder,    \* pts of the frames inside the encoder
    flushed,    \* encode's local of that name
    written,    \* pts of the video packets in the output file
    exception,  \* exception_ is set
    \* what happened, for the properties only:
    decoded,    \* pts of the frames that reached the frame queue
    handed,     \* frames that reached the processed queue
    failed      \* the calls that reported an error, the stages that threw

stageVars == <<at, quitting>>
fileVars == <<file, position>>
decodeVars == <<packet, sent, decoder, decoded>>
processVars == <<ready, nextPts, deltaPts, skippedCount, index, handed>>
encodeVars == <<encoder, flushed, written>>
vars == <<stageVars, chan, deaf, fileVars, decodeVars, processVars,
          encodeVars, exception, failed>>

-----------------------------------------------------------------------------
(* What push and pop do at once; both wait in all other states.            *)

Producer == [packets |-> "demultiplex", frames |-> "decode",
             processed |-> "processFrames"]
Consumer == [packets |-> "decode", frames |-> "processFrames",
             processed |-> "encode"]

CanPush(q) ==
    ~chan[q].quit /\ ~chan[q].finished /\ Len(chan[q].items) < QueueMax

PushFails(q) ==
    Producer[q] \notin deaf /\ (chan[q].quit \/ chan[q].finished)

CanPop(q) == ~chan[q].quit /\ chan[q].items # <<>>

PopFails(q) ==
    /\ Consumer[q] \notin deaf
    /\ chan[q].quit \/ (chan[q].finished /\ chan[q].items = <<>>)

Push(q, x) == chan' = [chan EXCEPT ![q].items = Append(@, x)]

Pop(q) == chan' = [chan EXCEPT ![q].items = Tail(@)]

(* The stages that are inside a push or a pop of the queue.                *)
Pushes(q) ==
    CASE q = "packets" -> at["demultiplex"] = "read" /\ position < Len(file)
      [] q = "frames" -> at["decode"] = "receive"
                         /\ Len(decoder) > DecoderDelay
      [] q = "processed" -> at["processFrames"] = "push"

Pops(q) == at[Consumer[q]] \in {"pop", "flush pop"}

Waiting(q) ==
    {s \in Stages :
        \/ s = Producer[q] /\ Pushes(q) /\ ~CanPush(q) /\ ~PushFails(q)
        \/ s = Consumer[q] /\ Pops(q) /\ ~CanPop(q) /\ ~PopFails(q)}

(* Each waiting call hears the notification, or has tested the flags       *)
(* before they changed and waits only after it.                            *)
MayMiss(q) ==
    \E missed \in SUBSET Waiting(q) : deaf' = (deaf \ Waiting(q)) \cup missed

Finish(q) == chan' = [chan EXCEPT ![q].finished = TRUE] /\ MayMiss(q)

(* A call that reports an error, or a stage that throws.                   *)
MayFail(what) == what \in failed \/ Cardinality(failed) < MaxFailures

Goto(s, place) == at' = [at EXCEPT ![s] = place] /\ UNCHANGED quitting

-----------------------------------------------------------------------------

Init ==
    /\ at = [demultiplex |-> "read", decode |-> "pop",
             processFrames |-> "pop", encode |-> "pop"]
    /\ chan = [q \in Queues |->
                 [items |-> <<>>, finished |-> FALSE, quit |-> FALSE]]
    /\ deaf = {}
    /\ quitting = [s \in Stages |-> <<>>]
    /\ file \in Files
    /\ position = 0
    /\ packet = <<>>
    /\ sent = FALSE
    /\ decoder = <<>>
    /\ ready = <<>>
    /\ nextPts = None
    /\ deltaPts = None
    /\ skippedCount = 0
    /\ index = <<>>
    /\ encoder = <<>>
    /\ flushed = 1
    /\ written = <<>>
    /\ exception = FALSE
    /\ decoded = <<>>
    /\ handed = <<>>
    /\ failed = {}

-----------------------------------------------------------------------------
(* demultiplex: read a packet and push it, to the end of the file.         *)

DemultiplexPush ==
    /\ at["demultiplex"] = "read"
    /\ position < Len(file)
    /\ position' = position + 1
    /\ \/ /\ CanPush("packets")
          /\ Push("packets", file[position + 1])
          /\ UNCHANGED stageVars
       \/ PushFails("packets") /\ Goto("demultiplex", "done") /\ UNCHANGED chan
    /\ UNCHANGED <<deaf, file, decodeVars, processVars, encodeVars, exception,
                   failed>>

DemultiplexEnd ==
    /\ at["demultiplex"] = "read"
    /\ position = Len(file)
    /\ Finish("packets")
    /\ Goto("demultiplex", "done")
    /\ UNCHANGED <<fileVars, decodeVars, processVars, encodeVars, exception,
                   failed>>

-----------------------------------------------------------------------------
(* decode                                                                  *)

(* !x of C++.                                                              *)
Not(x) == IF x = 0 THEN 1 ELSE 0

(* The test !packet->stream_index == this->video_stream_indx.              *)
Ignored(p) == Not(p.stream) = VideoStream

DecodePop ==
    LET p == Head(chan["packets"].items) IN
    /\ at["decode"] = "pop"
    /\ CanPop("packets")
    /\ p.stream # AudioStream
    /\ Pop("packets")
    /\ IF Ignored(p)
       THEN UNCHANGED <<packet, sent, stageVars>>
       ELSE packet' = p /\ sent' = FALSE /\ Goto("decode", "send")
    /\ UNCHANGED <<deaf, fileVars, decoder, decoded, processVars, encodeVars,
                   exception, failed>>

(* An audio packet goes to the output file; if it cannot be written the    *)
(* stage ends there and then.                                              *)
DecodeAudio ==
    /\ at["decode"] = "pop"
    /\ CanPop("packets")
    /\ Head(chan["packets"].items).stream = AudioStream
    /\ Pop("packets")
    /\ \/ UNCHANGED <<stageVars, failed>>
       \/ /\ AudioWriteFails /\ MayFail("audio write")
          /\ Goto("decode", "done")
          /\ failed' = failed \cup {"audio write"}
    /\ UNCHANGED <<deaf, fileVars, decodeVars, processVars, encodeVars,
                   exception>>

(* The stage ends without telling the next one.                            *)
MutantDecodeEndSilent ==
    /\ at["decode"] = "pop"
    /\ PopFails("packets")
    /\ Goto("decode", "done")
    /\ UNCHANGED <<deaf, chan, fileVars, decodeVars, processVars, encodeVars,
                   exception, failed>>

DecodeEnd ==
    /\ at["decode"] = "pop"
    /\ PopFails("packets")
    /\ Finish("frames")
    /\ Goto("decode", "done")
    /\ UNCHANGED <<fileVars, decodeVars, processVars, encodeVars, exception,
                   failed>>

(* The decoder takes a good packet of the video stream; it answers any     *)
(* other packet with an error.                                             *)
DecodeSend ==
    /\ at["decode"] = "send"
    /\ Goto("decode", "receive")
    /\ IF packet.good
       THEN /\ sent' = TRUE
            /\ decoder' = Append(decoder, packet.pts)
       ELSE UNCHANGED <<sent, decoder>>
    /\ UNCHANGED <<deaf, chan, fileVars, packet, decoded, processVars,
                   encodeVars, exception, failed>>

AfterReceive == Goto("decode", IF sent THEN "pop" ELSE "send")

(* The next frame, when the decoder has one to give; a refused frame is    *)
(* dropped.                                                                *)
DecodeReceive ==
    /\ at["decode"] = "receive"
    /\ Len(decoder) > DecoderDelay
    /\ decoder' = Tail(decoder)
    /\ LET frame == [pts |-> Head(decoder), dts |-> None, child |-> None] IN
       \/ /\ CanPush("frames")
          /\ Push("frames", frame)
          /\ decoded' = Append(decoded, frame.pts)
          /\ UNCHANGED stageVars
       \/ PushFails("frames") /\ AfterReceive /\ UNCHANGED <<chan, decoded>>
    /\ UNCHANGED <<deaf, fileVars, packet, sent, processVars, encodeVars,
                   exception, failed>>

DecodeDrained ==
    /\ at["decode"] = "receive"
    /\ Len(decoder) <= DecoderDelay
    /\ AfterReceive
    /\ UNCHANGED <<deaf, chan, fileVars, decodeVars, processVars, encodeVars,
                   exception, failed>>

-----------------------------------------------------------------------------
(* processFrames                                                           *)

(* Closing the gaps that earlier drops left: each frame gets the next pts. *)
Renumbered(frame) ==
    [frame EXCEPT !.dts = frame.pts,
                  !.pts = IF nextPts # None /\ deltaPts # None
                          THEN nextPts ELSE @]

ProcessPop ==
    /\ at["processFrames"] = "pop"
    /\ CanPop("frames")
    /\ ready' = Append(ready, Renumbered(Head(chan["frames"].items)))
    /\ nextPts' = IF nextPts # None /\ deltaPts # None
                  THEN nextPts + deltaPts ELSE nextPts
    /\ Pop("frames")
    /\ Goto("processFrames", IF Len(ready') = 3 THEN "decide" ELSE "pop")
    /\ UNCHANGED <<deaf, fileVars, decodeVars, deltaPts, skippedCount, index,
                   handed, encodeVars, exception, failed>>

(* The frames of an incomplete triple go with it.                          *)
ProcessEnd ==
    /\ at["processFrames"] = "pop"
    /\ PopFails("frames")
    /\ Finish("processed")
    /\ Goto("processFrames", "done")
    /\ ready' = <<>>
    /\ UNCHANGED <<fileVars, decodeVars, nextPts, deltaPts, skippedCount,
                   index, handed, encodeVars, exception, failed>>

ProcessKeep ==
    /\ at["processFrames"] = "decide"
    /\ Goto("processFrames", "index")
    /\ UNCHANGED <<deaf, chan, fileVars, decodeVars, processVars, encodeVars,
                   exception, failed>>

(* The index gets the renumbered pts of the dropped frame.                 *)
MutantDropChildPts ==
    LET mid == ready[2]
        parent == [ready[3] EXCEPT !.pts = mid.pts, !.child = mid.pts]
    IN
    /\ at["processFrames"] = "decide"
    /\ nextPts' = ready[3].pts
    /\ deltaPts' = ready[3].pts - mid.pts
    /\ skippedCount' = skippedCount + 1
    /\ ready' = <<ready[1], parent>>
    /\ Goto("processFrames", "index")
    /\ UNCHANGED <<deaf, chan, fileVars, decodeVars, index, handed, encodeVars,
                   exception, failed>>

(* The parent keeps its own pts.                                           *)
MutantDropKeepsPts ==
    LET mid == ready[2]
        parent == [ready[3] EXCEPT !.child = mid.dts]
    IN
    /\ at["processFrames"] = "decide"
    /\ nextPts' = ready[3].pts
    /\ deltaPts' = ready[3].pts - mid.pts
    /\ skippedCount' = skippedCount + 1
    /\ ready' = <<ready[1], parent>>
    /\ Goto("processFrames", "index")
    /\ UNCHANGED <<deaf, chan, fileVars, decodeVars, index, handed, encodeVars,
                   exception, failed>>

(* The third frame becomes the parent of the second, and takes its pts.    *)
ProcessDrop ==
    LET mid == ready[2]
        parent == [ready[3] EXCEPT !.pts = mid.pts, !.child = mid.dts]
    IN
    /\ at["processFrames"] = "decide"
    /\ nextPts' = ready[3].pts
    /\ deltaPts' = ready[3].pts - mid.pts
    /\ skippedCount' = skippedCount + 1
    /\ ready' = <<ready[1], parent>>
    /\ Goto("processFrames", "index")
    /\ UNCHANGED <<deaf, chan, fileVars, decodeVars, index, handed, encodeVars,
                   exception, failed>>

(* A line of the index: the pts in the input, and whether the frame is in  *)
(* the output.                                                             *)
Line(pts, kept) == [pts |-> pts, kept |-> kept]

ProcessIndex ==
    LET frame == Head(ready) IN
    /\ at["processFrames"] = "index"
    /\ index' = index
         \o (IF frame.child # None THEN <<Line(frame.child, FALSE)>> ELSE <<>>)
         \o <<Line(frame.dts, TRUE)>>
    /\ Goto("processFrames", "push")
    /\ UNCHANGED <<deaf, chan, fileVars, decodeVars, ready, nextPts, deltaPts,
                   skippedCount, handed, encodeVars, exception, failed>>

(* A refused push ends the loop over the ready frames, not the stage.      *)
ProcessPush ==
    /\ at["processFrames"] = "push"
    /\ \/ /\ CanPush("processed")
          /\ Push("processed", Head(ready))
          /\ handed' = Append(handed, Head(ready))
          /\ ready' = Tail(ready)
          /\ Goto("processFrames", IF ready' = <<>> THEN "pop" ELSE "index")
       \/ /\ PushFails("processed")
          /\ ready' = <<>>
          /\ Goto("processFrames", "pop")
          /\ UNCHANGED <<chan, handed>>
    /\ UNCHANGED <<deaf, fileVars, decodeVars, nextPts, deltaPts, skippedCount,
                   index, encodeVars, exception, failed>>

-----------------------------------------------------------------------------
(* encode: flushed turns 0 when the encoder refuses what it is given.  A   *)
(* second null frame is refused, and the stage ends after draining.        *)

FlushStarted == at["encode"] \in {"flush pop", "flush drain"}

EncodeFrame ==
    /\ at["encode"] = "pop"
    /\ CanPop("processed")
    /\ Pop("processed")
    /\ \/ /\ encoder' = Append(encoder, Head(chan["processed"].items).pts)
          /\ Goto("encode", "drain")
          /\ UNCHANGED <<flushed, failed>>
       \/ /\ EncoderRefuses /\ MayFail("encoder")
          /\ flushed' = 0
          /\ failed' = failed \cup {"encoder"}
          /\ Goto("encode", "flush drain")
          /\ UNCHANGED encoder
    /\ UNCHANGED <<deaf, fileVars, decodeVars, processVars, written,
                   exception>>

EncodeNull ==
    /\ at["encode"] \in {"pop", "flush pop"}
    /\ PopFails("processed")
    /\ flushed' = IF FlushStarted THEN 0 ELSE flushed
    /\ Goto("encode", "flush drain")
    /\ UNCHANGED <<deaf, chan, fileVars, decodeVars, processVars, encoder,
                   written, exception, failed>>

AfterDrain ==
    Goto("encode", IF flushed = 0 THEN "done"
                   ELSE IF FlushStarted THEN "flush pop" ELSE "pop")

PacketReady ==
    IF FlushStarted THEN encoder # <<>> ELSE Len(encoder) > EncoderDelay

(* A packet that cannot be written is lost and ends the draining.          *)
EncodeReceive ==
    /\ at["encode"] \in {"drain", "flush drain"}
    /\ PacketReady
    /\ encoder' = Tail(encoder)
    /\ \/ /\ written' = Append(written, Head(encoder))
          /\ UNCHANGED <<stageVars, failed>>
       \/ /\ VideoWriteFails /\ MayFail("video write")
          /\ failed' = failed \cup {"video write"}
          /\ AfterDrain
          /\ UNCHANGED written
    /\ UNCHANGED <<deaf, chan, fileVars, decodeVars, processVars, flushed,
                   exception>>

EncodeDrained ==
    /\ at["encode"] \in {"drain", "flush drain"}
    /\ ~PacketReady
    /\ AfterDrain
    /\ UNCHANGED <<deaf, chan, fileVars, decodeVars, processVars, encodeVars,
                   exception, failed>>

-----------------------------------------------------------------------------
(* Exceptions: at an allocation, and in processFrames also out of OpenCV.  *)
(* The lines of the index are strings too short to be allocated.  The      *)
(* handlers quit these queues in this order; only the first two stages     *)
(* remember the exception.                                                 *)

MayThrow(s) ==
    /\ s \in Throwing \ deaf
    /\ MayFail(s)
    /\ at[s] \in CASE s = "demultiplex" -> {"read"}
                   [] s = "decode" -> {"receive"}
                   [] s = "processFrames" -> {"pop", "decide", "push"}
                   [] s = "encode" -> {"drain", "flush drain"}

(* The handlers quit the queue to the encoder first.                       *)
MutantQuitsOf(s) ==
    IF s \in {"demultiplex", "decode"} THEN <<"frames", "packets">>
    ELSE <<"processed", "packets", "frames">>

QuitsOf(s) ==
    IF s \in {"demultiplex", "decode"} THEN <<"frames", "packets">>
    ELSE <<"frames", "packets", "processed">>

(* No handler remembers the exception.                                     *)
MutantThrowForgotten(s) ==
    /\ MayThrow(s)
    /\ failed' = failed \cup {s}
    /\ at' = [at EXCEPT ![s] = "catch"]
    /\ quitting' = [quitting EXCEPT ![s] = QuitsOf(s)]
    /\ UNCHANGED <<deaf, chan, fileVars, decodeVars, processVars, encodeVars,
                   exception>>

Throw(s) ==
    /\ MayThrow(s)
    /\ exception' = (exception \/ s \in {"demultiplex", "decode"})
    /\ failed' = failed \cup {s}
    /\ at' = [at EXCEPT ![s] = "catch"]
    /\ quitting' = [quitting EXCEPT ![s] = QuitsOf(s)]
    /\ UNCHANGED <<deaf, chan, fileVars, decodeVars, processVars, encodeVars>>

CatchQuit(s) ==
    /\ at[s] = "catch"
    /\ chan' = [chan EXCEPT ![Head(quitting[s])].quit = TRUE]
    /\ MayMiss(Head(quitting[s]))
    /\ quitting' = [quitting EXCEPT ![s] = Tail(@)]
    /\ at' = [at EXCEPT ![s] = IF quitting'[s] = <<>> THEN "done" ELSE "catch"]
    /\ UNCHANGED <<fileVars, decodeVars, processVars, encodeVars, exception,
                   failed>>

-----------------------------------------------------------------------------

Demultiplex == DemultiplexPush \/ DemultiplexEnd \/ CatchQuit("demultiplex")

Decode == DecodePop \/ DecodeAudio \/ DecodeEnd \/ DecodeSend \/ DecodeReceive
          \/ DecodeDrained \/ CatchQuit("decode")

ProcessFrames == ProcessPop \/ ProcessEnd \/ ProcessKeep \/ ProcessDrop
                 \/ ProcessIndex \/ ProcessPush \/ CatchQuit("processFrames")

Encode == EncodeFrame \/ EncodeNull \/ EncodeReceive \/ EncodeDrained
          \/ CatchQuit("encode")

(* runSkipping joins the four threads.                                     *)
Joined == \A s \in Stages : at[s] = "done"

RunSkippingReturns == Joined /\ UNCHANGED vars

Next ==
    \/ Demultiplex \/ Decode \/ ProcessFrames \/ Encode
    \/ \E s \in Stages : Throw(s)
    \/ RunSkippingReturns

Spec == Init /\ [][Next]_vars

(* The four threads are scheduled; nothing forces an exception.            *)
FairSpec ==
    /\ Spec
    /\ WF_vars(Demultiplex)
    /\ WF_vars(Decode)
    /\ WF_vars(ProcessFrames)
    /\ WF_vars(Encode)

-----------------------------------------------------------------------------

Frames == [pts : Int, dts : Int, child : Int]

TypeOK ==
    /\ at["demultiplex"] \in {"read", "catch", "done"}
    /\ at["decode"] \in {"pop", "send", "receive", "catch", "done"}
    /\ at["processFrames"] \in {"pop", "decide", "index", "push", "catch",
                                "done"}
    /\ at["encode"] \in {"pop", "drain", "flush pop", "flush drain", "catch",
                         "done"}
    /\ \A q \in Queues : Len(chan[q].items) <= QueueMax
    /\ position \in 0..Len(file) /\ deaf \subseteq Stages
    /\ Len(decoder) <= DecoderDelay + 1
    /\ Len(ready) <= 3 /\ \A i \in DOMAIN ready : ready[i] \in Frames
    /\ Len(encoder) <= EncoderDelay + 1
    /\ flushed \in {0, 1}
    /\ nextPts \in Int /\ deltaPts \in Int /\ skippedCount \in Nat

PtsOf(seq) == [i \in DOMAIN seq |-> seq[i].pts]

(* The pts of the pictures among the first n packets of a file, in order,  *)
(* for each n.                                                             *)
PicturesUpTo(f) ==
    LET upTo[n \in 0..Len(f)] ==
            IF n = 0 THEN <<>>
            ELSE IF IsPicture(f[n]) THEN Append(upTo[n - 1], f[n].pts)
            ELSE upTo[n - 1]
    IN upTo

Pictures == PicturesUpTo(file)[Len(file)]

(* The lines of the index list the pictures of the input from the first    *)
(* one on, each once and in order, whichever frames were dropped and       *)
(* renumbered in between and whenever a stage stops.                       *)
IndexFaithful ==
    /\ IsPrefix(PtsOf(index), decoded)
    /\ IsPrefix(decoded, Pictures)

(* The line of the n-th frame given to the encoder, for each n: the frame  *)
(* of a dropped one has the line after that one's.                         *)
Width(frame) == IF frame.child = None THEN 1 ELSE 2
LineOf ==
    LET line[n \in 0..Len(handed)] ==
            IF n = 0 THEN 0 ELSE line[n - 1] + Width(handed[n])
    IN line

(* The n-th line of the index marked as kept is the n-th frame given to    *)
(* the encoder, the line before the parent of a dropped frame is that      *)
(* frame's, and the index is never more than one frame ahead, even when    *)
(* handlers quit the queues under the stage's feet.                        *)
IndexAligned ==
    /\ \A n \in DOMAIN handed :
          /\ LineOf[n] \in DOMAIN index
          /\ index[LineOf[n]] = Line(handed[n].dts, TRUE)
          /\ handed[n].child # None =>
                index[LineOf[n] - 1] = Line(handed[n].child, FALSE)
    /\ \A i \in (LineOf[Len(handed)] + 1)..Len(index) :
          index[i].kept => i = Len(index)

ConstantRate ==
    \A i \in 1..(Len(Pictures) - 1) :
        Pictures[i + 1] - Pictures[i] = Pictures[2] - Pictures[1]

(* Frames reach the encoder with increasing timestamps, whatever the frame *)
(* rate does, and when it is constant no gap shows where frames were       *)
(* dropped: next_pts and delta_pts close them all.                         *)
GapFree ==
    /\ TypeOK
    /\ \A i \in 1..(Len(handed) - 1) :
         /\ handed[i].pts < handed[i + 1].pts
         /\ ConstantRate =>
              handed[i + 1].pts - handed[i].pts = Pictures[2] - Pictures[1]

(* When runSkipping returns normally, and neither of the stages whose      *)
(* exceptions it does not report has thrown and no write or encoder call   *)
(* failed, the output is complete: all pictures but those the decoder      *)
(* keeps and those of an incomplete last triple are in the index, and all  *)
(* that were kept are in the output, in order.                             *)
Complete ==
    Joined /\ ~exception /\ failed \subseteq {"demultiplex", "decode"} =>
        LET shown == Max({0, Len(Pictures) - DecoderDelay}) IN
        /\ Len(index) = 3 * (shown \div 3)
        /\ Len(handed) = Len(index) - skippedCount
        /\ written = PtsOf(handed)

(* The four threads end, whichever stage throws and whenever, but for      *)
(* three reasons: decode sends a packet that the decoder refuses again and *)
(* again; an audio packet could not be written, or the encoder refused a   *)
(* frame, and the stage ended without telling the others; or a stage       *)
(* sleeps on, having missed the notification of finished() or quit() and   *)
(* got no other.  In particular an exception that interrupts nobody         *)
(* between its test and its wait ends all four.                            *)
Ends ==
    <>[](\/ Joined
         \/ at["decode"] \in {"send", "receive"} /\ ~sent /\ ~packet.good
         \/ {"audio write", "encoder"} \cap failed # {}
         \/ deaf # {})

=============================================================================
