---------------------------- MODULE AudioDecode ----------------------------
(***************************************************************************)
(* The sound of the player (video_player/player.h): audio_callback, which  *)
(* SDL calls from its audio thread for each len bytes of sound, and        *)
(* audio_decode_frame, which it calls for each frame.  Packets arrive      *)
(* through audioq.  The main thread calls get_audio_clock at any moment,   *)
(* without a lock: it reads the clock, the size of the buffer and the      *)
(* index one after the other, and the audio thread may go on in between.   *)
(*                                                                         *)
(* Sizes of sound are in bytes, and time is in the duration of one byte:   *)
(* bytes_per_sec of get_audio_clock is then 1.  av_sync_type is that of    *)
(* main.cpp, AV_SYNC_AUDIO_MASTER, in which synchronize_audio returns the  *)
(* size it was given.                                                      *)
(*                                                                         *)
(* The decoder is libavcodec: it holds the frames left of the packet being *)
(* decoded, one packet more and one frame ready.  An empty packet tells it *)
(* that the stream is over, after which it takes no other.                 *)
(***************************************************************************)
EXTENDS Integers, Sequences, SequencesExt

CONSTANTS
    Sounds,     \* sequences of packets, the inputs
    Length,     \* len, the bytes that the device asks for
    Silence     \* the bytes of silence after an error

NoPts == -1     \* AV_NOPTS_VALUE
None == <<0, 0>>

(* A packet has its size, its pts, the sizes of the frames in it, and      *)
(* whether the decoder can decode it.                                      *)
Packets == [size : Nat \ {0}, pts : Int, frames : Seq(Nat \ {0}),
            good : BOOLEAN]

ASSUME AudioAssumption ==
    /\ Sounds \subseteq Seq(Packets)
    /\ Length \in Nat \ {0} /\ Silence \in Nat \ {0}

VARIABLES
    sound,
    put,                \* the packets that decode_thread has put in audioq
    finished,           \* finished_decoding
    taken,              \* the packets taken from audioq
    audio_pkt_size,     \* static in audio_decode_frame
    avPacket,           \* its packet of this call, 0 if empty
    len1,               \* its local
    decoder,
    at,                 \* where the audio thread is
    audio_buf,          \* the frame in the buffer, None for silence
    audio_buf_size,
    audio_buf_index,
    audio_clock,
    len,                \* what audio_callback has left to fill
    written,            \* the pieces of frames written to the device
    reader              \* a call of get_audio_clock: what it reads next
                        \* ("no" when there is none) and what it has read,
                        \* with the sound that was heard when it began

bufferVars == <<audio_buf, audio_buf_size, audio_buf_index>>
callVars == <<audio_pkt_size, avPacket, len1, decoder>>
vars == <<sound, put, finished, taken, callVars, at, bufferVars, audio_clock,
          len, written, reader>>

(* Frame i of packet p is <<p, i>>.                                        *)
Size(f) == sound[f[1]].frames[f[2]]
FramesOf(p) == [i \in DOMAIN sound[p].frames |-> <<p, i>>]
PacketSize(p) == IF p = 0 THEN 0 ELSE sound[p].size

NoReader == [next |-> "no", pts |-> 0, size |-> 0, heard |-> 0, untimed |-> 0]

(* The operators called Mutant... are broken versions of the definition    *)
(* that follows them; PROJECT.json names the property each must violate.   *)

Init ==
    /\ sound \in Sounds
    /\ put = 0 /\ finished = FALSE /\ taken = 0
    /\ audio_pkt_size = 0 /\ avPacket = 0 /\ len1 = 0
    /\ decoder = [frames |-> <<>>, next |-> 0, ready |-> None, eof |-> FALSE]
    /\ at = "out"
    /\ audio_buf = None /\ audio_buf_size = 0 /\ audio_buf_index = 0
    /\ audio_clock = 0
    /\ len = 0
    /\ written = <<>>
    /\ reader = NoReader

-----------------------------------------------------------------------------
(* The decoder: each operation gives its return value and what it leaves.  *)

(* The next frame made ready.                                              *)
Decode(d) ==
    IF d.frames # <<>> THEN
        [ret |-> "ok",
         d |-> [d EXCEPT !.frames = Tail(@), !.ready = Head(d.frames)]]
    ELSE IF d.next # 0 THEN
        LET frames == FramesOf(d.next) IN
        IF sound[d.next].good /\ frames # <<>>
        THEN [ret |-> "ok", d |-> [d EXCEPT !.frames = Tail(frames),
                                            !.next = 0,
                                            !.ready = Head(frames)]]
        ELSE [ret |-> IF sound[d.next].good THEN "EAGAIN" ELSE "error",
              d |-> [d EXCEPT !.next = 0]]
    ELSE [ret |-> IF d.eof THEN "EOF" ELSE "EAGAIN", d |-> d]

avcodec_receive_frame(d) ==
    LET r == IF d.ready # None THEN [ret |-> "ok", d |-> d] ELSE Decode(d) IN
    [ret |-> r.ret, frame |-> r.d.ready, d |-> [r.d EXCEPT !.ready = None]]

avcodec_send_packet(d, p) ==
    IF d.eof THEN [ret |-> "EOF", d |-> d]
    ELSE IF p # 0 /\ d.next # 0 THEN [ret |-> "EAGAIN", d |-> d]
    ELSE LET e == IF p = 0 THEN [d EXCEPT !.eof = TRUE]
                  ELSE [d EXCEPT !.next = p]
             r == IF e.ready # None THEN [ret |-> "ok", d |-> e]
                  ELSE Decode(e)
         IN  [ret |-> IF r.ret = "error" THEN "error" ELSE "ok", d |-> r.d]

-----------------------------------------------------------------------------
(* decode_thread, as far as the sound is concerned                         *)

ReadPacket ==
    /\ ~finished
    /\ put < Len(sound)
    /\ put' = put + 1
    /\ at' = IF at = "asleep" THEN "get" ELSE at
    /\ UNCHANGED <<sound, finished, taken, callVars, bufferVars, audio_clock,
                   len, written, reader>>

(* Without a signal: PacketQueue shows what that does to a consumer that   *)
(* is asleep.                                                              *)
FinishReading ==
    /\ ~finished
    /\ put = Len(sound)
    /\ finished' = TRUE
    /\ UNCHANGED <<sound, put, taken, callVars, at, bufferVars, audio_clock,
                   len, written, reader>>

-----------------------------------------------------------------------------
(* audio_callback                                                          *)

(* The device asks for more sound.                                         *)
AudioCallback ==
    /\ at = "out"
    /\ len' = Length
    /\ at' = "fill"
    /\ UNCHANGED <<sound, put, finished, taken, callVars, bufferVars,
                   audio_clock, written, reader>>

(* The buffer has been written: audio_decode_frame is called, with a       *)
(* packet of its own.                                                      *)
CallDecode ==
    /\ at = "fill"
    /\ audio_buf_index >= audio_buf_size
    /\ at' = "decode"
    /\ avPacket' = 0
    /\ len1' = 0
    /\ UNCHANGED <<sound, put, finished, taken, audio_pkt_size, decoder,
                   bufferVars, audio_clock, len, written, reader>>

Smaller(m, n) == IF m < n THEN m ELSE n
Piece(n) == [frame |-> audio_buf, from |-> audio_buf_index,
             to |-> audio_buf_index + n]

(* All of the buffer is taken for what the device has asked for.           *)
MutantWriteStream ==
    /\ at = "fill"
    /\ audio_buf_index < audio_buf_size
    /\ LET n == Smaller(audio_buf_size - audio_buf_index, len) IN
       /\ len' = len - n
       /\ audio_buf_index' = audio_buf_size
       /\ at' = IF len' = 0 THEN "out" ELSE "fill"
       /\ written' = IF audio_buf = None THEN written
                     ELSE Append(written, Piece(n))
    /\ UNCHANGED <<sound, put, finished, taken, callVars, audio_buf,
                   audio_buf_size, audio_clock, reader>>

(* What the device still wants of what the buffer still has.               *)
WriteStream ==
    /\ at = "fill"
    /\ audio_buf_index < audio_buf_size
    /\ LET n == Smaller(audio_buf_size - audio_buf_index, len) IN
       /\ len' = len - n
       /\ audio_buf_index' = audio_buf_index + n
       /\ at' = IF len' = 0 THEN "out" ELSE "fill"
       /\ written' = IF audio_buf = None THEN written
                     ELSE Append(written, Piece(n))
    /\ UNCHANGED <<sound, put, finished, taken, callVars, audio_buf,
                   audio_buf_size, audio_clock, reader>>

(* The size is stored before the index.                                    *)
StoreSize ==
    /\ at = "size"
    /\ audio_buf_size' = IF audio_buf = None THEN Silence ELSE Size(audio_buf)
    /\ at' = "index"
    /\ UNCHANGED <<sound, put, finished, taken, callVars, audio_buf,
                   audio_buf_index, audio_clock, len, written, reader>>

StoreIndex ==
    /\ at = "index"
    /\ audio_buf_index' = 0
    /\ at' = "fill"
    /\ UNCHANGED <<sound, put, finished, taken, callVars, audio_buf,
                   audio_buf_size, audio_clock, len, written, reader>>

-----------------------------------------------------------------------------
(* audio_decode_frame                                                      *)

(* It returns -1, and audio_callback fills its buffer with silence.        *)
Fails ==
    /\ audio_buf' = None
    /\ at' = "size"
    /\ UNCHANGED <<audio_pkt_size, len1, audio_clock>>

(* A frame is returned and the clock moved on, by the duration of twice    *)
(* its bytes: n is the number of channels, a sample has two bytes.         *)
Returns(f) ==
    /\ audio_buf' = f
    /\ audio_clock' = audio_clock + 2 * Size(f)
    /\ at' = "size"

Again == at' = "decode" /\ UNCHANGED <<audio_buf, audio_clock>>

(* The size is not taken off.                                              *)
MutantConsume(sent) ==
    /\ len1' = IF sent = "ok" THEN PacketSize(avPacket) ELSE len1
    /\ audio_pkt_size' = audio_pkt_size

(* The size of a packet that was sent is taken off audio_pkt_size; when    *)
(* none was, that of the packet sent before it in this call, if any.       *)
Consume(sent) ==
    /\ len1' = IF sent = "ok" THEN PacketSize(avPacket) ELSE len1
    /\ audio_pkt_size' = audio_pkt_size - len1'

(* That the decoder wants a packet is taken for an error.                  *)
MutantDecodeNoRetry ==
    /\ at = "decode"
    /\ audio_pkt_size > 0
    /\ LET r == avcodec_receive_frame(decoder)
           s == avcodec_send_packet(r.d, avPacket)
       IN  IF r.ret # "ok"
           THEN decoder' = r.d /\ Fails
           ELSE /\ decoder' = s.d
                /\ IF s.ret \in {"EOF", "error"} THEN Fails
                   ELSE Consume(s.ret) /\ Returns(r.frame)
    /\ UNCHANGED <<sound, put, finished, taken, avPacket, audio_buf_size,
                   audio_buf_index, len, written, reader>>

(* One turn of the inner loop.  A frame that was received is lost when the *)
(* packet cannot be sent after it.                                         *)
DecodePacket ==
    /\ at = "decode"
    /\ audio_pkt_size > 0
    /\ LET r == avcodec_receive_frame(decoder)
           s == avcodec_send_packet(r.d, avPacket)
       IN  IF \/ r.ret # "ok" /\ finished
              \/ r.ret \in {"EOF", "error"}
           THEN decoder' = r.d /\ Fails
           ELSE /\ decoder' = s.d
                /\ IF s.ret \in {"EOF", "error"} THEN Fails
                   ELSE /\ Consume(s.ret)
                        /\ IF r.ret = "ok" THEN Returns(r.frame) ELSE Again
    /\ UNCHANGED <<sound, put, finished, taken, avPacket, audio_buf_size,
                   audio_buf_index, len, written, reader>>

NextPacket ==
    /\ at = "decode"
    /\ audio_pkt_size <= 0
    /\ at' = "get"
    /\ UNCHANGED <<sound, put, finished, taken, callVars, bufferVars,
                   audio_clock, len, written, reader>>

(* A pts is taken only when there is none.                                 *)
MutantGetPacket ==
    /\ at = "get"
    /\ taken < put
    /\ taken' = taken + 1
    /\ avPacket' = taken'
    /\ audio_pkt_size' = sound[taken'].size
    /\ audio_clock' = IF sound[taken'].pts = NoPts THEN sound[taken'].pts
                      ELSE audio_clock
    /\ at' = "decode"
    /\ UNCHANGED <<sound, put, finished, len1, decoder, bufferVars, len,
                   written, reader>>

(* The clock is set to the pts of the packet, before any of it is heard.   *)
GetPacket ==
    /\ at = "get"
    /\ taken < put
    /\ taken' = taken + 1
    /\ avPacket' = taken'
    /\ audio_pkt_size' = sound[taken'].size
    /\ audio_clock' = IF sound[taken'].pts = NoPts THEN audio_clock
                      ELSE sound[taken'].pts
    /\ at' = "decode"
    /\ UNCHANGED <<sound, put, finished, len1, decoder, bufferVars, len,
                   written, reader>>

GetNone ==
    /\ at = "get"
    /\ taken = put
    /\ IF finished THEN Fails
       ELSE at' = "asleep" /\ UNCHANGED <<audio_pkt_size, len1, audio_clock,
                                          audio_buf>>
    /\ UNCHANGED <<sound, put, finished, taken, avPacket, decoder,
                   audio_buf_size, audio_buf_index, len, written, reader>>

-----------------------------------------------------------------------------
(* get_audio_clock, in the main thread                                     *)

(* Where the frame of packet p + 1 begins in a simple film, for each p.    *)
Starts ==
    LET start[p \in 0..Len(sound)] ==
            IF p = 0 THEN 0 ELSE start[p - 1] + sound[p].frames[1]
    IN start
Start(p) == Starts[p - 1]
Longest == Max({0} \cup {sound[p].frames[1] : p \in DOMAIN sound})

(* What has been heard, in time.                                           *)
Position ==
    IF written = <<>> THEN 0
    ELSE Start(Last(written).frame[1]) + Last(written).to

(* The packets since the last one with a pts.                              *)
TimedPackets == {p \in 1..taken : sound[p].pts # NoPts}
Untimed == taken - Max(TimedPackets \cup {0})

ReadClock ==
    /\ reader.next = "no"
    /\ reader' = [next |-> "size", pts |-> audio_clock, size |-> 0,
                  heard |-> Position, untimed |-> Untimed]
    /\ UNCHANGED <<sound, put, finished, taken, callVars, at, bufferVars,
                   audio_clock, len, written>>

ReadSize ==
    /\ reader.next = "size"
    /\ reader' = [reader EXCEPT !.next = "index", !.size = audio_buf_size]
    /\ UNCHANGED <<sound, put, finished, taken, callVars, at, bufferVars,
                   audio_clock, len, written>>

(* The index is read, and the call returns.                                *)
ReadIndex ==
    /\ reader.next = "index"
    /\ reader' = NoReader
    /\ UNCHANGED <<sound, put, finished, taken, callVars, at, bufferVars,
                   audio_clock, len, written>>

(* What the call returns if it reads the index now.                        *)
get_audio_clock == reader.pts - (reader.size - audio_buf_index)

-----------------------------------------------------------------------------

DecodeThread == ReadPacket \/ FinishReading

AudioThread == AudioCallback \/ CallDecode \/ WriteStream \/ StoreSize
               \/ StoreIndex \/ DecodePacket \/ NextPacket \/ GetPacket
               \/ GetNone

MainThread == ReadClock \/ ReadSize \/ ReadIndex

Next == DecodeThread \/ AudioThread \/ MainThread

Spec == Init /\ [][Next]_vars

(* Both threads are scheduled, and the device goes on asking for sound.    *)
FairSpec == Spec /\ WF_vars(DecodeThread) /\ WF_vars(AudioThread)

-----------------------------------------------------------------------------

TypeOK ==
    /\ sound \in Sounds
    /\ put \in 0..Len(sound) /\ taken \in 0..put
    /\ finished \in BOOLEAN
    /\ audio_pkt_size \in Int /\ len1 \in Nat
    /\ avPacket \in 0..taken
    /\ at \in {"out", "fill", "size", "index", "decode", "get", "asleep"}
    /\ audio_buf_size \in Nat /\ audio_buf_index \in Nat
    /\ at # "index" => audio_buf_index <= audio_buf_size
    /\ audio_clock \in Int
    /\ len \in 0..Length
    /\ reader.next \in {"no", "size", "index"}

(* A film as most are: each packet holds one frame that can be decoded.    *)
Simple(s) == \A p \in DOMAIN s : Len(s[p].frames) = 1 /\ s[p].good

(* Frame g may follow frame f: in a simple film none is left out.          *)
Follows(f, g) ==
    \/ g[1] > f[1] /\ (Simple(sound) => g[1] = f[1] + 1)
    \/ g[1] = f[1] /\ g[2] > f[2]

(* The frames are heard in order, each of them whole and in one piece      *)
(* however the calls of the device cut it, although a call of              *)
(* audio_decode_frame receives a frame before it sends its packet.         *)
InOrder ==
    /\ TypeOK
    /\ written # <<>> => written[1].from = 0
    /\ \A i \in 2..Len(written) :
         LET v == written[i - 1]
             w == written[i]
         IN  IF w.frame = v.frame THEN w.from = v.to
             ELSE /\ Follows(v.frame, w.frame)
                  /\ v.to = Size(v.frame) /\ w.from = 0

Silent == at = "size" /\ audio_buf = None

(* In a simple film audio_decode_frame fails only when the film has been   *)
(* read, and then only before the first frame or after the last packet.    *)
SilentAtTheEnds ==
    Silent /\ Simple(sound) => finished /\ taken \in {0, 1, Len(sound)}

(* Packets have the right pts or none.                                     *)
Timed(s) == \A p \in DOMAIN s : s[p].pts \in {NoPts, Start(p)}
LongestBuffer == IF Longest < Silence THEN Silence ELSE Longest

(* In a simple film what get_audio_clock returns, at whatever moments it   *)
(* reads, is not behind the sound that was heard when it began by more     *)
(* than a buffer, and ahead of it by no more than three frames, one more   *)
(* for each packet since the last with a pts, and a buffer.  The buffer is *)
(* for the frame that the audio thread may have changed in between; the    *)
(* clock itself moves on by twice each frame, and the next pts corrects it.*)
ClockLead ==
    Simple(sound) /\ Timed(sound) /\ reader.next = "index" =>
        /\ reader.heard <= get_audio_clock + LongestBuffer
        /\ get_audio_clock <= reader.heard + (3 + reader.untimed) * Longest
                              + LongestBuffer

(* A simple film is heard up to the last frame but one, which the decoder  *)
(* would give for a packet more, unless it was read before its first frame *)
(* was decoded: however often the callback slept, no more is lost.         *)
HeardToEnd ==
    Simple(sound) ~>
        \/ Silent /\ finished /\ taken <= 1 /\ written = <<>>
        \/ /\ written # <<>>
           /\ Last(written).frame = <<Len(sound) - 1, 1>>
           /\ Last(written).to = Size(Last(written).frame)

=============================================================================
