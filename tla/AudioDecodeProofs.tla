------------------------- MODULE AudioDecodeProofs -------------------------
(***************************************************************************)
(* InOrder, SilentAtTheEnds and ClockLead of AudioDecode, for every sound, *)
(* whatever the sizes and the number of its packets and frames.            *)
(*                                                                         *)
(* The decoder holds frames of three kinds: one that is ready, those left  *)
(* of a packet, and those of a packet it has not begun.  Ordered says that *)
(* they are in order and come after the frame given last; the lemmas on    *)
(* avcodec_receive_frame and avcodec_send_packet keep it.  BufferInv ties  *)
(* what was written to the buffer, and SimpleInv says what the decoder     *)
(* holds of a simple film: exactly the packet that was sent last.          *)
(*                                                                         *)
(* LeadInv is about the clock of a simple film.  It is compared with where *)
(* the packet sent last begins (ClockInv), and what has been heard is      *)
(* found from the frame in the buffer and its size and index, which while  *)
(* they change belong to different frames (SwapInv).                       *)
(***************************************************************************)
EXTENDS AudioDecode, WellFoundedInduction, TLAPS

FrameIds == Nat \X Nat
Decoders == [frames : Seq(FrameIds), next : Nat, ready : FrameIds,
             eof : BOOLEAN]
Pieces == [frame : FrameIds, from : Nat, to : Nat]

IsFrame(f) ==
    /\ f \in FrameIds
    /\ f[1] \in 1..Len(sound)
    /\ f[2] \in 1..Len(sound[f[1]].frames)

(* Frame f comes before frame g, in the order of packets.                  *)
Before(f, g) == f[1] < g[1] \/ (f[1] = g[1] /\ f[2] < g[2])

(* Frame g comes after frame f, and is of a packet up to b.                *)
Between(g, f, b) == IsFrame(g) /\ Before(f, g) /\ g[1] <= b

(* The frames that decoder d holds come after f and are in order, and no   *)
(* packet after b has been sent to it.                                     *)
Ordered(d, f, b) ==
    /\ f \in FrameIds /\ f[1] <= b
    /\ \A i \in DOMAIN d.frames : Between(d.frames[i], f, b)
    /\ \A i, j \in DOMAIN d.frames :
         i < j => Before(d.frames[i], d.frames[j])
    /\ d.ready # None =>
         /\ Between(d.ready, f, b)
         /\ \A i \in DOMAIN d.frames : Before(d.ready, d.frames[i])
    /\ d.next \in 0..b
    /\ d.next # 0 =>
         /\ f[1] < d.next /\ d.ready[1] < d.next
         /\ \A i \in DOMAIN d.frames : d.frames[i][1] < d.next

Types ==
    /\ decoder \in Decoders
    /\ audio_buf \in FrameIds
    /\ written \in Seq(Pieces)
    /\ DOMAIN reader = {"next", "pts", "size", "heard", "untimed"}

(* The frame that audio_decode_frame has returned last.                    *)
LastGiven == IF audio_buf # None THEN audio_buf
             ELSE IF written # <<>> THEN Last(written).frame ELSE None

(* The packet of this call is still to be sent.                            *)
ToSend == at = "decode" /\ audio_pkt_size > 0 /\ avPacket # 0

CallInv ==
    /\ Ordered(decoder, LastGiven, IF ToSend THEN taken - 1 ELSE taken)
    /\ ToSend => avPacket = taken /\ audio_pkt_size = sound[taken].size
    /\ at \in {"get", "asleep"} => audio_pkt_size <= 0
    /\ finished => put = Len(sound)

(* Nothing of the buffer has been written.                                 *)
Fresh == at \in {"size", "index"} \/ audio_buf_index = 0

(* The last piece written is the part of the buffer before the index or    *)
(* ends the frame before.                                                  *)
BufferInv ==
    /\ audio_buf # None => IsFrame(audio_buf)
    /\ audio_buf # None /\ at # "size" => audio_buf_size = Size(audio_buf)
    /\ at \in {"decode", "get", "asleep"} => audio_buf_index = audio_buf_size
    /\ at # "out" => len > 0
    /\ audio_buf # None /\ ~Fresh => written # <<>>
    /\ written # <<>> =>
         LET w == Last(written) IN
         /\ IsFrame(w.frame)
         /\ IF audio_buf # None /\ ~Fresh
            THEN w.frame = audio_buf /\ w.to = audio_buf_index
            ELSE /\ w.to = Size(w.frame)
                 /\ audio_buf # None => Follows(w.frame, audio_buf)

(* In a simple film: the packets sent, of which the decoder holds the last *)
(* one, and the frame before it is the one given last.                     *)
Holds(d, f) == d.frames = <<>> /\ d.next = 0 /\ d.ready = f /\ ~d.eof
Sent == IF audio_pkt_size > 0 THEN taken - 1 ELSE taken

SimpleInv == Simple(sound) =>
    /\ Holds(decoder, IF Sent = 0 THEN None ELSE <<Sent, 1>>)
    /\ LastGiven = IF Sent < 2 THEN None ELSE <<Sent - 1, 1>>
    /\ audio_pkt_size > 0 => taken > 0
    /\ audio_pkt_size > 0 /\ ~ToSend => taken = 1 /\ finished

IInv == InOrder /\ SilentAtTheEnds /\ Types /\ CallInv /\ BufferInv
        /\ SimpleInv

-----------------------------------------------------------------------------
(* The input                                                               *)

(* The types of a packet, and the size of a frame.                         *)
LEMMA SoundType ==
    ASSUME sound \in Sounds, NEW p \in 1..Len(sound)
    PROVE  /\ sound[p].size \in Nat \ {0}
           /\ sound[p].pts \in Int
           /\ sound[p].frames \in Seq(Nat \ {0})
           /\ sound[p].good \in BOOLEAN
<1>1. sound \in Seq(Packets)
  BY AudioAssumption
<1>2. sound[p] \in Packets
  BY <1>1
<1> QED BY <1>2 DEF Packets

LEMMA LengthType == ASSUME sound \in Sounds PROVE Len(sound) \in Nat
  BY AudioAssumption

LEMMA SizeType ==
    ASSUME sound \in Sounds, NEW f, IsFrame(f)
    PROVE  Size(f) \in Nat /\ Size(f) > 0
<1>1. f[1] \in 1..Len(sound) /\ f[2] \in 1..Len(sound[f[1]].frames)
  BY DEF IsFrame
<1>2. sound[f[1]].frames \in Seq(Nat \ {0})
  BY <1>1, SoundType
<1>3. sound[f[1]].frames[f[2]] \in Nat \ {0}
  BY <1>1, <1>2
<1> QED BY <1>3 DEF Size

(* The frames of a packet, as the decoder takes them.                      *)
LEMMA FramesOfType ==
    ASSUME sound \in Sounds, NEW p \in 1..Len(sound)
    PROVE  /\ FramesOf(p) \in Seq(FrameIds)
           /\ Len(FramesOf(p)) = Len(sound[p].frames)
           /\ \A i \in 1..Len(FramesOf(p)) :
                FramesOf(p)[i] = <<p, i>> /\ IsFrame(FramesOf(p)[i])
<1>1. sound[p].frames \in Seq(Nat \ {0})
  BY SoundType
<1> DEFINE n == Len(sound[p].frames)
<1>2. n \in Nat /\ DOMAIN sound[p].frames = 1..n
  BY <1>1
<1>3. FramesOf(p) = [i \in 1..n |-> <<p, i>>]
  BY <1>2 DEF FramesOf
<1>4. \A i \in 1..n : <<p, i>> \in FrameIds
  BY <1>2, LengthType DEF FrameIds
<1> HIDE DEF n
<1>5. FramesOf(p) \in Seq(FrameIds) /\ Len(FramesOf(p)) = n
  BY <1>2, <1>3, <1>4
<1>6. \A i \in 1..n : FramesOf(p)[i] = <<p, i>>
  BY <1>3
<1>7. \A i \in 1..n : IsFrame(<<p, i>>)
  BY <1>4 DEF IsFrame, n
<1> QED BY <1>5, <1>6, <1>7 DEF n

-----------------------------------------------------------------------------
(* The decoder                                                             *)

(* Decode makes the next frame ready, if there is one.                     *)
LEMMA DecodeOrdered ==
    ASSUME sound \in Sounds, NEW d \in Decoders, d.ready = None,
           NEW f, NEW b \in 0..Len(sound), Ordered(d, f, b)
    PROVE  LET r == Decode(d) IN
           /\ r.d \in Decoders /\ Ordered(r.d, f, b)
           /\ r.d.ready # None <=> r.ret = "ok"
           /\ r.ret # "ok" => r.d.next = 0
           /\ r.d.next # 0 => d.next # 0
<1> DEFINE r == Decode(d)
<1>1. CASE d.frames # <<>>
  <2> DEFINE t == Tail(d.frames)
             h == Head(d.frames)
  <2>1. d.frames \in Seq(FrameIds)
    BY DEF Decoders
  <2>2. /\ t \in Seq(FrameIds) /\ Len(t) = Len(d.frames) - 1
        /\ \A i \in 1..Len(t) : t[i] = d.frames[i + 1]
        /\ h = d.frames[1] /\ h \in FrameIds
        /\ Len(d.frames) \in Nat /\ Len(d.frames) > 0
    BY <1>1, <2>1
  <2>3. r = [ret |-> "ok", d |-> [d EXCEPT !.frames = t, !.ready = h]]
    BY <1>1 DEF Decode
  <2> HIDE DEF t, h
  <2>3a. r.ret = "ok" /\ r.d = [d EXCEPT !.frames = t, !.ready = h]
    BY <2>3
  <2>4. /\ r.ret = "ok" /\ r.d.frames = t /\ r.d.ready = h
        /\ r.d.next = d.next /\ r.d \in Decoders
    <3> HIDE DEF r
    <3> QED BY <2>2, <2>3a DEF Decoders
  <2>5. /\ Between(h, f, b)
        /\ d.next # 0 => h[1] < d.next
    BY <2>2 DEF Ordered
  <2>6. h # None
    BY <2>5 DEF Between, IsFrame, None
  <2>7. \A i \in 1..Len(t) : i + 1 \in 1..Len(d.frames)
    BY <2>2
  <2>8. \A i \in 1..Len(t) : /\ Between(t[i], f, b) /\ Before(h, t[i])
                             /\ d.next # 0 => t[i][1] < d.next
    BY <2>1, <2>2, <2>7 DEF Ordered
  <2>9. \A i, j \in 1..Len(t) : i < j => Before(t[i], t[j])
    <3> TAKE i, j \in 1..Len(t)
    <3> HAVE i < j
    <3>1. /\ i + 1 < j + 1
          /\ i + 1 \in DOMAIN d.frames /\ j + 1 \in DOMAIN d.frames
      BY <2>1, <2>2, <2>7
    <3> QED BY <2>2, <3>1 DEF Ordered
  <2>10. DOMAIN t = 1..Len(t)
    BY <2>2
  <2>11. Ordered(r.d, f, b)
    BY <2>4, <2>5, <2>8, <2>9, <2>10 DEF Ordered
  <2> QED BY <2>4, <2>6, <2>11
<1>2. CASE d.frames = <<>> /\ d.next # 0
  <2> DEFINE fs == FramesOf(d.next)
  <2>1. d.next \in 1..b /\ d.next \in 1..Len(sound)
    BY <1>2, LengthType DEF Ordered
  <2>2. /\ fs \in Seq(FrameIds)
        /\ \A i \in 1..Len(fs) : fs[i] = <<d.next, i>> /\ IsFrame(fs[i])
    BY <2>1, FramesOfType
  <2> HIDE DEF fs
  <2>3. CASE sound[d.next].good /\ fs # <<>>
    <3> DEFINE t == Tail(fs)
    <3>1. /\ t \in Seq(FrameIds) /\ Len(t) = Len(fs) - 1
          /\ \A i \in 1..Len(t) : i + 1 \in 1..Len(fs) /\ t[i] = fs[i + 1]
          /\ Head(fs) = fs[1] /\ 1 \in 1..Len(fs) /\ Len(fs) \in Nat
      BY <2>2, <2>3
    <3>2. r = [ret |-> "ok", d |-> [d EXCEPT !.frames = t, !.next = 0,
                                             !.ready = Head(fs)]]
      BY <1>2, <2>3 DEF Decode, fs
    <3> HIDE DEF t
    <3>1a. Head(fs) = <<d.next, 1>> /\ Head(fs) \in FrameIds
      BY <2>2, <3>1
    <3>2a. r.ret = "ok" /\ r.d = [d EXCEPT !.frames = t, !.next = 0,
                                          !.ready = Head(fs)]
      BY <3>2
    <3>3. /\ r.ret = "ok" /\ r.d.frames = t /\ r.d.ready = <<d.next, 1>>
          /\ r.d.next = 0 /\ r.d \in Decoders
      <4> HIDE DEF r
      <4>1. t \in Seq(FrameIds) /\ Head(fs) \in FrameIds /\ 0 \in Nat
        BY <3>1, <3>1a
      <4>2. r.ret = "ok" /\ r.d.frames = t /\ r.d.ready = Head(fs)
            /\ r.d.next = 0 /\ r.d \in Decoders
        BY <4>1, <3>2a DEF Decoders
      <4> QED BY <4>2, <3>1a
    <3>5. /\ IsFrame(<<d.next, 1>>)
          /\ \A i \in 1..Len(t) : t[i] = <<d.next, i + 1>> /\ IsFrame(t[i])
      BY <2>2, <3>1
    <3>6. f \in FrameIds /\ f[1] < d.next /\ f[1] <= b
      BY <1>2 DEF Ordered
    <3>7. /\ Between(<<d.next, 1>>, f, b)
          /\ \A i \in 1..Len(t) : /\ Between(t[i], f, b)
                                  /\ Before(<<d.next, 1>>, t[i])
      BY <2>1, <3>5, <3>6 DEF Between, Before
    <3>8. \A i, j \in 1..Len(t) : i < j => Before(t[i], t[j])
      BY <3>5 DEF Before
    <3>9. DOMAIN t = 1..Len(t) /\ b \in Nat
      BY <3>1, LengthType
    <3>10. Ordered(r.d, f, b)
      BY <3>3, <3>6, <3>7, <3>8, <3>9 DEF Ordered
    <3>11. r.d.ready # None
      BY <2>1, <3>3 DEF None
    <3> QED BY <3>3, <3>10, <3>11
  <2>4. CASE ~(sound[d.next].good /\ fs # <<>>)
    <3>1. r = [ret |-> IF sound[d.next].good THEN "EAGAIN" ELSE "error",
               d |-> [d EXCEPT !.next = 0]]
      BY <1>2, <2>4 DEF Decode, fs
    <3>2. /\ r.ret # "ok" /\ r.d.frames = d.frames /\ r.d.ready = d.ready
          /\ r.d.next = 0 /\ r.d \in Decoders
      BY <3>1 DEF Decoders
    <3>3. Ordered(r.d, f, b)
      BY <3>2, LengthType DEF Ordered
    <3> QED BY <3>2, <3>3
  <2> QED BY <2>3, <2>4
<1>3. CASE d.frames = <<>> /\ d.next = 0
  <2>1. r = [ret |-> IF d.eof THEN "EOF" ELSE "EAGAIN", d |-> d]
    BY <1>3 DEF Decode
  <2>2. r.ret # "ok" /\ r.d = d
    BY <2>1
  <2> QED BY <1>3, <2>2
<1> QED BY <1>1, <1>2, <1>3

(* avcodec_receive_frame gives the first of the frames.                    *)
LEMMA ReceiveOrdered ==
    ASSUME sound \in Sounds, NEW d \in Decoders,
           NEW f, NEW b \in 0..Len(sound), Ordered(d, f, b)
    PROVE  LET r == avcodec_receive_frame(d) IN
           /\ r.d \in Decoders
           /\ r.ret = "ok" => /\ Between(r.frame, f, b)
                             /\ Ordered(r.d, r.frame, b)
           /\ r.ret # "ok" => Ordered(r.d, f, b) /\ r.d.next = 0
<1> DEFINE q == IF d.ready # None THEN [ret |-> "ok", d |-> d] ELSE Decode(d)
           r == avcodec_receive_frame(d)
<1>1. /\ q.d \in Decoders /\ Ordered(q.d, f, b)
      /\ q.d.ready # None <=> q.ret = "ok"
      /\ q.ret # "ok" => q.d.next = 0
  <2>1. CASE d.ready # None
    <3>1. q.ret = "ok" /\ q.d = d
      BY <2>1
    <3> HIDE DEF q
    <3> QED BY <2>1, <3>1
  <2>2. CASE d.ready = None
    <3>1. q = Decode(d)
      BY <2>2
    <3> HIDE DEF q
    <3> QED BY <2>2, <3>1, DecodeOrdered
  <2> QED BY <2>1, <2>2
<1> HIDE DEF q
<1>2. r = [ret |-> q.ret, frame |-> q.d.ready,
           d |-> [q.d EXCEPT !.ready = None]]
  BY DEF avcodec_receive_frame, q
<1>3. r.ret = q.ret /\ r.frame = q.d.ready /\ r.d = [q.d EXCEPT !.ready = None]
  BY <1>2
<1> HIDE DEF r
<1>4. None \in FrameIds /\ None[1] = 0
  BY DEF None, FrameIds
<1>5. /\ r.d \in Decoders /\ r.d.frames = q.d.frames /\ r.d.next = q.d.next
      /\ r.d.ready = None
  BY <1>1, <1>3, <1>4 DEF Decoders
<1>6. ASSUME q.ret # "ok" PROVE Ordered(r.d, f, b)
  BY <1>1, <1>5, <1>6 DEF Ordered
<1>7. ASSUME q.ret = "ok"
      PROVE  Between(r.frame, f, b) /\ Ordered(r.d, r.frame, b)
  <2> DEFINE g == q.d.ready
             fs == q.d.frames
  <2>1. /\ Between(g, f, b)
        /\ \A i \in DOMAIN fs : Before(g, fs[i]) /\ Between(fs[i], f, b)
        /\ q.d.next # 0 => g[1] < q.d.next
    BY <1>1, <1>7 DEF Ordered
  <2>2. g \in FrameIds /\ g[1] <= b
    BY <2>1 DEF Between, IsFrame
  <2>3. \A i \in DOMAIN fs : Between(fs[i], g, b)
    BY <2>1 DEF Between
  <2> HIDE DEF g, fs
  <2>4. q.d.next # 0 => None[1] < q.d.next
    BY <1>1, <1>4 DEF Ordered
  <2>5. Ordered(r.d, g, b)
    BY <1>1, <1>5, <2>1, <2>2, <2>3, <2>4 DEF Ordered, fs
  <2> QED BY <1>3, <2>1, <2>5 DEF g
<1> QED BY <1>1, <1>3, <1>5, <1>6, <1>7 DEF r

(* avcodec_send_packet, with the packet after those that were sent.        *)
LEMMA SendOrdered ==
    ASSUME sound \in Sounds, NEW d \in Decoders, NEW f,
           NEW b \in 0..Len(sound), Ordered(d, f, b),
           NEW p \in {0, b + 1}, p <= Len(sound)
    PROVE  LET s == avcodec_send_packet(d, p) IN
           /\ s.d \in Decoders
           /\ Ordered(s.d, f, IF p = 0 THEN b ELSE p)
           /\ s.ret \in {"ok", "error", "EOF", "EAGAIN"}
           /\ s.ret = "EAGAIN" => p # 0 /\ d.next # 0
<1> DEFINE s == avcodec_send_packet(d, p)
           c == IF p = 0 THEN b ELSE p
<1>1. b \in Nat /\ c \in 0..Len(sound) /\ b <= c /\ Len(sound) \in Nat
  BY LengthType
<1>2. Ordered(d, f, c)
  BY <1>1 DEF Ordered, Between, IsFrame, FrameIds
<1>3. CASE d.eof
  <2>1. s = [ret |-> "EOF", d |-> d]
    BY <1>3 DEF avcodec_send_packet
  <2>2. s.ret = "EOF" /\ s.d = d
    BY <2>1
  <2> HIDE DEF s
  <2> QED BY <1>2, <2>2 DEF s
<1>4. CASE ~d.eof /\ p # 0 /\ d.next # 0
  <2>1. s = [ret |-> "EAGAIN", d |-> d]
    BY <1>4 DEF avcodec_send_packet
  <2> QED BY <1>2, <1>4, <2>1
<1>5. CASE ~d.eof /\ (p = 0 \/ d.next = 0)
  <2> DEFINE e == IF p = 0 THEN [d EXCEPT !.eof = TRUE]
                  ELSE [d EXCEPT !.next = p]
             r == IF e.ready # None THEN [ret |-> "ok", d |-> e]
                  ELSE Decode(e)
  <2>1. s = [ret |-> IF r.ret = "error" THEN "error" ELSE "ok", d |-> r.d]
    BY <1>5 DEF avcodec_send_packet
  <2>2. /\ e \in Decoders /\ e.frames = d.frames /\ e.ready = d.ready
        /\ e.next = IF p = 0 THEN d.next ELSE p
    <3>1. CASE p = 0
      <4>1. e = [d EXCEPT !.eof = TRUE]
        BY <3>1
      <4> HIDE DEF e
      <4> QED BY <3>1, <4>1 DEF Decoders
    <3>2. CASE p # 0
      <4>1. e = [d EXCEPT !.next = p] /\ p \in Nat
        BY <1>1, <3>2
      <4> HIDE DEF e
      <4> QED BY <3>2, <4>1 DEF Decoders
    <3> QED BY <3>1, <3>2
  <2> HIDE DEF e
  <2>3. Ordered(e, f, c)
    <3>1. CASE p = 0
      BY <1>2, <2>2, <3>1 DEF Ordered
    <3>2. CASE p # 0
      <4>1. f[1] < p /\ (d.ready # None => d.ready[1] < p)
            /\ \A i \in DOMAIN d.frames : d.frames[i][1] < p
        BY <1>1, <3>2 DEF Ordered, Between, IsFrame, FrameIds
      <4>2. None[1] < p
        BY <3>2, <1>1 DEF None
      <4> QED BY <1>1, <1>2, <2>2, <3>2, <4>1, <4>2 DEF Ordered
    <3> QED BY <3>1, <3>2
  <2>4. r.d \in Decoders /\ Ordered(r.d, f, c)
    <3>1. CASE e.ready # None
      <4>1. r.d = e
        BY <3>1
      <4> HIDE DEF r
      <4> QED BY <2>2, <2>3, <4>1
    <3>2. CASE e.ready = None
      <4>1. r = Decode(e)
        BY <3>2
      <4> HIDE DEF r, c
      <4> QED BY <1>1, <2>2, <2>3, <3>2, <4>1, DecodeOrdered
    <3> QED BY <3>1, <3>2
  <2>5. s.d = r.d /\ s.ret \in {"ok", "error"}
    BY <2>1
  <2> HIDE DEF r, s, c
  <2>6. s.d \in Decoders /\ Ordered(s.d, f, c) /\ s.ret # "EAGAIN"
        /\ s.ret \in {"ok", "error", "EOF", "EAGAIN"}
    BY <2>4, <2>5
  <2> QED BY <2>6 DEF s, c
<1> QED BY <1>3, <1>4, <1>5

-----------------------------------------------------------------------------
(* Simple films                                                            *)

(* Of a simple film the decoder gives the frame it holds, if any.          *)
LEMMA SimpleReceive ==
    ASSUME NEW d \in Decoders, NEW f \in FrameIds, Holds(d, f)
    PROVE  LET r == avcodec_receive_frame(d) IN
           /\ r.d \in Decoders /\ Holds(r.d, None)
           /\ r.ret = IF f # None THEN "ok" ELSE "EAGAIN"
           /\ f # None => r.frame = f
<1> DEFINE r == avcodec_receive_frame(d)
           e == [d EXCEPT !.ready = None]
<1>1. e \in Decoders /\ Holds(e, None)
  BY DEF Decoders, Holds, None, FrameIds
<1> HIDE DEF e
<1>2. CASE f # None
  <2>1. r = [ret |-> "ok", frame |-> d.ready, d |-> e]
    BY <1>2 DEF avcodec_receive_frame, Holds, e
  <2>2. r.d = e /\ r.ret = "ok" /\ r.frame = f
    BY <2>1 DEF Holds
  <2> QED BY <1>1, <1>2, <2>2
<1>3. CASE f = None
  <2>1. Decode(d) = [ret |-> "EAGAIN", d |-> d]
    BY DEF Decode, Holds
  <2>2. r = [ret |-> "EAGAIN", frame |-> d.ready, d |-> e]
    BY <1>3, <2>1 DEF avcodec_receive_frame, Holds, e
  <2>3. r.d = e /\ r.ret = "EAGAIN"
    BY <2>2
  <2> QED BY <1>1, <1>3, <2>3
<1> QED BY <1>2, <1>3

(* A packet of a simple film is taken, and its frame made ready.           *)
LEMMA SimpleSend ==
    ASSUME sound \in Sounds, Simple(sound), NEW p \in 1..Len(sound),
           NEW d \in Decoders, Holds(d, None)
    PROVE  LET s == avcodec_send_packet(d, p) IN
           s.ret = "ok" /\ s.d \in Decoders /\ Holds(s.d, <<p, 1>>)
<1> DEFINE e == [d EXCEPT !.next = p]
           fs == FramesOf(p)
           s == avcodec_send_packet(d, p)
<1>1. p \in Nat /\ p # 0
  BY LengthType
<1>2. sound[p].good /\ Len(sound[p].frames) = 1
  <2>1. DOMAIN sound = 1..Len(sound)
    BY AudioAssumption
  <2> QED BY <2>1 DEF Simple
<1>3. fs \in Seq(FrameIds) /\ Len(fs) = 1 /\ fs[1] = <<p, 1>>
  BY <1>2, FramesOfType
<1> HIDE DEF fs
<1>4. fs # <<>> /\ Head(fs) = <<p, 1>> /\ Head(fs) \in FrameIds
  <2>1. fs # <<>> /\ Head(fs) = fs[1] /\ fs[1] \in FrameIds
    BY <1>3
  <2> QED BY <1>3, <2>1
<1>5. Tail(fs) = <<>> /\ Tail(fs) \in Seq(FrameIds)
  <2>1. Tail(fs) \in Seq(FrameIds) /\ Len(Tail(fs)) = 0
    BY <1>3, <1>4
  <2>2. \A t \in Seq(FrameIds) : Len(t) = 0 => t = <<>>
    OBVIOUS
  <2> QED BY <2>1, <2>2
<1>6. e \in Decoders /\ e.frames = <<>> /\ e.next = p /\ e.ready = None
      /\ ~e.eof
  BY <1>1 DEF Decoders, Holds
<1> DEFINE g == [e EXCEPT !.frames = Tail(fs), !.next = 0, !.ready = Head(fs)]
<1>7. g \in Decoders /\ Holds(g, <<p, 1>>)
  <2> HIDE DEF e
  <2> QED BY <1>4, <1>5, <1>6 DEF Decoders, Holds
<1> HIDE DEF g, e
<1>8. Decode(e) = [ret |-> "ok", d |-> g]
  BY <1>1, <1>2, <1>4, <1>6 DEF Decode, fs, g
<1>9. s = [ret |-> "ok", d |-> Decode(e).d]
  BY <1>1, <1>6, <1>8 DEF avcodec_send_packet, e, Holds
<1>10. s.ret = "ok" /\ s.d = g
  BY <1>8, <1>9
<1> QED BY <1>7, <1>10
-----------------------------------------------------------------------------
(* The steps                                                               *)

(* What was written stays in order as long as nothing more is written.     *)
LEMMA OrderKept ==
    ASSUME InOrder, TypeOK', sound' = sound, written' = written
    PROVE  InOrder'
  BY DEF InOrder, Follows, Size, Simple

LEMMA ReadPacketStep == ASSUME IInv, ReadPacket PROVE IInv'
<1> USE DEF IInv, ReadPacket
<1>1. TypeOK' /\ Types'
  BY DEF InOrder, TypeOK, Types, callVars, bufferVars
<1>2. sound' = sound /\ written' = written /\ LastGiven' = LastGiven
  BY DEF bufferVars, LastGiven
<1>3. InOrder'
  BY <1>1, OrderKept
<1>4. CallInv'
  BY <1>2 DEF CallInv, ToSend, Ordered, Between, IsFrame, callVars
<1>5. BufferInv'
  BY DEF BufferInv, Fresh, IsFrame, Follows, Size, bufferVars
<1>6. SimpleInv'
  BY <1>2 DEF SimpleInv, Sent, ToSend, callVars
<1>7. SilentAtTheEnds'
  BY DEF SilentAtTheEnds, Silent, bufferVars
<1> QED BY <1>1, <1>3, <1>4, <1>5, <1>6, <1>7

LEMMA FinishReadingStep == ASSUME IInv, FinishReading PROVE IInv'
<1> USE DEF IInv, FinishReading
<1>1. TypeOK' /\ Types'
  BY DEF InOrder, TypeOK, Types, callVars, bufferVars
<1>2. sound' = sound /\ written' = written /\ LastGiven' = LastGiven
  BY DEF bufferVars, LastGiven
<1>3. InOrder'
  BY <1>1, OrderKept
<1>4. CallInv'
  BY <1>2 DEF CallInv, ToSend, Ordered, Between, IsFrame, callVars
<1>5. BufferInv'
  BY DEF BufferInv, Fresh, IsFrame, Follows, Size, bufferVars
<1>6. SimpleInv'
  BY <1>2 DEF SimpleInv, Sent, ToSend, callVars
<1>7. SilentAtTheEnds'
  BY DEF SilentAtTheEnds, Silent, bufferVars
<1> QED BY <1>1, <1>3, <1>4, <1>5, <1>6, <1>7

LEMMA AudioCallbackStep == ASSUME IInv, AudioCallback PROVE IInv'
<1> USE DEF IInv, AudioCallback
<1>1. TypeOK' /\ Types'
  BY AudioAssumption DEF InOrder, TypeOK, Types, callVars, bufferVars
<1>2. sound' = sound /\ written' = written /\ LastGiven' = LastGiven
  BY DEF bufferVars, LastGiven
<1>3. InOrder'
  BY <1>1, OrderKept
<1>4. CallInv'
  BY <1>2 DEF CallInv, ToSend, Ordered, Between, IsFrame, callVars
<1>5. BufferInv'
  BY AudioAssumption DEF BufferInv, Fresh, IsFrame, Follows, Size, bufferVars
<1>6. SimpleInv'
  BY <1>2 DEF SimpleInv, Sent, ToSend, callVars
<1>7. SilentAtTheEnds'
  BY DEF SilentAtTheEnds, Silent
<1> QED BY <1>1, <1>3, <1>4, <1>5, <1>6, <1>7

LEMMA CallDecodeStep == ASSUME IInv, CallDecode PROVE IInv'
<1> USE DEF IInv, CallDecode
<1>1. TypeOK' /\ Types'
  BY DEF InOrder, TypeOK, Types, bufferVars
<1>2. sound' = sound /\ written' = written /\ LastGiven' = LastGiven
  BY DEF bufferVars, LastGiven
<1>3. InOrder'
  BY <1>1, OrderKept
<1>4. CallInv'
  BY <1>2 DEF CallInv, ToSend, Ordered, Between, IsFrame
<1>5. BufferInv'
  BY DEF BufferInv, Fresh, IsFrame, Follows, Size, bufferVars, InOrder, TypeOK
<1>6. SimpleInv'
  BY <1>2 DEF SimpleInv, Sent, ToSend
<1>7. SilentAtTheEnds'
  BY DEF SilentAtTheEnds, Silent
<1> QED BY <1>1, <1>3, <1>4, <1>5, <1>6, <1>7

LEMMA StoreSizeStep == ASSUME IInv, StoreSize PROVE IInv'
<1> USE DEF IInv, StoreSize
<1>1. TypeOK' /\ Types'
  <2>1. audio_buf_size' \in Nat
    BY SizeType, AudioAssumption DEF BufferInv, InOrder, TypeOK
  <2> QED BY <2>1 DEF InOrder, TypeOK, Types, callVars
<1>2. sound' = sound /\ written' = written /\ LastGiven' = LastGiven
  BY DEF LastGiven
<1>3. InOrder'
  BY <1>1, OrderKept
<1>4. CallInv'
  BY <1>2 DEF CallInv, ToSend, Ordered, Between, IsFrame, callVars
<1>5. BufferInv'
  BY DEF BufferInv, Fresh, IsFrame, Follows, Size
<1>6. SimpleInv'
  BY <1>2 DEF SimpleInv, Sent, ToSend, callVars
<1>7. SilentAtTheEnds'
  BY DEF SilentAtTheEnds, Silent
<1> QED BY <1>1, <1>3, <1>4, <1>5, <1>6, <1>7

LEMMA StoreIndexStep == ASSUME IInv, StoreIndex PROVE IInv'
<1> USE DEF IInv, StoreIndex
<1>1. TypeOK' /\ Types'
  BY DEF InOrder, TypeOK, Types, callVars
<1>2. sound' = sound /\ written' = written /\ LastGiven' = LastGiven
  BY DEF LastGiven
<1>3. InOrder'
  BY <1>1, OrderKept
<1>4. CallInv'
  BY <1>2 DEF CallInv, ToSend, Ordered, Between, IsFrame, callVars
<1>5. BufferInv'
  BY DEF BufferInv, Fresh, IsFrame, Follows, Size
<1>6. SimpleInv'
  BY <1>2 DEF SimpleInv, Sent, ToSend, callVars
<1>7. SilentAtTheEnds'
  BY DEF SilentAtTheEnds, Silent
<1> QED BY <1>1, <1>3, <1>4, <1>5, <1>6, <1>7

LEMMA NextPacketStep == ASSUME IInv, NextPacket PROVE IInv'
<1> USE DEF IInv, NextPacket
<1>1. TypeOK' /\ Types'
  BY DEF InOrder, TypeOK, Types, callVars, bufferVars
<1>2. sound' = sound /\ written' = written /\ LastGiven' = LastGiven
  BY DEF bufferVars, LastGiven
<1>3. InOrder'
  BY <1>1, OrderKept
<1>4. CallInv'
  BY <1>2 DEF CallInv, ToSend, Ordered, Between, IsFrame, callVars, InOrder,
     TypeOK
<1>5. BufferInv'
  BY DEF BufferInv, Fresh, IsFrame, Follows, Size, bufferVars
<1>6. SimpleInv'
  BY <1>2 DEF SimpleInv, Sent, callVars, InOrder, TypeOK
<1>7. SilentAtTheEnds'
  BY DEF SilentAtTheEnds, Silent
<1> QED BY <1>1, <1>3, <1>4, <1>5, <1>6, <1>7

LEMMA GetPacketStep == ASSUME IInv, GetPacket PROVE IInv'
<1> USE DEF IInv, GetPacket
<1>0. /\ taken' = taken + 1 /\ taken' \in 1..put /\ taken' \in 1..Len(sound)
      /\ audio_pkt_size' \in Nat /\ audio_pkt_size' > 0
      /\ audio_clock' \in Int
  <2>1. taken' = taken + 1 /\ taken' \in 1..put /\ taken' \in 1..Len(sound)
    BY DEF InOrder, TypeOK
  <2> QED BY SoundType DEF InOrder, TypeOK
<1>1. TypeOK' /\ Types'
  BY <1>0 DEF InOrder, TypeOK, Types, bufferVars
<1>2. sound' = sound /\ written' = written /\ LastGiven' = LastGiven
  BY DEF bufferVars, LastGiven
<1>3. InOrder'
  BY <1>1, OrderKept
<1>4. CallInv'
  BY <1>0, <1>2 DEF CallInv, ToSend, Ordered, Between, IsFrame, InOrder,
     TypeOK
<1>5. BufferInv'
  BY DEF BufferInv, Fresh, IsFrame, Follows, Size, bufferVars
<1>6. SimpleInv'
  <2>1. Sent' = Sent /\ ToSend'
    BY <1>0 DEF Sent, ToSend, CallInv, InOrder, TypeOK
  <2>2. Simple(sound)' = Simple(sound) /\ decoder' = decoder
    OBVIOUS
  <2> QED BY <1>0, <1>2, <2>1 DEF SimpleInv
<1>7. SilentAtTheEnds'
  BY DEF SilentAtTheEnds, Silent
<1> QED BY <1>1, <1>3, <1>4, <1>5, <1>6, <1>7

(* When audio_decode_frame is called, all of the buffer has been written.  *)
LEMMA BufferWritten ==
    ASSUME IInv, at \in {"decode", "get"}
    PROVE  /\ written # <<>> =>
                /\ IsFrame(Last(written).frame)
                /\ Last(written).to = Size(Last(written).frame)
                /\ LastGiven = Last(written).frame
           /\ written = <<>> => LastGiven = None
<1> USE DEF IInv, BufferInv
<1>1. ASSUME audio_buf # None
      PROVE  /\ written # <<>> /\ Last(written).frame = audio_buf
             /\ Last(written).to = Size(audio_buf)
  <2>1. audio_buf_index = Size(audio_buf) /\ Size(audio_buf) > 0
    BY <1>1, SizeType DEF InOrder, TypeOK
  <2>2. ~Fresh
    BY <2>1 DEF Fresh, InOrder, TypeOK
  <2> QED BY <1>1, <2>1, <2>2
<1> QED BY <1>1 DEF LastGiven

(* audio_decode_frame fails ...                                            *)
LEMMA FailsBuffer ==
    ASSUME IInv, at \in {"decode", "get"}, Fails,
           UNCHANGED <<sound, written, len, audio_buf_size, audio_buf_index>>
    PROVE  BufferInv' /\ LastGiven' = LastGiven
<1>1. len > 0
  BY DEF IInv, BufferInv
<1>2. audio_buf' = None /\ at' = "size"
  BY DEF Fails
<1>3. LastGiven' = LastGiven
  BY <1>2, BufferWritten DEF LastGiven
<1> QED BY <1>1, <1>2, <1>3, BufferWritten DEF BufferInv, IsFrame, Size

(* ... or returns a frame.                                                 *)
LEMMA ReturnsBuffer ==
    ASSUME IInv, at \in {"decode", "get"}, NEW f, Returns(f), IsFrame(f),
           LastGiven # None => Follows(LastGiven, f),
           UNCHANGED <<sound, written, len, audio_buf_size, audio_buf_index>>
    PROVE  BufferInv' /\ LastGiven' = f
<1>1. len > 0
  BY DEF IInv, BufferInv
<1>2. audio_buf' = f /\ at' = "size" /\ f # None
  BY DEF Returns, IsFrame, None
<1>3. LastGiven' = f
  BY <1>2 DEF LastGiven
<1>4. written # <<>> => LastGiven # None
  BY BufferWritten DEF IsFrame, None
<1> QED BY <1>1, <1>2, <1>3, <1>4, BufferWritten
     DEF BufferInv, IsFrame, Size, Fresh, Follows, Simple

LEMMA GetNoneStep == ASSUME IInv, GetNone PROVE IInv'
<1> USE DEF IInv, GetNone
<1>1. TypeOK' /\ Types'
  BY DEF InOrder, TypeOK, Types, Fails, None, FrameIds
<1>2. sound' = sound /\ written' = written
  BY DEF Fails
<1>3. InOrder'
  BY <1>1, <1>2, OrderKept
<1>4. CASE finished
  <2>1. Fails
    BY <1>4
  <2>2. BufferInv' /\ LastGiven' = LastGiven
    BY <2>1, FailsBuffer
  <2>3. CallInv'
    BY <1>2, <2>1, <2>2 DEF CallInv, ToSend, Ordered, Between, IsFrame, Fails
  <2>4. SimpleInv'
    BY <1>2, <2>1, <2>2 DEF SimpleInv, Simple, Holds, Sent, ToSend, Fails,
       CallInv, InOrder, TypeOK
  <2>5. SilentAtTheEnds'
    BY <1>2, <1>4, <2>1 DEF SilentAtTheEnds, CallInv
  <2> QED BY <1>1, <1>3, <2>2, <2>3, <2>4, <2>5
<1>5. CASE ~finished
  <2>1. at' = "asleep"
        /\ UNCHANGED <<audio_pkt_size, len1, audio_clock, audio_buf>>
    BY <1>5
  <2>2. LastGiven' = LastGiven
    BY <1>2, <2>1 DEF LastGiven
  <2>3. CallInv'
    BY <1>2, <2>1, <2>2 DEF CallInv, ToSend, Ordered, Between, IsFrame
  <2>4. BufferInv'
    BY <1>2, <2>1, <2>2 DEF BufferInv, Fresh, IsFrame, Follows, Size, Simple
  <2>5. SimpleInv'
    BY <1>2, <2>1, <2>2 DEF SimpleInv, Simple, Holds, Sent, ToSend
  <2>6. SilentAtTheEnds'
    BY <2>1 DEF SilentAtTheEnds, Silent
  <2> QED BY <1>1, <1>3, <2>3, <2>4, <2>5, <2>6
<1> QED BY <1>4, <1>5

LEMMA WriteStreamStep == ASSUME IInv, WriteStream PROVE IInv'
<1> USE DEF IInv
<1> DEFINE n == Smaller(audio_buf_size - audio_buf_index, len)
           x == Piece(n)
<1>1. /\ at = "fill"
      /\ len' = len - n /\ audio_buf_index' = audio_buf_index + n
      /\ at' \in {"out", "fill"} /\ (at' = "fill" => len' # 0)
      /\ written' = IF audio_buf = None THEN written ELSE Append(written, x)
      /\ UNCHANGED <<sound, put, finished, taken, callVars, audio_buf,
                     audio_buf_size, audio_clock, reader>>
  BY DEF WriteStream
<1>2. /\ n \in Nat /\ n > 0 /\ n <= len
      /\ audio_buf_index + n <= audio_buf_size
      /\ audio_buf_index \in Nat /\ len \in 0..Length
  BY AudioAssumption DEF WriteStream, Smaller, InOrder, TypeOK, BufferInv
<1>3. x \in Pieces
  BY <1>2 DEF Piece, Pieces, Types
<1>4. /\ x.frame = audio_buf /\ x.from = audio_buf_index
      /\ x.to = audio_buf_index + n
  BY DEF Piece
<1> HIDE DEF n, x
<1>5. TypeOK'
  BY <1>1, <1>2, AudioAssumption DEF InOrder, TypeOK, callVars
<1>6. Types'
  BY <1>1, <1>3 DEF Types, callVars
<1>7. sound' = sound /\ LastGiven' = LastGiven
  BY <1>1 DEF LastGiven
<1>8. CallInv'
  BY <1>1, <1>7 DEF CallInv, ToSend, Ordered, Between, IsFrame, callVars
<1>9. SimpleInv'
  BY <1>1, <1>7 DEF SimpleInv, Simple, Holds, Sent, ToSend, callVars
<1>10. SilentAtTheEnds'
  BY <1>1 DEF SilentAtTheEnds, Silent
<1>11. CASE audio_buf = None
  <2>1. written' = written
    BY <1>1, <1>11
  <2>2. InOrder'
    BY <1>5, <1>7, <2>1, OrderKept
  <2>3. BufferInv'
    BY <1>1, <1>2, <1>11, <2>1 DEF BufferInv, Fresh, IsFrame, Size
  <2> QED BY <1>5, <1>6, <1>8, <1>9, <1>10, <2>2, <2>3
<1>12. CASE audio_buf # None
  <2>1. /\ written' = Append(written, x) /\ written' # <<>>
        /\ written \in Seq(Pieces) /\ Len(written) \in Nat
        /\ Len(written') = Len(written) + 1 /\ written'[Len(written) + 1] = x
        /\ \A i \in 1..Len(written) : written'[i] = written[i]
    BY <1>1, <1>3, <1>12 DEF Types
  <2>2. Last(written') = x
    BY <2>1 DEF Last
  <2>3. BufferInv'
    <3>1. /\ audio_buf' = audio_buf /\ audio_buf_size' = audio_buf_size
          /\ IsFrame(audio_buf) /\ audio_buf_size = Size(audio_buf)
          /\ at' \notin {"size", "index", "decode", "get", "asleep"}
      BY <1>1, <1>12 DEF BufferInv
    <3>2. audio_buf_index' > 0 /\ (at' # "out" => len' > 0)
      BY <1>1, <1>2
    <3>3. ~Fresh'
      BY <3>1, <3>2 DEF Fresh
    <3>4. /\ Last(written').frame = audio_buf
          /\ Last(written').to = audio_buf_index'
      BY <1>1, <1>4, <2>2
    <3> QED BY <1>7, <1>12, <2>1, <3>1, <3>2, <3>3, <3>4
        DEF BufferInv, IsFrame, Size
  <2>4. written = <<>> => x.from = 0
    BY <1>1, <1>4, <1>12 DEF BufferInv, Fresh
  <2>5. ASSUME written # <<>>
        PROVE  LET v == Last(written) IN
               IF x.frame = v.frame THEN x.from = v.to
               ELSE /\ Follows(v.frame, x.frame)
                    /\ v.to = Size(v.frame) /\ x.from = 0
    <3> DEFINE v == Last(written)
    <3>1. CASE Fresh
      <4>1. Follows(v.frame, audio_buf) /\ v.to = Size(v.frame)
        BY <1>12, <2>5, <3>1 DEF BufferInv
      <4>2. v.frame \in FrameIds
        BY <2>5 DEF BufferInv, IsFrame
      <4>3. audio_buf # v.frame
        BY <4>1, <4>2 DEF Follows, FrameIds
      <4>4. audio_buf_index = 0
        BY <1>1, <3>1 DEF Fresh
      <4> QED BY <1>4, <4>1, <4>3, <4>4
    <3>2. CASE ~Fresh
      BY <1>4, <1>12, <2>5, <3>2 DEF BufferInv
    <3> QED BY <3>1, <3>2
  <2>6. written'[1].from = 0
    <3>1. CASE written = <<>>
      BY <2>1, <2>4, <3>1
    <3>2. CASE written # <<>>
      BY <2>1, <3>2 DEF InOrder
    <3> QED BY <3>1, <3>2
  <2>7. ASSUME NEW i \in 2..Len(written')
        PROVE  LET v == written'[i - 1]
                   w == written'[i]
               IN  IF w.frame = v.frame THEN w.from = v.to
                   ELSE /\ Follows(v.frame, w.frame)
                        /\ v.to = Size(v.frame) /\ w.from = 0
    <3>1. CASE i <= Len(written)
      <4>1. i \in 2..Len(written) /\ i - 1 \in 1..Len(written)
        BY <2>1, <3>1
      <4>2. written'[i - 1] = written[i - 1] /\ written'[i] = written[i]
        BY <2>1, <4>1
      <4> QED BY <4>1, <4>2 DEF InOrder
    <3>2. CASE i > Len(written)
      <4>1. i = Len(written) + 1 /\ i - 1 = Len(written) /\ written # <<>>
        BY <2>1, <3>2
      <4>2. Len(written) \in 1..Len(written)
        BY <2>1, <4>1
      <4>3. written'[i] = x /\ written'[i - 1] = Last(written)
        BY <2>1, <4>1, <4>2 DEF Last
      <4> QED BY <2>5, <4>1, <4>3
    <3> QED BY <2>1, <3>1, <3>2
  <2>8. InOrder'
    BY <1>5, <1>7, <2>6, <2>7 DEF InOrder, Follows, Size, Simple
  <2> QED BY <1>5, <1>6, <1>8, <1>9, <1>10, <2>3, <2>8
<1> QED BY <1>11, <1>12

(* What comes after a frame comes after those before it, and no packet     *)
(* after b is none after a larger one.                                     *)
LEMMA OrderedEarlier ==
    ASSUME NEW d, NEW f \in FrameIds, NEW g, NEW b \in Nat, NEW c \in Nat,
           b <= c, Ordered(d, g, b), g = f \/ Between(g, f, b)
    PROVE  Ordered(d, f, c)
<1>1. \A h : Between(h, g, b) => Between(h, f, c)
  BY DEF Between, Before, IsFrame, FrameIds
<1>2. /\ g \in FrameIds /\ g[1] <= b /\ f[1] <= g[1]
      /\ d.next \in 0..b /\ (d.next # 0 => g[1] < d.next)
  BY DEF Ordered, Between, Before, IsFrame, FrameIds
<1>3. f[1] <= c /\ d.next \in 0..c /\ (d.next # 0 => f[1] < d.next)
  BY <1>2 DEF FrameIds
<1> QED BY <1>1, <1>3 DEF Ordered

LEMMA DecodePacketStep == ASSUME IInv, DecodePacket PROVE IInv'
<1> USE DEF IInv
<1> DEFINE r == avcodec_receive_frame(decoder)
           s == avcodec_send_packet(r.d, avPacket)
           b == IF ToSend THEN taken - 1 ELSE taken
           g == IF r.ret = "ok" THEN r.frame ELSE LastGiven
(* What the decoder gives and takes                                        *)
<1>1. /\ at = "decode" /\ audio_pkt_size > 0
      /\ UNCHANGED <<sound, put, finished, taken, avPacket, audio_buf_size,
                     audio_buf_index, len, written, reader>>
      /\ sound \in Sounds /\ decoder \in Decoders /\ Len(sound) \in Nat
      /\ taken \in 0..Len(sound) /\ avPacket \in 0..taken
      /\ audio_pkt_size \in Int
  BY LengthType DEF DecodePacket, InOrder, TypeOK, Types
<1>2. b \in 0..Len(sound) /\ b <= taken /\ avPacket \in {0, b + 1}
      /\ (IF avPacket = 0 THEN b ELSE avPacket) = taken
  BY <1>1 DEF CallInv, ToSend
<1>3. Ordered(decoder, LastGiven, b) /\ LastGiven \in FrameIds
  BY DEF CallInv, Ordered
<1>4. /\ r.d \in Decoders
      /\ r.ret = "ok" => /\ Between(r.frame, LastGiven, b)
                        /\ Ordered(r.d, r.frame, b)
      /\ r.ret # "ok" => Ordered(r.d, LastGiven, b) /\ r.d.next = 0
  <2> HIDE DEF r, b
  <2> QED BY <1>1, <1>2, <1>3, ReceiveOrdered DEF r
<1>5. Ordered(r.d, g, b) /\ (g = LastGiven \/ Between(g, LastGiven, b))
  BY <1>4
<1>6. /\ s.d \in Decoders /\ Ordered(s.d, g, taken)
      /\ s.ret \in {"ok", "error", "EOF", "EAGAIN"}
      /\ s.ret = "EAGAIN" => avPacket # 0 /\ r.ret = "ok"
  <2> HIDE DEF r, b, g
  <2>1. avPacket <= Len(sound)
    BY <1>1
  <2>2. /\ s.d \in Decoders
        /\ Ordered(s.d, g, IF avPacket = 0 THEN b ELSE avPacket)
        /\ s.ret \in {"ok", "error", "EOF", "EAGAIN"}
        /\ s.ret = "EAGAIN" => avPacket # 0 /\ r.d.next # 0
    BY <1>1, <1>2, <1>4, <1>5, <2>1, SendOrdered
  <2> QED BY <1>2, <1>4, <2>2
<1>7. /\ Ordered(r.d, LastGiven, taken)
      /\ Ordered(s.d, LastGiven, taken)
  <2> HIDE DEF r, s, b, g
  <2>1. b \in Nat /\ taken \in Nat
    BY <1>1, <1>2
  <2>2. g = LastGiven \/ Between(g, LastGiven, taken)
    BY <1>2, <1>5, <2>1 DEF Between, IsFrame, FrameIds
  <2> QED BY <1>2, <1>3, <1>5, <1>6, <2>1, <2>2, OrderedEarlier
(* The same in a simple film                                               *)
<1>8. ASSUME Simple(sound)
      PROVE  /\ Sent = taken - 1 /\ taken > 0
             /\ r.ret = IF Sent = 0 THEN "EAGAIN" ELSE "ok"
             /\ Sent # 0 => r.frame = <<Sent, 1>>
             /\ Holds(r.d, None)
             /\ ~(r.ret # "ok" /\ finished) =>
                  ToSend /\ s.ret = "ok" /\ Holds(s.d, <<taken, 1>>)
  <2> DEFINE f == IF Sent = 0 THEN None ELSE <<Sent, 1>>
  <2>1. /\ Sent = taken - 1 /\ taken > 0 /\ Holds(decoder, f)
        /\ ~ToSend => taken = 1 /\ finished
    BY <1>1, <1>8 DEF SimpleInv, Sent
  <2>2. f \in FrameIds /\ (f # None <=> Sent # 0)
    BY <1>1, <2>1 DEF None, FrameIds
  <2> HIDE DEF r
  <2>3. /\ r.d \in Decoders /\ Holds(r.d, None)
        /\ r.ret = IF f # None THEN "ok" ELSE "EAGAIN"
        /\ f # None => r.frame = f
    <3> HIDE DEF f
    <3> QED BY <1>1, <2>1, <2>2, SimpleReceive DEF r
  <2>4. ASSUME ~(r.ret # "ok" /\ finished)
        PROVE  ToSend /\ s.ret = "ok" /\ Holds(s.d, <<taken, 1>>)
    <3>1. ToSend
      BY <2>1, <2>2, <2>3, <2>4
    <3>2. avPacket = taken /\ taken \in 1..Len(sound)
      BY <1>1, <2>1, <3>1 DEF CallInv
    <3> QED BY <1>1, <1>8, <2>3, <3>1, <3>2, SimpleSend
  <2> QED BY <2>1, <2>2, <2>3, <2>4
<1>9. avPacket # 0 => avPacket = taken /\ audio_pkt_size = PacketSize(avPacket)
  BY <1>1 DEF CallInv, ToSend, PacketSize
<1>10. PacketSize(avPacket) \in Nat
  <2>1. CASE avPacket = 0
    BY <2>1 DEF PacketSize
  <2>2. CASE avPacket # 0
    <3>1. avPacket \in 1..Len(sound)
      BY <1>1, <2>2
    <3> QED BY <1>1, <2>2, <3>1, SoundType DEF PacketSize
  <2> QED BY <2>1, <2>2
<1>11. \/ /\ r.ret # "ok" /\ (finished \/ r.ret \in {"EOF", "error"})
          /\ decoder' = r.d /\ Fails
       \/ /\ ~(r.ret # "ok" /\ finished) /\ s.ret \in {"EOF", "error"}
          /\ decoder' = s.d /\ Fails
       \/ /\ s.ret \in {"ok", "EAGAIN"} /\ r.ret = "ok"
          /\ decoder' = s.d /\ Consume(s.ret) /\ Returns(r.frame)
       \/ /\ s.ret = "ok" /\ r.ret # "ok" /\ ~finished
          /\ decoder' = s.d /\ Consume(s.ret) /\ Again
  <2> HIDE DEF r, s
  <2> QED BY <1>6 DEF DecodePacket, r, s
(* It fails                                                                *)
<1>12. ASSUME Fails, decoder' \in Decoders,
              Ordered(decoder', LastGiven, taken),
              Simple(sound) => finished /\ taken = 1 /\ Holds(decoder', None)
       PROVE  IInv'
  <2> HIDE DEF r, s, b, g
  <2>1. TypeOK' /\ Types'
    BY <1>1, <1>12 DEF InOrder, TypeOK, Types, Fails, None, FrameIds
  <2>2. InOrder'
    BY <1>1, <2>1, OrderKept
  <2>3. BufferInv' /\ LastGiven' = LastGiven
    BY <1>1, <1>12, FailsBuffer
  <2>4. CallInv'
    BY <1>1, <1>12, <2>3 DEF CallInv, ToSend, Ordered, Between, IsFrame, Fails
  <2>5. SimpleInv'
    BY <1>1, <1>12, <2>3 DEF SimpleInv, Simple, Holds, Sent, ToSend, Fails
  <2>6. SilentAtTheEnds'
    BY <1>1, <1>12 DEF SilentAtTheEnds, Simple
  <2> QED BY <2>1, <2>2, <2>3, <2>4, <2>5, <2>6
(* It returns a frame                                                      *)
<1>13. ASSUME s.ret \in {"ok", "EAGAIN"}, r.ret = "ok", decoder' = s.d,
              Consume(s.ret), Returns(r.frame)
       PROVE  IInv'
  <2>1. IsFrame(r.frame) /\ r.frame \in FrameIds /\ Before(LastGiven, r.frame)
        /\ Ordered(s.d, r.frame, taken)
    BY <1>4, <1>6, <1>13 DEF Between, IsFrame
  <2>2. Size(r.frame) \in Nat
    BY <1>1, <2>1, SizeType
  <2>3. len1' \in Nat /\ audio_pkt_size' = audio_pkt_size - len1'
        /\ audio_pkt_size' \in Int
    BY <1>1, <1>10, <1>13 DEF Consume, InOrder, TypeOK
  <2>4. audio_clock' \in Int /\ audio_buf' = r.frame /\ at' = "size"
    BY <1>13, <2>2 DEF Returns, InOrder, TypeOK
  <2>5. Simple(sound) => /\ Sent = taken - 1 /\ Sent > 0
                         /\ r.frame = <<Sent, 1>>
                         /\ Holds(s.d, <<taken, 1>>) /\ audio_pkt_size' = 0
    <3> SUFFICES ASSUME Simple(sound)
                 PROVE  /\ Sent = taken - 1 /\ Sent > 0
                        /\ r.frame = <<Sent, 1>>
                        /\ Holds(s.d, <<taken, 1>>) /\ audio_pkt_size' = 0
      OBVIOUS
    <3> HIDE DEF r, s
    <3>1. /\ Sent = taken - 1 /\ Sent > 0 /\ r.frame = <<Sent, 1>>
          /\ Holds(s.d, <<taken, 1>>) /\ ToSend /\ s.ret = "ok"
      BY <1>1, <1>8, <1>13
    <3>2. len1' = audio_pkt_size
      BY <1>9, <1>13, <3>1 DEF Consume, ToSend
    <3> QED BY <1>1, <2>3, <3>1, <3>2
  <2> HIDE DEF r, s, b, g
  <2>6. LastGiven # None => Follows(LastGiven, r.frame)
    <3> SUFFICES ASSUME LastGiven # None PROVE Follows(LastGiven, r.frame)
      OBVIOUS
    <3>1. Simple(sound) => LastGiven = <<Sent - 1, 1>>
      BY DEF SimpleInv
    <3>2. Simple(sound) => /\ r.frame[1] = LastGiven[1] + 1
                           /\ LastGiven[1] < r.frame[1]
      BY <1>1, <2>5, <3>1
    <3> QED BY <1>3, <2>1, <3>2 DEF Follows, Before, FrameIds
  <2>7. BufferInv' /\ LastGiven' = r.frame
    BY <1>1, <1>13, <2>1, <2>6, ReturnsBuffer
  <2>8. TypeOK' /\ Types'
    BY <1>1, <1>6, <1>13, <2>1, <2>3, <2>4 DEF InOrder, TypeOK, Types
  <2>9. InOrder'
    BY <1>1, <2>8, OrderKept
  <2>10. CallInv'
    BY <1>1, <1>13, <2>1, <2>4, <2>7 DEF CallInv, ToSend, Ordered, Between,
       IsFrame
  <2>11. SimpleInv'
    <3> SUFFICES ASSUME Simple(sound) PROVE SimpleInv'
      BY <1>1 DEF SimpleInv, Simple
    <3>0. audio_pkt_size' = 0 /\ taken' = taken
      BY <1>1, <2>5
    <3>1. /\ Sent' = taken /\ taken # 0 /\ ~(taken < 2) /\ audio_pkt_size' = 0
      <4>1. Sent' = taken
        BY <3>0 DEF Sent
      <4> QED BY <1>1, <2>5, <3>0, <4>1
    <3>2. Holds(decoder', <<taken, 1>>) /\ LastGiven' = <<taken - 1, 1>>
      BY <1>13, <2>5, <2>7
    <3> QED BY <3>1, <3>2 DEF SimpleInv, Holds
  <2>12. SilentAtTheEnds'
    BY <2>1, <2>4 DEF SilentAtTheEnds, Silent, IsFrame, None
  <2> QED BY <2>7, <2>8, <2>9, <2>10, <2>11, <2>12
(* It goes on                                                              *)
<1>14. ASSUME s.ret = "ok", r.ret # "ok", ~finished, decoder' = s.d,
              Consume(s.ret), Again
       PROVE  IInv'
  <2>1. len1' = PacketSize(avPacket)
        /\ audio_pkt_size' = audio_pkt_size - len1' /\ len1' \in Nat
    BY <1>10, <1>14 DEF Consume
  <2>2. /\ avPacket # 0 => audio_pkt_size' = 0
        /\ audio_pkt_size' \in Int
    BY <1>1, <1>9, <2>1
  <2>3. at' = "decode" /\ audio_buf' = audio_buf /\ LastGiven' = LastGiven
        /\ audio_clock' = audio_clock
    BY <1>1, <1>14 DEF Again, LastGiven
  <2>4. Simple(sound) => /\ taken = 1 /\ Sent = 0 /\ avPacket # 0
                         /\ Holds(s.d, <<taken, 1>>)
    BY <1>1, <1>8, <1>14 DEF ToSend
  <2>5. s.d \in Decoders /\ Ordered(s.d, LastGiven, taken)
    BY <1>6, <1>7
  <2> HIDE DEF r, s, b, g
  <2>6. TypeOK' /\ Types'
    BY <1>1, <1>14, <2>1, <2>2, <2>3, <2>5 DEF InOrder, TypeOK, Types
  <2>7. InOrder'
    BY <1>1, <2>6, OrderKept
  <2>8. ~ToSend'
    BY <1>1, <2>2 DEF ToSend
  <2>9. CallInv'
    BY <1>1, <1>14, <2>3, <2>5, <2>8 DEF CallInv, Ordered, Between, IsFrame
  <2>10. BufferInv'
    BY <1>1, <2>3 DEF BufferInv, Fresh, IsFrame, Follows, Size, Simple
  <2>11. SimpleInv'
    <3> SUFFICES ASSUME Simple(sound) PROVE SimpleInv'
      BY <1>1 DEF SimpleInv, Simple
    <3>1. Sent' = 1 /\ audio_pkt_size' = 0
      BY <1>1, <2>2, <2>4 DEF Sent
    <3>2. LastGiven = None
      BY <2>4 DEF SimpleInv
    <3> QED BY <1>14, <2>3, <2>4, <3>1, <3>2 DEF SimpleInv, Holds
  <2>12. SilentAtTheEnds'
    BY <2>3 DEF SilentAtTheEnds, Silent
  <2> QED BY <2>6, <2>7, <2>9, <2>10, <2>11, <2>12
<1>15. ASSUME r.ret # "ok", finished \/ r.ret \in {"EOF", "error"},
              decoder' = r.d, Fails
       PROVE  IInv'
  <2>1. Simple(sound) => finished /\ taken = 1 /\ Holds(decoder', None)
    BY <1>1, <1>8, <1>15
  <2> QED BY <1>4, <1>7, <1>12, <1>15, <2>1
<1>16. ASSUME ~(r.ret # "ok" /\ finished), s.ret \in {"EOF", "error"},
              decoder' = s.d, Fails
       PROVE  IInv'
  <2>1. ~Simple(sound)
    BY <1>8, <1>16
  <2> QED BY <1>6, <1>7, <1>12, <1>16, <2>1
<1> QED
  <2> HIDE DEF r, s
  <2> QED BY <1>11, <1>13, <1>14, <1>15, <1>16

-----------------------------------------------------------------------------

(* The main thread changes only what it has read.                          *)
LEMMA MainThreadQuiet ==
    ASSUME MainThread
    PROVE  UNCHANGED <<sound, put, finished, taken, callVars, at, bufferVars,
                       audio_clock, len, written>>
  BY DEF MainThread, ReadClock, ReadSize, ReadIndex

LEMMA MainThreadStep == ASSUME IInv, MainThread PROVE IInv'
<1> USE MainThreadQuiet DEF IInv
<1>1. reader'.next \in {"no", "size", "index"}
      /\ DOMAIN reader' = {"next", "pts", "size", "heard", "untimed"}
  <2>1. CASE ReadClock
    BY <2>1 DEF ReadClock
  <2>2. CASE ReadSize
    BY <2>2 DEF ReadSize, Types
  <2>3. CASE ReadIndex
    BY <2>3 DEF ReadIndex, NoReader
  <2> QED BY <2>1, <2>2, <2>3 DEF MainThread
<1>2. TypeOK' /\ Types'
  BY <1>1 DEF InOrder, TypeOK, Types, callVars, bufferVars
<1>3. sound' = sound /\ written' = written /\ LastGiven' = LastGiven
  BY DEF bufferVars, LastGiven
<1>4. InOrder'
  BY <1>2, <1>3, OrderKept
<1>5. CallInv'
  BY <1>3 DEF CallInv, ToSend, Ordered, Between, IsFrame, callVars
<1>6. BufferInv'
  BY DEF BufferInv, Fresh, IsFrame, Follows, Size, bufferVars
<1>7. SimpleInv'
  BY <1>3 DEF SimpleInv, Sent, ToSend, callVars
<1>8. SilentAtTheEnds'
  BY DEF SilentAtTheEnds, Silent, bufferVars
<1> QED BY <1>2, <1>4, <1>5, <1>6, <1>7, <1>8

LEMMA InitInv == ASSUME Init PROVE IInv
<1>1. TypeOK /\ Types
  <2>0. reader = NoReader /\ reader.next = "no"
        /\ DOMAIN reader = {"next", "pts", "size", "heard", "untimed"}
    BY DEF Init, NoReader
  <2>1. None \in FrameIds
    BY DEF None, FrameIds
  <2>2. decoder \in Decoders
    BY <2>1 DEF Init, Decoders
  <2>3. TypeOK
    <3>1. Len(sound) \in Nat
      BY LengthType DEF Init
    <3>2. 0 \in 0..Length
      BY AudioAssumption
    <3>3. /\ sound \in Sounds /\ put = 0 /\ finished = FALSE /\ taken = 0
          /\ audio_pkt_size = 0 /\ len1 = 0 /\ avPacket = 0 /\ at = "out"
          /\ audio_buf_size = 0 /\ audio_buf_index = 0 /\ audio_clock = 0
          /\ len = 0
      BY DEF Init
    <3>4. put \in 0..Len(sound) /\ taken \in 0..put /\ avPacket \in 0..taken
      BY <3>1, <3>3
    <3>5. finished \in BOOLEAN
      BY <3>3
    <3>6. at \in {"out", "fill", "size", "index", "decode", "get", "asleep"}
      BY <3>3
    <3>7. audio_pkt_size \in Int /\ len1 \in Nat
          /\ audio_buf_size \in Nat /\ audio_buf_index \in Nat
          /\ audio_buf_index <= audio_buf_size /\ audio_clock \in Int
      BY <3>3
    <3>8. len \in 0..Length
      BY <3>2, <3>3
    <3> QED BY <2>0, <3>3, <3>4, <3>5, <3>6, <3>7, <3>8 DEF TypeOK
  <2> QED BY <2>0, <2>1, <2>2, <2>3 DEF Init, Types
<1>2. LastGiven = None
  BY DEF Init, LastGiven
<1>3. decoder.frames = <<>> /\ decoder.next = 0 /\ decoder.ready = None
      /\ decoder.eof = FALSE
  BY DEF Init
<1>4. CallInv
  BY <1>2, <1>3 DEF Init, CallInv, ToSend, Ordered, None, FrameIds
<1>5. BufferInv
  BY DEF Init, BufferInv
<1>6. SimpleInv
  BY <1>2, <1>3 DEF Init, SimpleInv, Holds, Sent, ToSend
<1>7. InOrder /\ SilentAtTheEnds
  BY <1>1 DEF Init, InOrder, SilentAtTheEnds, Silent
<1> QED BY <1>1, <1>4, <1>5, <1>6, <1>7 DEF IInv

LEMMA NextInv == ASSUME IInv, [Next]_vars PROVE IInv'
<1>1. CASE UNCHANGED vars
  <2> USE <1>1 DEF vars, callVars, bufferVars
  <2>1. TypeOK' /\ Types'
    BY DEF IInv, InOrder, TypeOK, Types
  <2>2. InOrder'
    BY <2>1, OrderKept DEF IInv
  <2>3. CallInv' /\ LastGiven' = LastGiven
    BY DEF IInv, CallInv, ToSend, Ordered, Between, IsFrame, LastGiven
  <2>4. BufferInv'
    BY DEF IInv, BufferInv, Fresh, IsFrame, Follows, Size
  <2>5. SimpleInv'
    BY <2>3 DEF IInv, SimpleInv, Sent, ToSend
  <2>6. SilentAtTheEnds'
    BY DEF IInv, SilentAtTheEnds, Silent
  <2> QED BY <2>1, <2>2, <2>3, <2>4, <2>5, <2>6 DEF IInv
<1>2. CASE Next
  BY <1>2, ReadPacketStep, FinishReadingStep, AudioCallbackStep,
     CallDecodeStep, WriteStreamStep, StoreSizeStep, StoreIndexStep,
     DecodePacketStep, NextPacketStep, GetPacketStep, GetNoneStep,
     MainThreadStep DEF Next, DecodeThread, AudioThread
<1> QED BY <1>1, <1>2

LEMMA Invariance == Spec => []IInv
<1>1. Init => IInv
  BY InitInv
<1>2. IInv /\ [Next]_vars => IInv'
  BY NextInv
<1> QED BY <1>1, <1>2, PTL DEF Spec

(* The frames of a sound are written to the device in order and whole, and *)
(* in a simple film none is left out, for every sound, although a call of  *)
(* audio_decode_frame receives a frame before it sends its packet.         *)
THEOREM OrderCorrect == Spec => []InOrder
<1>1. IInv => InOrder
  BY DEF IInv
<1> QED BY <1>1, Invariance, PTL

(* In a simple film silence is heard only before the first frame and after *)
(* the last packet, however long the film is.                              *)
THEOREM SilenceCorrect == Spec => []SilentAtTheEnds
<1>1. IInv => SilentAtTheEnds
  BY DEF IInv
<1> QED BY <1>1, Invariance, PTL

-----------------------------------------------------------------------------
(* The times of a simple film                                              *)

LEMMA HasMin ==
    ASSUME NEW S \in SUBSET Nat, S # {}
    PROVE  \E m \in S : \A n \in S : m <= n
<1>1. PICK x \in S : \A y \in S : ~(<<y, x>> \in OpToRel(<, Nat))
  BY NatLessThanWellFounded, WFMin, Zenon
<1>2. ASSUME NEW y \in S PROVE ~(y < x)
  BY <1>1, <1>2, Zenon DEF OpToRel
<1> QED BY <1>2, SMT

(* Induction up to N, for a set.                                           *)
LEMMA CountingUp ==
    ASSUME NEW N \in Nat, NEW S, 0 \in S,
           \A n \in 1..N : n - 1 \in S => n \in S
    PROVE  \A n \in 0..N : n \in S
<1> DEFINE T == {n \in 0..N : n \notin S}
<1> SUFFICES ASSUME T # {} PROVE FALSE
  OBVIOUS
<1>1. T \in SUBSET Nat
  OBVIOUS
<1> HIDE DEF T
<1>2. PICK m \in T : \A n \in T : m <= n
  BY <1>1, HasMin, Zenon
<1>3. m \in 0..N /\ m \notin S
  BY <1>2 DEF T
<1>4. m \in 1..N /\ m - 1 \in 0..N /\ ~(m <= m - 1)
  BY <1>3
<1>5. m - 1 \in S
  BY <1>2, <1>4 DEF T
<1> QED BY <1>3, <1>4, <1>5

(* A set of numbers that has a bound has a maximum.                        *)
LEMMA MaxExists ==
    ASSUME NEW N \in Nat, NEW T \in SUBSET (0..N), T # {}
    PROVE  Max(T) \in T /\ \A n \in T : n <= Max(T)
<1> DEFINE R == {N - n : n \in T}
<1>1. R \in SUBSET Nat /\ R # {}
  <2>1. \A n \in T : N - n \in Nat
    OBVIOUS
  <2> QED BY <2>1
<1>2. PICK m \in R : \A n \in R : m <= n
  <2> HIDE DEF R
  <2> QED BY <1>1, HasMin, Zenon
<1>3. PICK x \in T : m = N - x
  BY <1>2
<1>4. \A n \in T : x >= n
  <2> TAKE n \in T
  <2>1. N - x <= N - n
    BY <1>2, <1>3
  <2> QED BY <2>1
<1> HIDE DEF R
<1>5. \E y \in T : \A n \in T : y >= n
  BY <1>4
<1>6. Max(T) \in T /\ \A n \in T : Max(T) >= n
  BY <1>5, Zenon DEF Max
<1> QED BY <1>6

(* The bytes of the frame of packet p.                                     *)
Bytes(p) == sound[p].frames[1]

LEMMA SimpleFrames ==
    ASSUME sound \in Sounds, Simple(sound), NEW p \in 1..Len(sound)
    PROVE  Bytes(p) \in Nat /\ Bytes(p) > 0 /\ Size(<<p, 1>>) = Bytes(p)
<1>1. DOMAIN sound = 1..Len(sound)
  BY AudioAssumption
<1>2. Len(sound[p].frames) = 1 /\ sound[p].frames \in Seq(Nat \ {0})
  BY <1>1, SoundType DEF Simple
<1>3. sound[p].frames[1] \in Nat \ {0}
  BY <1>2
<1>4. Size(<<p, 1>>) = sound[p].frames[1]
  BY DEF Size
<1> QED BY <1>3, <1>4 DEF Bytes

(* No frame is longer than Longest.                                        *)
LEMMA LongestBound ==
    ASSUME sound \in Sounds, Simple(sound)
    PROVE  /\ Longest \in Nat
           /\ \A p \in 1..Len(sound) : Bytes(p) <= Longest
<1> DEFINE N == Len(sound)
           S == {k \in 0..N : \E B \in Nat : \A p \in 1..k : Bytes(p) <= B}
           T == {0} \cup {sound[p].frames[1] : p \in DOMAIN sound}
<1>0. N \in Nat /\ DOMAIN sound = 1..N
  BY AudioAssumption
<1>1. 0 \in S
  BY <1>0
<1>2. ASSUME NEW k \in 1..N, k - 1 \in S PROVE k \in S
  <2>1. PICK B \in Nat : \A p \in 1..(k - 1) : Bytes(p) <= B
    BY <1>2
  <2>2. \A p \in 1..N : Bytes(p) \in Nat
    BY SimpleFrames
  <2> HIDE DEF S, T, N
  <2>3. \A p \in 1..k : Bytes(p) <= B + Bytes(k)
    <3> TAKE p \in 1..k
    <3>0. p \in 1..N /\ Bytes(p) \in Nat /\ Bytes(k) \in Nat
      BY <1>0, <2>2
    <3>1. CASE p = k
      BY <3>0, <3>1
    <3>2. CASE p # k
      <4>1. p \in 1..(k - 1)
        BY <1>0, <3>2
      <4>2. Bytes(p) <= B
        BY <2>1, <4>1
      <4> QED BY <3>0, <4>2
    <3> QED BY <3>1, <3>2
  <2>4. B + Bytes(k) \in Nat
    BY <2>2
  <2> QED BY <1>0, <2>3, <2>4 DEF S
<1>3. N \in S
  <2> HIDE DEF S, N
  <2>1. \A n \in 0..N : n \in S
    BY <1>0, <1>1, <1>2, CountingUp
  <2> QED BY <1>0, <2>1
<1>4. PICK B \in Nat : \A p \in 1..N : Bytes(p) <= B
  BY <1>3
<1>5. T \in SUBSET (0..B) /\ T # {}
  <2>0. \A p \in 1..N : Bytes(p) \in Nat
    BY SimpleFrames
  <2>1. \A p \in 1..N : Bytes(p) \in 0..B
    <3> HIDE DEF N, S, T
    <3> QED BY <1>4, <2>0
  <2>2. T = {0} \cup {Bytes(p) : p \in 1..N}
    BY <1>0 DEF Bytes
  <2> HIDE DEF T
  <2> QED BY <2>1, <2>2
<1>6. Longest = Max(T)
  BY DEF Longest
<1>7. \A p \in 1..N : Bytes(p) \in T
  BY <1>0 DEF Bytes
<1> HIDE DEF T, N
<1>8. Max(T) \in T /\ \A n \in T : n <= Max(T)
  BY <1>5, MaxExists
<1>9. Max(T) \in Nat /\ \A p \in 1..N : Bytes(p) <= Max(T)
  <2>1. \A t \in T : t \in Nat
    BY <1>5
  <2> QED BY <1>7, <1>8, <2>1
<1> QED BY <1>6, <1>9 DEF N

(* A frame begins where the frame before it ends.                          *)
LEMMA StartsUnfolded ==
    ASSUME sound \in Sounds
    PROVE  /\ Starts[0] = 0
           /\ \A p \in 1..Len(sound) : Starts[p] = Starts[p - 1] + Bytes(p)
<1> DEFINE N == Len(sound)
           step(g) == [p \in 0..N |-> IF p = 0 THEN 0
                                      ELSE g[p - 1] + sound[p].frames[1]]
           Adds(g, k) == /\ g[0] = 0
                         /\ \A p \in 1..k : g[p] = g[p - 1] + Bytes(p)
           S == {k \in 0..N : \E g : Adds(g, k)}
<1>0. N \in Nat
  BY LengthType
<1>1. 0 \in S
  <2> DEFINE g == [n \in {0} |-> 0]
  <2>1. Adds(g, 0)
    OBVIOUS
  <2> HIDE DEF Adds, g
  <2> QED BY <1>0, <2>1
<1>2. ASSUME NEW k \in 1..N, k - 1 \in S PROVE k \in S
  <2>1. PICK g : Adds(g, k - 1)
    BY <1>2
  <2> DEFINE h == [n \in 0..k |-> IF n = k THEN g[k - 1] + Bytes(k)
                                  ELSE g[n]]
  <2>2. h[0] = 0
    BY <1>0, <2>1
  <2>3. ASSUME NEW n \in 1..k PROVE h[n] = h[n - 1] + Bytes(n)
    <3>1. h[n - 1] = g[n - 1]
      BY <1>0
    <3>2. CASE n = k
      BY <1>0, <3>1, <3>2
    <3>3. CASE n # k
      <4>1. n \in 1..(k - 1)
        BY <1>0, <3>3
      <4>2. h[n] = g[n]
        BY <1>0, <3>3
      <4> QED BY <2>1, <3>1, <4>1, <4>2
    <3> QED BY <3>2, <3>3
  <2> HIDE DEF h
  <2>4. Adds(h, k)
    BY <2>2, <2>3
  <2> QED BY <1>0, <2>4
<1>3. \A n \in 0..N : n \in S
  <2> HIDE DEF S, N
  <2> QED BY <1>0, <1>1, <1>2, CountingUp
<1>4. PICK g : Adds(g, N)
  <2> HIDE DEF Adds
  <2>1. N \in S
    BY <1>0, <1>3
  <2> QED BY <2>1
<1> DEFINE h == [n \in 0..N |-> g[n]]
<1>5. h = step(h)
  <2>1. ASSUME NEW n \in 0..N PROVE h[n] = step(h)[n]
    <3>1. CASE n = 0
      BY <1>0, <1>4, <3>1
    <3>2. CASE n # 0
      <4>1. n \in 1..N /\ n - 1 \in 0..N
        BY <1>0, <3>2
      <4>2. h[n] = g[n] /\ h[n - 1] = g[n - 1]
        BY <4>1
      <4>3. g[n] = g[n - 1] + Bytes(n)
        BY <1>4, <4>1
      <4> QED BY <3>2, <4>1, <4>2, <4>3 DEF Bytes
    <3> QED BY <3>1, <3>2
  <2> QED BY <2>1
<1>6. Starts = CHOOSE start : start = step(start)
  BY DEF Starts
<1> HIDE DEF h, step, N
<1>7. Starts = step(Starts)
  BY <1>5, <1>6, Zenon
<1> DEFINE starts == Starts
<1>8. starts = step(starts)
  BY <1>7
<1> HIDE DEF starts
<1>9. starts[0] = 0
  BY <1>0, <1>8 DEF step
<1>10. ASSUME NEW p \in 1..N PROVE starts[p] = starts[p - 1] + Bytes(p)
  <2>1. p \in 0..N /\ p # 0
    BY <1>0
  <2> QED BY <1>8, <2>1 DEF step, Bytes
<1> QED BY <1>9, <1>10 DEF starts, N

LEMMA StartsType ==
    ASSUME sound \in Sounds, Simple(sound), NEW p \in 0..Len(sound)
    PROVE  Starts[p] \in Nat
<1> DEFINE S == {k \in 0..Len(sound) : Starts[k] \in Nat}
<1>0. Len(sound) \in Nat
  BY LengthType
<1>1. 0 \in S
  BY <1>0, StartsUnfolded
<1>2. ASSUME NEW k \in 1..Len(sound), k - 1 \in S PROVE k \in S
  <2>1. Starts[k] = Starts[k - 1] + Bytes(k) /\ Starts[k - 1] \in Nat
    BY <1>2, StartsUnfolded
  <2>2. Bytes(k) \in Nat
    BY SimpleFrames
  <2> QED BY <1>0, <2>1, <2>2
<1>3. \A k \in 0..Len(sound) : k \in S
  <2> HIDE DEF S
  <2> QED BY <1>0, <1>1, <1>2, CountingUp
<1> QED BY <1>3

-----------------------------------------------------------------------------
(* The invariant of the clock                                              *)

(* Where the last packet sent begins.                                      *)
Begin == IF Sent = 0 THEN 0 ELSE Start(Sent)
Waiting == IF audio_pkt_size > 0 THEN 1 ELSE 2

(* The clock is set to where the packet taken begins, and moves on by      *)
(* twice the frame before it when that is returned.                        *)
ClockInv ==
    /\ Begin <= audio_clock
    /\ audio_clock <= Begin + (Waiting + Untimed) * Longest

(* No frame will come any more.                                            *)
Over ==
    /\ finished
    /\ IF audio_pkt_size > 0 THEN taken = 1 /\ ~ToSend
       ELSE taken = Len(sound)

(* The size and the index of the buffer while they belong to different     *)
(* frames, and those of silence.                                           *)
SwapInv ==
    /\ audio_buf # None /\ written = <<>> => Sent = 2
    /\ audio_buf = None =>
         /\ \/ Over
            \/ at # "size" /\ audio_buf_size = 0 /\ audio_buf_index = 0
         /\ at # "size" => audio_buf_size \in {0, Silence}
         /\ at = "index" => audio_buf_size = Silence
    /\ at = "size" => audio_buf_index = audio_buf_size
    /\ at \in {"size", "index"} =>
         \/ audio_buf_index <= Longest
         \/ audio_buf = None /\ audio_buf_index <= Silence

LeadInv == Simple(sound) /\ Timed(sound) => ClockInv /\ SwapInv

(* The packets since the last one with a pts.                              *)
LEMMA UntimedType == ASSUME taken \in Nat PROVE Untimed \in 0..taken
<1> DEFINE T == TimedPackets \cup {0}
<1>1. T \in SUBSET (0..taken) /\ T # {}
  BY DEF TimedPackets
<1>2. Untimed = taken - Max(T)
  BY DEF Untimed
<1> HIDE DEF T
<1>3. Max(T) \in 0..taken
  BY <1>1, MaxExists
<1> QED BY <1>2, <1>3

LEMMA MaxIs ==
    ASSUME NEW T \in SUBSET Nat, NEW m \in T, \A n \in T : n <= m
    PROVE  Max(T) = m
<1>1. Max(T) \in T /\ \A n \in T : Max(T) >= n
  <2>1. \E y \in T : \A n \in T : y >= n
    OBVIOUS
  <2> QED BY <2>1, Zenon DEF Max
<1>2. Max(T) >= m /\ Max(T) <= m /\ Max(T) \in Nat /\ m \in Nat
  BY <1>1
<1> QED BY <1>2

LEMMA UntimedNext ==
    ASSUME taken \in Nat, taken' = taken + 1, sound' = sound
    PROVE  Untimed' = IF sound[taken'].pts # NoPts THEN 0 ELSE Untimed + 1
<1> DEFINE T == TimedPackets \cup {0}
           U == (TimedPackets \cup {0})'
<1>1. Untimed = taken - Max(T) /\ Untimed' = taken' - Max(U)
  BY DEF Untimed
<1>2. T \in SUBSET (0..taken) /\ T # {}
  BY DEF TimedPackets
<1>3. CASE sound[taken'].pts # NoPts
  <2>1. /\ U \in SUBSET Nat /\ taken' \in U /\ \A n \in U : n <= taken'
    BY <1>3 DEF TimedPackets
  <2> HIDE DEF U
  <2>2. Max(U) = taken'
    BY <2>1, MaxIs
  <2> QED BY <1>1, <1>3, <2>2
<1>4. CASE sound[taken'].pts = NoPts
  <2>1. U = T
    <3>1. \A p : p \in 1..taken' /\ sound[p].pts # NoPts
                 <=> p \in 1..taken /\ sound[p].pts # NoPts
      BY <1>4
    <3> QED BY <3>1 DEF TimedPackets
  <2> HIDE DEF T, U
  <2>2. Max(T) \in 0..taken
    BY <1>2, MaxExists
  <2> QED BY <1>1, <1>4, <2>1, <2>2
<1> QED BY <1>3, <1>4

LEMMA BeginType ==
    ASSUME sound \in Sounds, Simple(sound), Sent \in 0..Len(sound)
    PROVE  /\ Begin \in Nat
           /\ Sent > 0 => /\ Begin = Starts[Sent - 1]
                          /\ Starts[Sent] = Begin + Bytes(Sent)
<1>1. CASE Sent = 0
  BY <1>1 DEF Begin
<1>2. CASE Sent # 0
  <2> DEFINE k == Sent
  <2>1. k \in 1..Len(sound) /\ k - 1 \in 0..Len(sound)
    BY <1>2, LengthType
  <2>2. Begin = Starts[k - 1]
    BY <1>2 DEF Begin, Start
  <2> HIDE DEF k
  <2>3. Starts[k - 1] \in Nat /\ Starts[k] = Starts[k - 1] + Bytes(k)
    BY <2>1, StartsType, StartsUnfolded
  <2> QED BY <2>2, <2>3 DEF k
<1> QED BY <1>1, <1>2

(* What the proof about the clock needs of IInv.                           *)
LEMMA LeadTypes ==
    ASSUME IInv, Simple(sound)
    PROVE  /\ sound \in Sounds /\ Len(sound) \in Nat
           /\ taken \in Nat /\ taken <= Len(sound) /\ taken <= put
           /\ Sent \in 0..Len(sound) /\ Sent \in 0..taken
           /\ Sent = IF audio_pkt_size > 0 THEN taken - 1 ELSE taken
           /\ audio_pkt_size \in Int /\ audio_clock \in Int
           /\ audio_buf_index \in Nat /\ audio_buf_size \in Nat
           /\ Begin \in Nat /\ Longest \in Nat /\ Untimed \in 0..taken
           /\ Waiting \in {1, 2}
<1>1. /\ sound \in Sounds /\ Len(sound) \in Nat
      /\ taken \in Nat /\ taken <= Len(sound) /\ taken <= put
      /\ audio_pkt_size \in Int /\ audio_clock \in Int
      /\ audio_buf_index \in Nat /\ audio_buf_size \in Nat
      /\ audio_pkt_size > 0 => taken > 0
  BY LengthType DEF IInv, InOrder, TypeOK, SimpleInv
<1>2. Sent \in 0..Len(sound) /\ Sent \in 0..taken
      /\ Sent = IF audio_pkt_size > 0 THEN taken - 1 ELSE taken
  BY <1>1 DEF Sent
<1>3. Begin \in Nat /\ Longest \in Nat /\ Untimed \in 0..taken
  BY <1>1, <1>2, BeginType, LongestBound, UntimedType
<1> QED BY <1>1, <1>2, <1>3 DEF Waiting

(* The frame in the buffer is the one before the last packet sent.         *)
LEMMA BufferedFrame ==
    ASSUME IInv, Simple(sound), audio_buf # None
    PROVE  /\ Sent > 1 /\ audio_buf = <<Sent - 1, 1>>
           /\ Sent - 1 \in 1..Len(sound)
           /\ Size(audio_buf) = Bytes(Sent - 1)
           /\ Bytes(Sent - 1) \in Nat /\ Bytes(Sent - 1) <= Longest
<1>1. Sent \in 0..Len(sound) /\ Len(sound) \in Nat /\ sound \in Sounds
  BY LeadTypes
<1>2. audio_buf = IF Sent < 2 THEN None ELSE <<Sent - 1, 1>>
  BY DEF IInv, SimpleInv, LastGiven
<1>3. Sent > 1 /\ audio_buf = <<Sent - 1, 1>> /\ Sent - 1 \in 1..Len(sound)
  BY <1>1, <1>2
<1> DEFINE p == Sent - 1
<1> HIDE DEF p
<1>4. p \in 1..Len(sound)
  BY <1>3 DEF p
<1>5. Bytes(p) \in Nat /\ Size(<<p, 1>>) = Bytes(p) /\ Bytes(p) <= Longest
  BY <1>1, <1>4, SimpleFrames, LongestBound
<1> QED BY <1>3, <1>5 DEF p

(* A turn of audio_decode_frame in a simple film: at the end of a film of  *)
(* one packet it fails, and else it sends the packet and returns the frame *)
(* of the one before, if there is one.                                     *)
LEMMA SimpleTurn ==
    ASSUME IInv, DecodePacket, Simple(sound)
    PROVE  /\ at = "decode" /\ audio_pkt_size > 0 /\ Sent = taken - 1
           /\ UNCHANGED <<sound, put, finished, taken, audio_buf_size,
                          audio_buf_index, len, written>>
           /\ \/ Fails /\ finished /\ Sent = 0
              \/ ToSend /\ Sent > 0 /\ Returns(<<Sent, 1>>)
                        /\ audio_pkt_size' = 0
              \/ ToSend /\ Sent = 0 /\ Again /\ audio_pkt_size' = 0
<1> USE DEF IInv
<1> DEFINE r == avcodec_receive_frame(decoder)
           s == avcodec_send_packet(r.d, avPacket)
           f == IF Sent = 0 THEN None ELSE <<Sent, 1>>
<1>1. /\ at = "decode" /\ audio_pkt_size > 0
      /\ UNCHANGED <<sound, put, finished, taken, avPacket, audio_buf_size,
                     audio_buf_index, len, written>>
      /\ sound \in Sounds /\ decoder \in Decoders /\ Len(sound) \in Nat
      /\ taken \in 0..Len(sound) /\ audio_pkt_size \in Int
  BY LengthType DEF DecodePacket, InOrder, TypeOK, Types
<1>2. /\ Sent = taken - 1 /\ Sent \in Nat /\ taken > 0 /\ Holds(decoder, f)
      /\ ~ToSend => taken = 1 /\ finished
  BY <1>1 DEF SimpleInv, Sent
<1>3. f \in FrameIds /\ (f # None <=> Sent # 0)
  BY <1>1, <1>2 DEF None, FrameIds
<1> HIDE DEF r
<1>4. /\ r.d \in Decoders /\ Holds(r.d, None)
      /\ r.ret = IF Sent # 0 THEN "ok" ELSE "EAGAIN"
      /\ Sent # 0 => r.frame = <<Sent, 1>>
  <2>1. /\ r.d \in Decoders /\ Holds(r.d, None)
        /\ r.ret = IF f # None THEN "ok" ELSE "EAGAIN"
        /\ f # None => r.frame = f
    <3> HIDE DEF f
    <3> QED BY <1>1, <1>2, <1>3, SimpleReceive DEF r
  <2> QED BY <1>3, <2>1
<1>5. ASSUME ToSend
      PROVE  /\ avPacket = taken /\ s.ret = "ok"
             /\ PacketSize(avPacket) = audio_pkt_size
  <2>1. avPacket = taken /\ taken \in 1..Len(sound)
    BY <1>1, <1>2, <1>5 DEF CallInv
  <2>2. s.ret = "ok"
    BY <1>1, <1>4, <2>1, SimpleSend
  <2>3. PacketSize(avPacket) = audio_pkt_size
    BY <1>1, <1>2, <1>5, <2>1 DEF CallInv, PacketSize
  <2> QED BY <2>1, <2>2, <2>3
<1>6. IF \/ r.ret # "ok" /\ finished
         \/ r.ret \in {"EOF", "error"}
      THEN Fails
      ELSE IF s.ret \in {"EOF", "error"} THEN Fails
           ELSE /\ Consume(s.ret)
                /\ IF r.ret = "ok" THEN Returns(r.frame) ELSE Again
  BY DEF DecodePacket, r
<1> HIDE DEF s, f
<1>7. CASE r.ret # "ok" /\ finished
  BY <1>1, <1>2, <1>4, <1>6, <1>7
<1>8. CASE ~(r.ret # "ok" /\ finished)
  <2>1. ToSend
    BY <1>1, <1>2, <1>4, <1>8
  <2>2. s.ret = "ok" /\ PacketSize(avPacket) = audio_pkt_size
    BY <1>5, <2>1
  <2>3. ~(r.ret \in {"EOF", "error"})
    BY <1>4
  <2>4. Consume("ok") /\ (IF r.ret = "ok" THEN Returns(r.frame) ELSE Again)
    BY <1>6, <1>8, <2>2, <2>3
  <2>5. audio_pkt_size' = 0
    BY <1>1, <2>2, <2>4 DEF Consume
  <2> QED BY <1>1, <1>2, <1>4, <2>1, <2>4, <2>5
<1> QED BY <1>7, <1>8

-----------------------------------------------------------------------------
(* The clock                                                               *)

LEMMA Products ==
    ASSUME NEW u \in Nat, NEW L \in Nat
    PROVE  /\ u * L \in Nat /\ (1 + u) * L = u * L + L
           /\ (2 + u) * L = u * L + 2 * L /\ (1 + (u + 1)) * L = u * L + 2 * L
           /\ (3 + u) * L = u * L + 3 * L
  OBVIOUS

(* The clock while neither a packet is taken nor one is sent.              *)
LEMMA ClockQuiet ==
    ASSUME ClockInv,
           UNCHANGED <<sound, taken, audio_pkt_size, audio_clock>>
    PROVE  ClockInv'
<1>1. Sent' = Sent
  BY DEF Sent
<1>2. Starts' = Starts /\ Longest' = Longest
  BY DEF Starts, Longest
<1>3. Begin' = Begin
  BY <1>1, <1>2 DEF Begin, Start
<1>4. Waiting' = Waiting /\ Untimed' = Untimed
  BY DEF Waiting, Untimed, TimedPackets
<1> QED BY <1>2, <1>3, <1>4 DEF ClockInv

(* A packet is sent, and the frame before it returned, if there is one.    *)
LEMMA ClockSent ==
    ASSUME IInv, Simple(sound), ClockInv, audio_pkt_size > 0,
           sound' = sound, taken' = taken, audio_pkt_size' = 0,
           \/ Sent > 0 /\ audio_clock' = audio_clock + 2 * Size(<<Sent, 1>>)
           \/ Sent = 0 /\ audio_clock' = audio_clock
    PROVE  ClockInv'
<1> DEFINE k == Sent
           B == Begin
           L == Longest
           u == Untimed
           c == audio_clock
           z == Bytes(k)
<1>1. /\ sound \in Sounds /\ Len(sound) \in Nat /\ k \in 0..Len(sound)
      /\ taken \in Nat /\ taken <= Len(sound) /\ k = taken - 1
      /\ B \in Nat /\ L \in Nat /\ u \in 0..taken /\ c \in Int
  BY LeadTypes
<1>2. Waiting = 1 /\ Waiting' = 2
  BY DEF Waiting
<1>3. B <= c /\ c <= B + (1 + u) * L
  BY <1>2 DEF ClockInv
<1>4. Starts' = Starts /\ Longest' = L /\ Untimed' = u
  BY DEF Starts, Longest, Untimed, TimedPackets
<1>5. Sent' = k + 1
  BY <1>1 DEF Sent
<1>6. Begin' = Starts[k]
  <2>1. Begin' = IF Sent' = 0 THEN 0 ELSE Starts'[Sent' - 1]
    BY DEF Begin, Start
  <2> HIDE DEF k
  <2>2. k + 1 # 0 /\ (k + 1) - 1 = k
    BY <1>1
  <2> QED BY <1>4, <1>5, <2>1, <2>2
<1>7. CASE k = 0
  <2>1. Begin' = B /\ audio_clock' = c
    BY <1>1, <1>6, <1>7, StartsUnfolded DEF Begin
  <2> HIDE DEF k, B, L, u, c
  <2>2. B <= c /\ c <= B + (2 + u) * L
    BY <1>1, <1>3, Products
  <2> QED BY <1>2, <1>4, <2>1, <2>2 DEF ClockInv
<1>8. CASE k > 0
  <2>1. Starts[k] = B + z
    BY <1>1, <1>8, BeginType
  <2>2. /\ z \in Nat /\ z <= L /\ Size(<<k, 1>>) = z
    <3>1. k \in 1..Len(sound)
      BY <1>1, <1>8
    <3> HIDE DEF k
    <3> QED BY <1>1, <3>1, SimpleFrames, LongestBound
  <2>3. audio_clock' = c + 2 * z
    BY <1>8, <2>2
  <2> HIDE DEF k, B, L, u, c, z
  <2>4. B + z <= c + 2 * z /\ c + 2 * z <= (B + z) + (2 + u) * L
    BY <1>1, <1>3, <2>2, Products
  <2> QED BY <1>2, <1>4, <1>6, <2>1, <2>3, <2>4 DEF ClockInv
<1> QED BY <1>1, <1>7, <1>8

(* A packet is taken, with a pts or without.                               *)
LEMMA ClockTaken ==
    ASSUME IInv, Simple(sound), Timed(sound), ClockInv, GetPacket
    PROVE  ClockInv'
<1> DEFINE k == taken
           B == Begin
           L == Longest
           u == Untimed
           c == audio_clock
           z == Bytes(k)
<1>1. /\ sound \in Sounds /\ Len(sound) \in Nat /\ k \in 0..Len(sound)
      /\ k + 1 \in 1..Len(sound) /\ k \in Nat
      /\ B \in Nat /\ L \in Nat /\ u \in Nat /\ c \in Int
  BY LeadTypes DEF GetPacket, IInv, InOrder, TypeOK
<1>2. /\ audio_pkt_size <= 0 /\ taken' = k + 1 /\ sound' = sound
      /\ audio_pkt_size' > 0
      /\ audio_clock' = IF sound[k + 1].pts = NoPts THEN c
                        ELSE sound[k + 1].pts
  BY <1>1, SoundType DEF GetPacket, IInv, CallInv
<1>3. Waiting = 2 /\ Waiting' = 1 /\ Sent = k /\ Sent' = k
  <2> HIDE DEF c, z
  <2>1. ~(audio_pkt_size > 0)
    BY <1>2 DEF IInv, InOrder, TypeOK
  <2> QED BY <1>1, <1>2, <2>1 DEF Waiting, Sent
<1>4. Starts' = Starts /\ Longest' = L
  BY <1>2 DEF Starts, Longest
<1>5. Begin' = B
  BY <1>3, <1>4 DEF Begin, Start
<1>6. B <= c /\ c <= B + (2 + u) * L
  BY <1>3 DEF ClockInv
<1>7. Untimed' = IF sound[k + 1].pts # NoPts THEN 0 ELSE u + 1
  BY <1>1, <1>2, UntimedNext
<1>8. CASE sound[k + 1].pts = NoPts
  <2>1. audio_clock' = c /\ Untimed' = u + 1
    BY <1>2, <1>7, <1>8
  <2> HIDE DEF k, B, L, u, c, z
  <2>2. c <= B + (1 + (u + 1)) * L
    BY <1>1, <1>6, Products
  <2> QED BY <1>3, <1>4, <1>5, <1>6, <2>1, <2>2 DEF ClockInv
<1>9. CASE sound[k + 1].pts # NoPts
  <2>1. sound[k + 1].pts = Starts[k]
    <3>1. k + 1 \in DOMAIN sound
      BY <1>1, AudioAssumption
    <3>2. sound[k + 1].pts = Start(k + 1)
      BY <1>9, <3>1 DEF Timed
    <3> HIDE DEF k
    <3>3. (k + 1) - 1 = k
      BY <1>1
    <3> QED BY <3>2, <3>3 DEF Start
  <2>2. audio_clock' = Starts[k] /\ Untimed' = 0
    BY <1>2, <1>7, <1>9, <2>1
  <2>3. B <= Starts[k] /\ Starts[k] <= B + (1 + 0) * L
    <3>1. CASE k = 0
      <4>1. B = 0 /\ Starts[k] = 0
        BY <1>1, <1>3, <3>1, StartsUnfolded DEF Begin
      <4> HIDE DEF k, B, L
      <4> QED BY <1>1, <4>1
    <3>2. CASE k # 0
      <4>1. Starts[k] = B + z
        BY <1>1, <1>3, <3>2, BeginType
      <4>2. z \in Nat /\ z <= L
        <5>1. k \in 1..Len(sound)
          BY <1>1, <3>2
        <5> HIDE DEF k
        <5> QED BY <1>1, <5>1, SimpleFrames, LongestBound
      <4> HIDE DEF k, B, L, z
      <4> QED BY <1>1, <4>1, <4>2
    <3> QED BY <3>1, <3>2
  <2> HIDE DEF k, B, L, z
  <2> QED BY <1>3, <1>4, <1>5, <2>2, <2>3 DEF ClockInv
<1> QED BY <1>8, <1>9

LEMMA ClockNext ==
    ASSUME IInv, Simple(sound), Timed(sound), ClockInv, [Next]_vars
    PROVE  ClockInv'
<1>1. CASE GetPacket
  BY <1>1, ClockTaken
<1>2. CASE DecodePacket
  <2>1. /\ audio_pkt_size > 0 /\ sound' = sound /\ taken' = taken
        /\ \/ Fails
           \/ Sent > 0 /\ Returns(<<Sent, 1>>) /\ audio_pkt_size' = 0
           \/ Sent = 0 /\ Again /\ audio_pkt_size' = 0
    BY <1>2, SimpleTurn
  <2>2. CASE Fails
    BY <2>1, <2>2, ClockQuiet DEF Fails
  <2>3. CASE Sent > 0 /\ Returns(<<Sent, 1>>) /\ audio_pkt_size' = 0
    BY <2>1, <2>3, ClockSent DEF Returns
  <2>4. CASE Sent = 0 /\ Again /\ audio_pkt_size' = 0
    BY <2>1, <2>4, ClockSent DEF Again
  <2> QED BY <2>1, <2>2, <2>3, <2>4
<1>3. CASE ~GetPacket /\ ~DecodePacket
  <2>1. UNCHANGED <<sound, taken, audio_pkt_size, audio_clock>>
    BY <1>3, MainThreadQuiet
       DEF Next, DecodeThread, AudioThread, ReadPacket, FinishReading,
       AudioCallback, CallDecode, WriteStream, StoreSize, StoreIndex,
       NextPacket, GetNone, Fails, vars, callVars, bufferVars
  <2> QED BY <2>1, ClockQuiet
<1> QED BY <1>1, <1>2, <1>3

-----------------------------------------------------------------------------
(* The size and the index of the buffer                                    *)

LEMMA OverKept ==
    ASSUME Over,
           UNCHANGED <<sound, finished, taken, audio_pkt_size>>,
           ToSend' => ToSend
    PROVE  Over'
  BY DEF Over

(* While the buffer and the packet sent last are the same.                 *)
LEMMA SwapQuiet ==
    ASSUME SwapInv, Sent' = Sent, Over => Over',
           UNCHANGED <<audio_buf, audio_buf_size, audio_buf_index>>,
           written = <<>> \/ written' # <<>>,
           at \notin {"size", "index"}, at' \notin {"size", "index"}
    PROVE  SwapInv'
  BY DEF SwapInv

(* What is in the buffer when all of it has been written.                  *)
LEMMA BufferAtDecode ==
    ASSUME IInv, SwapInv, Simple(sound), at \in {"decode", "get"}
    PROVE  /\ audio_buf_index = audio_buf_size
           /\ audio_buf # None => audio_buf_index <= Longest
           /\ audio_buf = None => audio_buf_index \in {0, Silence}
           /\ audio_buf = None /\ ~Over => audio_buf_index = 0
<1>1. audio_buf_index = audio_buf_size
  BY DEF IInv, BufferInv
<1>2. ASSUME audio_buf # None PROVE audio_buf_index <= Longest
  <2>1. audio_buf_size = Size(audio_buf)
    BY <1>2 DEF IInv, BufferInv
  <2> QED BY <1>1, <1>2, <2>1, BufferedFrame
<1> QED BY <1>1, <1>2 DEF SwapInv

(* audio_decode_frame fails when no frame will come.                       *)
LEMMA SwapFails ==
    ASSUME IInv, SwapInv, Simple(sound), at \in {"decode", "get"}, Fails,
           Over', Sent' = Sent,
           UNCHANGED <<sound, audio_buf_size, audio_buf_index>>
    PROVE  SwapInv'
<1>1. audio_buf' = None /\ at' = "size"
  BY DEF Fails
<1>2. audio_buf_index <= Longest \/ audio_buf_index <= Silence
  <2>1. 0 <= Silence /\ Silence <= Silence
    BY AudioAssumption
  <2> QED BY <2>1, BufferAtDecode
<1>3. Longest' = Longest
  BY DEF Longest
<1>4. audio_buf_index' <= Longest' \/ audio_buf_index' <= Silence
  BY <1>2, <1>3
<1>5. audio_buf_index' = audio_buf_size'
  BY BufferAtDecode
<1> QED BY <1>1, <1>4, <1>5 DEF SwapInv

LEMMA SwapDecode ==
    ASSUME IInv, SwapInv, Simple(sound), DecodePacket
    PROVE  SwapInv'
<1>1. /\ at = "decode" /\ audio_pkt_size > 0 /\ Sent = taken - 1
      /\ UNCHANGED <<sound, put, finished, taken, audio_buf_size,
                     audio_buf_index, len, written>>
      /\ \/ Fails /\ finished /\ Sent = 0
         \/ ToSend /\ Sent > 0 /\ Returns(<<Sent, 1>>) /\ audio_pkt_size' = 0
         \/ ToSend /\ Sent = 0 /\ Again /\ audio_pkt_size' = 0
  BY SimpleTurn
<1>2. Sent \in Nat /\ taken \in Nat
  BY LeadTypes
<1>3. Longest' = Longest
  BY <1>1 DEF Longest
<1>4. ToSend => ~Over
  BY <1>1 DEF Over
<1>5. CASE Fails /\ finished /\ Sent = 0
  <2>1. taken = 1
    BY <1>1, <1>2, <1>5
  <2>2. at' = "size" /\ audio_pkt_size' = audio_pkt_size
    BY <1>5 DEF Fails
  <2>3. Sent' = Sent
    BY <1>1, <2>2 DEF Sent
  <2>4. Over'
    BY <1>1, <1>5, <2>1, <2>2 DEF Over, ToSend
  <2> QED BY <1>1, <1>5, <2>3, <2>4, SwapFails
<1>6. CASE ToSend /\ Sent > 0 /\ Returns(<<Sent, 1>>) /\ audio_pkt_size' = 0
  <2>1. Sent' = Sent + 1
    BY <1>1, <1>2, <1>6 DEF Sent
  <2>2. at' = "size" /\ audio_buf' = <<Sent, 1>> /\ audio_buf' # None
    BY <1>6 DEF Returns, None
  <2>3. written = <<>> => Sent = 1
    <3>1. LastGiven = IF Sent < 2 THEN None ELSE <<Sent - 1, 1>>
      BY DEF IInv, SimpleInv
    <3>2. written = <<>> => LastGiven = None
      BY <1>1, BufferWritten
    <3>3. Sent > 1 => <<Sent - 1, 1>> # None
      BY <1>2 DEF None
    <3> QED BY <1>2, <1>6, <3>1, <3>2, <3>3
  <2>4. audio_buf_index = audio_buf_size /\ audio_buf_index <= Longest
    <3>1. 0 <= Longest
      BY LeadTypes
    <3> QED BY <1>1, <1>4, <1>6, <3>1, BufferAtDecode
  <2>5. written' = <<>> => Sent' = 2
    BY <1>1, <2>1, <2>3
  <2>6. audio_buf_index' = audio_buf_size' /\ audio_buf_index' <= Longest'
    BY <1>1, <1>3, <2>4
  <2> QED BY <2>2, <2>5, <2>6 DEF SwapInv
<1>7. CASE ToSend /\ Sent = 0 /\ Again /\ audio_pkt_size' = 0
  <2>1. at' = "decode" /\ audio_buf' = audio_buf
    BY <1>7 DEF Again
  <2>2. audio_buf = None
    <3>1. audio_buf # None => Sent > 1
      BY BufferedFrame
    <3> QED BY <1>7, <3>1
  <2>3. audio_buf_size = 0 /\ audio_buf_index = 0
    BY <1>4, <1>7, <2>2 DEF SwapInv
  <2>4. audio_buf_size' = 0 /\ audio_buf_index' = 0 /\ audio_buf' = None
    BY <1>1, <2>1, <2>2, <2>3
  <2> QED BY <2>1, <2>4 DEF SwapInv
<1> QED BY <1>1, <1>5, <1>6, <1>7

LEMMA SwapNext ==
    ASSUME IInv, Simple(sound), SwapInv, [Next]_vars
    PROVE  SwapInv'
<1>1. /\ put \in Nat /\ Len(sound) \in Nat /\ taken \in Nat /\ taken <= put
      /\ put <= Len(sound) /\ finished \in BOOLEAN
  BY LengthType DEF IInv, InOrder, TypeOK
<1>2. CASE UNCHANGED vars \/ MainThread
  <2>1. UNCHANGED <<sound, put, finished, taken, callVars, at, bufferVars,
                    written>>
    BY <1>2, MainThreadQuiet DEF vars
  <2>2. Sent' = Sent /\ Longest' = Longest /\ Over' = Over
    BY <2>1 DEF callVars, Sent, Longest, Over, ToSend
  <2> QED BY <2>1, <2>2 DEF callVars, bufferVars, SwapInv
<1>3. CASE ReadPacket
  <2>1. ~Over
    BY <1>3 DEF ReadPacket, Over
  <2>2. Sent' = Sent /\ Longest' = Longest
    BY <1>3 DEF ReadPacket, callVars, Sent, Longest
  <2> QED BY <1>3, <2>1, <2>2 DEF ReadPacket, bufferVars, SwapInv
<1>4. CASE FinishReading
  <2>1. Sent' = Sent /\ Longest' = Longest /\ (Over => Over')
    BY <1>4 DEF FinishReading, callVars, Sent, Longest, Over, ToSend
  <2> QED BY <1>4, <2>1 DEF FinishReading, bufferVars, SwapInv
<1>5. CASE AudioCallback
  <2>1. at = "out" /\ at' = "fill"
        /\ UNCHANGED <<sound, finished, taken, callVars, bufferVars, written>>
    BY <1>5 DEF AudioCallback
  <2>2. Sent' = Sent /\ (Over => Over')
    BY <2>1, OverKept DEF callVars, Sent, ToSend
  <2> QED BY <2>1, <2>2, SwapQuiet DEF bufferVars
<1>6. CASE CallDecode
  <2>1. at = "fill" /\ at' = "decode" /\ avPacket' = 0
        /\ UNCHANGED <<sound, finished, taken, audio_pkt_size, bufferVars,
                       written>>
    BY <1>6 DEF CallDecode
  <2>2. Sent' = Sent /\ (Over => Over')
    BY <2>1, OverKept DEF Sent, ToSend
  <2> QED BY <2>1, <2>2, SwapQuiet DEF bufferVars
<1>7. CASE WriteStream
  <2>1. /\ at = "fill" /\ at' \in {"out", "fill"}
        /\ audio_buf_index < audio_buf_size
        /\ UNCHANGED <<sound, finished, taken, callVars, audio_buf,
                       audio_buf_size>>
        /\ written' = written \/ audio_buf # None
    BY <1>7 DEF WriteStream
  <2>2. Sent' = Sent /\ (Over => Over')
    BY <2>1, OverKept DEF callVars, Sent, ToSend
  <2>3. audio_buf # None => written' # <<>>
    <3>1. ASSUME audio_buf # None PROVE written' # <<>>
      <4> DEFINE x == Piece(Smaller(audio_buf_size - audio_buf_index, len))
      <4>1. written' = Append(written, x)
        BY <1>7, <3>1 DEF WriteStream
      <4>2. written \in Seq(Pieces)
        BY DEF IInv, Types
      <4> HIDE DEF x
      <4> QED BY <4>1, <4>2
    <3> QED BY <3>1
  <2>4. audio_buf = None => Over
    BY <2>1 DEF SwapInv
  <2> QED BY <2>1, <2>2, <2>3, <2>4 DEF SwapInv
<1>8. CASE StoreSize
  <2>1. /\ at = "size" /\ at' = "index"
        /\ audio_buf_size' = IF audio_buf = None THEN Silence
                             ELSE Size(audio_buf)
        /\ UNCHANGED <<sound, finished, taken, callVars, audio_buf,
                       audio_buf_index, written>>
    BY <1>8 DEF StoreSize
  <2>2. Sent' = Sent /\ Longest' = Longest /\ (Over => Over')
    BY <2>1, OverKept DEF callVars, Sent, Longest, ToSend
  <2> QED BY <2>1, <2>2 DEF SwapInv
<1>9. CASE StoreIndex
  <2>1. /\ at = "index" /\ at' = "fill" /\ audio_buf_index' = 0
        /\ UNCHANGED <<sound, finished, taken, callVars, audio_buf,
                       audio_buf_size, written>>
    BY <1>9 DEF StoreIndex
  <2>2. Sent' = Sent /\ (Over => Over')
    BY <2>1, OverKept DEF callVars, Sent, ToSend
  <2>3. audio_buf = None => Over
    <3>1. Silence # 0
      BY AudioAssumption
    <3> QED BY <2>1, <3>1 DEF SwapInv
  <2> QED BY <2>1, <2>2, <2>3 DEF SwapInv
<1>10. CASE DecodePacket
  BY <1>10, SwapDecode
<1>11. CASE NextPacket
  <2>1. at = "decode" /\ at' = "get"
        /\ UNCHANGED <<sound, finished, taken, callVars, bufferVars, written>>
    BY <1>11 DEF NextPacket
  <2>2. Sent' = Sent /\ (Over => Over')
    BY <2>1, OverKept DEF callVars, Sent, ToSend
  <2> QED BY <2>1, <2>2, SwapQuiet DEF bufferVars
<1>12. CASE GetPacket
  <2>1. /\ at = "get" /\ at' = "decode" /\ taken < put
        /\ taken' = taken + 1 /\ sound' = sound
        /\ audio_pkt_size' = sound[taken'].size
        /\ UNCHANGED <<bufferVars, written>>
    BY <1>12 DEF GetPacket
  <2>2. audio_pkt_size' > 0
    <3>1. taken + 1 \in 1..Len(sound) /\ sound \in Sounds
      BY <1>1, <2>1 DEF IInv, InOrder, TypeOK
    <3> QED BY <2>1, <3>1, SoundType
  <2>3. ~(audio_pkt_size > 0)
    BY <2>1 DEF IInv, CallInv, InOrder, TypeOK
  <2>4. Sent' = Sent
    BY <1>1, <2>1, <2>2, <2>3 DEF Sent
  <2>5. ~Over
    BY <1>1, <2>1, <2>3 DEF Over
  <2> QED BY <2>1, <2>4, <2>5, SwapQuiet DEF bufferVars
<1>13. CASE GetNone
  <2>1. /\ at = "get" /\ taken = put
        /\ UNCHANGED <<sound, finished, taken, audio_buf_size,
                       audio_buf_index, written>>
        /\ IF finished THEN Fails
           ELSE at' = "asleep" /\ UNCHANGED <<audio_pkt_size, audio_buf>>
    BY <1>13 DEF GetNone
  <2>2. Sent' = Sent /\ audio_pkt_size' = audio_pkt_size
    BY <2>1 DEF Fails, Sent
  <2>3. CASE finished
    <3>1. ~(audio_pkt_size > 0)
      BY <2>1 DEF IInv, CallInv, InOrder, TypeOK
    <3>2. taken = Len(sound)
      BY <2>1, <2>3 DEF IInv, CallInv
    <3>3. Over'
      BY <2>1, <2>2, <2>3, <3>1, <3>2 DEF Over
    <3> QED BY <2>1, <2>2, <2>3, <3>3, SwapFails
  <2>4. CASE ~finished
    <3>1. ~Over
      BY <2>4 DEF Over
    <3> QED BY <2>1, <2>2, <2>4, <3>1, SwapQuiet
  <2> QED BY <2>3, <2>4
<1> QED BY <1>2, <1>3, <1>4, <1>5, <1>6, <1>7, <1>8, <1>9, <1>10, <1>11,
       <1>12, <1>13 DEF Next, DecodeThread, AudioThread

-----------------------------------------------------------------------------
(* The sound heard and the clock                                           *)

(* What has been heard when there is a frame in the buffer ...             *)
LEMMA PositionBuffered ==
    ASSUME IInv, SwapInv, Simple(sound), audio_buf # None
    PROVE  Position = Starts[Sent - 2]
                      + (IF Fresh THEN 0 ELSE audio_buf_index)
<1> DEFINE k == Sent
           z == Bytes(k - 1)
<1>1. /\ sound \in Sounds /\ Len(sound) \in Nat /\ k \in 0..Len(sound)
      /\ k > 1 /\ audio_buf = <<k - 1, 1>> /\ audio_buf_index \in Nat
  BY LeadTypes, BufferedFrame
<1>2. k - 2 \in 0..Len(sound) /\ Starts[k - 2] \in Nat
  <2>1. k - 2 \in 0..Len(sound)
    BY <1>1
  <2> QED BY <1>1, <2>1, StartsType
<1>3. CASE written = <<>>
  <2>1. k = 2 /\ Position = 0 /\ Fresh
    BY <1>3 DEF SwapInv, Position, IInv, BufferInv
  <2>2. Starts[k - 2] = 0
    <3> HIDE DEF k
    <3>1. k - 2 = 0
      BY <2>1
    <3> QED BY <1>1, <3>1, StartsUnfolded
  <2> QED BY <2>1, <2>2
<1>4. CASE written # <<>>
  <2> DEFINE w == Last(written)
  <2>1. /\ IsFrame(w.frame)
        /\ IF ~Fresh THEN w.frame = audio_buf /\ w.to = audio_buf_index
           ELSE w.to = Size(w.frame) /\ Follows(w.frame, audio_buf)
    BY <1>4 DEF IInv, BufferInv
  <2>2. Position = Starts[w.frame[1] - 1] + w.to
    BY <1>4 DEF Position, Start
  <2> HIDE DEF w
  <2>3. CASE ~Fresh
    <3>1. w.frame[1] - 1 = k - 2 /\ w.to = audio_buf_index
      BY <1>1, <2>1, <2>3
    <3> QED BY <2>2, <2>3, <3>1
  <2>4. CASE Fresh
    <3> DEFINE p == w.frame[1]
    <3>1. p \in 1..Len(sound) /\ w.frame = <<p, w.frame[2]>>
          /\ w.frame[2] \in 1..Len(sound[p].frames)
      BY <2>1 DEF IsFrame, FrameIds
    <3>2. w.frame[2] = 1
      <4>1. p \in DOMAIN sound
        BY <3>1, AudioAssumption, <1>1
      <4>2. Len(sound[p].frames) = 1
        BY <4>1 DEF Simple
      <4> QED BY <3>1, <4>2
    <3>3. k - 1 = p + 1
      BY <1>1, <2>1, <2>4, <3>1, <3>2 DEF Follows
    <3>4. w.to = Bytes(p) /\ Bytes(p) \in Nat
      <4> HIDE DEF p
      <4>1. Size(<<p, 1>>) = Bytes(p) /\ Bytes(p) \in Nat
        BY <1>1, <3>1, SimpleFrames
      <4> QED BY <2>1, <2>4, <3>1, <3>2, <4>1
    <3> HIDE DEF p, k
    <3>5. Starts[p] = Starts[p - 1] + Bytes(p) /\ k - 2 = p
      BY <1>1, <3>1, <3>3, StartsUnfolded
    <3>6. Position = Starts[k - 2]
      BY <2>2, <3>4, <3>5 DEF p
    <3>7. Position = Starts[k - 2] + 0
      BY <1>2, <3>6
    <3> QED BY <2>4, <3>7 DEF k
  <2> QED BY <2>3, <2>4
<1> QED BY <1>3, <1>4

(* ... and when there is none.                                             *)
LEMMA PositionSilent ==
    ASSUME IInv, SwapInv, Simple(sound), audio_buf = None
    PROVE  Position = Begin
<1> DEFINE k == Sent
<1>1. sound \in Sounds /\ Len(sound) \in Nat /\ k \in 0..Len(sound)
  BY LeadTypes
<1>2. (IF written # <<>> THEN Last(written).frame ELSE None)
        = IF k < 2 THEN None ELSE <<k - 1, 1>>
  BY DEF IInv, SimpleInv, LastGiven
<1>3. CASE written = <<>>
  <2>1. k < 2
    BY <1>1, <1>2, <1>3 DEF None
  <2>2. Begin = 0
    <3>1. k = 0 \/ k = 1
      BY <1>1, <2>1
    <3>2. CASE k = 0
      BY <3>2 DEF Begin
    <3>3. CASE k = 1
      <4>1. Begin = Starts[k - 1]
        BY <3>3 DEF Begin, Start
      <4> HIDE DEF k
      <4>2. k - 1 = 0
        BY <3>3
      <4> QED BY <1>1, <4>1, <4>2, StartsUnfolded
    <3> QED BY <3>1, <3>2, <3>3
  <2> QED BY <1>3, <2>2 DEF Position
<1>4. CASE written # <<>>
  <2> DEFINE w == Last(written)
  <2>1. IsFrame(w.frame) /\ w.to = Size(w.frame)
    BY <1>4 DEF IInv, BufferInv
  <2>2. Position = Starts[w.frame[1] - 1] + w.to
    BY <1>4 DEF Position, Start
  <2>3. w.frame = IF k < 2 THEN None ELSE <<k - 1, 1>>
    BY <1>2, <1>4
  <2> HIDE DEF w
  <2>4. w.frame = <<k - 1, 1>> /\ k > 1
    BY <1>1, <2>1, <2>3 DEF IsFrame, None
  <2>5. Begin = Starts[k - 1]
    BY <1>1, <2>4 DEF Begin, Start
  <2> DEFINE p == k - 1
  <2>6. p \in 1..Len(sound) /\ w.frame = <<p, 1>> /\ Begin = Starts[p]
    BY <1>1, <2>4, <2>5
  <2> HIDE DEF p, k
  <2>7. Starts[p] = Starts[p - 1] + Bytes(p) /\ Size(<<p, 1>>) = Bytes(p)
    BY <1>1, <2>6, StartsUnfolded, SimpleFrames
  <2>8. w.frame[1] = p
    BY <2>6
  <2> QED BY <2>1, <2>2, <2>6, <2>7, <2>8
<1> QED BY <1>3, <1>4

(* The clock is not behind the sound, and at most three frames ahead and    *)
(* one more for each packet since the last with a pts.                     *)
LEMMA ClockHolds ==
    ASSUME IInv, LeadInv, Simple(sound), Timed(sound)
    PROVE  /\ Position \in Int /\ Position <= audio_clock
           /\ audio_clock <= Position + (3 + Untimed) * Longest
<1> DEFINE k == Sent
           B == Begin
           L == Longest
           u == Untimed
           c == audio_clock
           i == audio_buf_index
           n == audio_buf_size
           W == Waiting
           P == Position
<1>1. /\ sound \in Sounds /\ Len(sound) \in Nat /\ k \in 0..Len(sound)
      /\ B \in Nat /\ L \in Nat /\ u \in Nat /\ c \in Int
      /\ i \in Nat /\ n \in Nat /\ W \in {1, 2}
  BY LeadTypes
<1>2. ClockInv /\ SwapInv
  BY DEF LeadInv
<1>3. B <= c /\ c <= B + (W + u) * L
  BY <1>2 DEF ClockInv
<1>4. B <= c /\ c <= B + (2 + u) * L
  <2> HIDE DEF k, B, L, u, c, i, n, W, P
  <2>1. W = 1 \/ W = 2
    BY <1>1
  <2> QED BY <1>1, <1>3, <2>1, Products
<1>5. CASE audio_buf = None
  <2>1. P = B
    BY <1>2, <1>5, PositionSilent
  <2>2. P \in Int /\ P <= c /\ c <= P + (3 + u) * L
    <3> HIDE DEF k, B, L, u, c, i, n, W, P
    <3> QED BY <1>1, <1>4, <2>1, Products
  <2> HIDE DEF P, c, u, L
  <2> QED BY <2>2 DEF P, c, u, L
<1>6. CASE audio_buf # None
  <2> DEFINE z == Bytes(k - 1)
             s == Starts[k - 2]
             h == IF Fresh THEN 0 ELSE i
  <2>1. k > 1 /\ Size(audio_buf) = z /\ z \in Nat /\ z <= L
        /\ k - 1 \in 1..Len(sound)
    BY <1>6, BufferedFrame
  <2>2. P = s + h
    BY <1>2, <1>6, PositionBuffered
  <2>3. B = s + z /\ s \in Nat
    <3>1. B = Starts[k - 1]
      BY <1>1, <2>1, BeginType
    <3>2. Starts[k - 1] = Starts[(k - 1) - 1] + z /\ (k - 1) - 1 = k - 2
      BY <1>1, <2>1, StartsUnfolded
    <3>3. k - 2 \in 0..Len(sound)
      BY <1>1, <2>1
    <3>4. Starts[k - 2] \in Nat
      BY <1>1, <3>3, StartsType
    <3> QED BY <3>1, <3>2, <3>4
  <2>4. h \in Nat /\ h <= z
    <3>1. CASE at \in {"size", "index"}
      BY <2>1, <3>1 DEF Fresh
    <3>2. CASE at \notin {"size", "index"}
      <4>1. n = z /\ i <= n
        BY <1>6, <2>1, <3>2 DEF IInv, BufferInv, InOrder, TypeOK
      <4> QED BY <1>1, <2>1, <4>1
    <3> QED BY <3>1, <3>2
  <2>5. P \in Int /\ P <= c /\ c <= P + (3 + u) * L
    <3> HIDE DEF k, B, L, u, c, i, n, W, P, z, s, h
    <3> QED BY <1>1, <1>4, <2>1, <2>2, <2>3, <2>4, Products
  <2> HIDE DEF P, c, u, L
  <2> QED BY <2>5 DEF P, c, u, L
<1> QED BY <1>5, <1>6

(* The size and the index are those of a frame or of silence, also while   *)
(* they belong to different ones.                                          *)
LEMMA BufferHolds ==
    ASSUME IInv, LeadInv, Simple(sound), Timed(sound)
    PROVE  /\ LongestBuffer \in Nat
           /\ audio_buf_size \in 0..LongestBuffer
           /\ audio_buf_index \in 0..LongestBuffer
<1> DEFINE L == Longest
           i == audio_buf_index
           n == audio_buf_size
           M == LongestBuffer
<1>1. L \in Nat /\ i \in Nat /\ n \in Nat /\ Silence \in Nat
  BY LeadTypes, AudioAssumption
<1>2. M \in Nat /\ L <= M /\ Silence <= M
  <2> HIDE DEF L
  <2> QED BY <1>1 DEF LongestBuffer, L
<1>3. SwapInv
  BY DEF LeadInv
<1>4. at # "index" => i <= n
  BY DEF IInv, InOrder, TypeOK
<1>5. (n <= L \/ n <= Silence) /\ (i <= L \/ i <= Silence)
  <2>1. CASE at = "size"
    BY <1>3, <2>1 DEF SwapInv
  <2>2. CASE at # "size" /\ audio_buf = None
    <3>1. n \in {0, Silence}
      BY <1>3, <2>2 DEF SwapInv
    <3>2. i <= L \/ i <= Silence \/ i <= n
      BY <1>3, <1>4, <2>2 DEF SwapInv
    <3> HIDE DEF L, i, n
    <3> QED BY <1>1, <3>1, <3>2
  <2>3. CASE at # "size" /\ audio_buf # None
    <3>1. n = Size(audio_buf) /\ Size(audio_buf) <= L
      BY <2>3, BufferedFrame DEF IInv, BufferInv
    <3>2. i <= L \/ i <= n
      BY <1>3, <1>4, <2>3 DEF SwapInv
    <3> HIDE DEF L, i, n
    <3> QED BY <1>1, <3>1, <3>2
  <2> QED BY <2>1, <2>2, <2>3
<1> HIDE DEF L, i, n, M
<1>6. n \in 0..M /\ i \in 0..M
  BY <1>1, <1>2, <1>5
<1> QED BY <1>2, <1>6 DEF n, i, M

-----------------------------------------------------------------------------
(* The call of get_audio_clock, in the middle of which the audio thread    *)
(* may do anything: what it has read bounds what it returns.               *)

ReaderInv == Simple(sound) /\ Timed(sound) =>
    /\ reader.next # "no" =>
         /\ reader.heard \in Int /\ reader.pts \in Int
         /\ reader.untimed \in Nat
         /\ reader.heard <= reader.pts
         /\ reader.pts <= reader.heard + (3 + reader.untimed) * Longest
    /\ reader.next = "index" => reader.size \in 0..LongestBuffer

LEMMA ReaderNext ==
    ASSUME IInv, LeadInv, ReaderInv, [Next]_vars, sound' = sound
    PROVE  ReaderInv'
<1>1. /\ Simple(sound)' = Simple(sound) /\ Timed(sound)' = Timed(sound)
      /\ Longest' = Longest /\ LongestBuffer' = LongestBuffer
  BY DEF Simple, Timed, Start, Starts, Longest, LongestBuffer
<1>2. CASE ReadClock
  <2> SUFFICES ASSUME Simple(sound), Timed(sound) PROVE ReaderInv'
    BY <1>1 DEF ReaderInv
  <2>1. /\ Position \in Int /\ Position <= audio_clock
        /\ audio_clock <= Position + (3 + Untimed) * Longest
        /\ Untimed \in Nat /\ audio_clock \in Int
    BY ClockHolds, LeadTypes
  <2>2. /\ reader'.next = "size" /\ reader'.heard = Position
        /\ reader'.pts = audio_clock /\ reader'.untimed = Untimed
    BY <1>2 DEF ReadClock
  <2> QED BY <1>1, <2>1, <2>2 DEF ReaderInv
<1>3. CASE ReadSize
  <2> SUFFICES ASSUME Simple(sound), Timed(sound) PROVE ReaderInv'
    BY <1>1 DEF ReaderInv
  <2>1. audio_buf_size \in 0..LongestBuffer
    BY BufferHolds
  <2>2. /\ reader.next = "size" /\ reader'.next = "index"
        /\ reader'.size = audio_buf_size /\ reader'.heard = reader.heard
        /\ reader'.pts = reader.pts /\ reader'.untimed = reader.untimed
    BY <1>3 DEF ReadSize, IInv, Types
  <2> QED BY <1>1, <2>1, <2>2 DEF ReaderInv
<1>4. CASE ReadIndex
  BY <1>4 DEF ReadIndex, NoReader, ReaderInv
<1>5. CASE reader' = reader
  BY <1>1, <1>5 DEF ReaderInv
<1> QED BY <1>2, <1>3, <1>4, <1>5 DEF Next, MainThread, DecodeThread,
       AudioThread, ReadPacket, FinishReading, AudioCallback, CallDecode,
       WriteStream, StoreSize, StoreIndex, DecodePacket, NextPacket,
       GetPacket, GetNone, vars

LEMMA LeadHolds == ASSUME IInv, LeadInv, ReaderInv PROVE ClockLead
<1> SUFFICES ASSUME Simple(sound), Timed(sound), reader.next = "index"
             PROVE  /\ reader.heard <= get_audio_clock + LongestBuffer
                    /\ get_audio_clock <= reader.heard
                         + (3 + reader.untimed) * Longest + LongestBuffer
  BY DEF ClockLead
<1> DEFINE i == audio_buf_index
           n == reader.size
           c == reader.pts
           P == reader.heard
           u == reader.untimed
           L == Longest
           M == LongestBuffer
<1>1. L \in Nat /\ M \in Nat /\ i \in 0..M
  BY LeadTypes, BufferHolds
<1>2. /\ P \in Int /\ c \in Int /\ u \in Nat /\ n \in 0..M
      /\ P <= c /\ c <= P + (3 + u) * L
  BY DEF ReaderInv
<1>3. get_audio_clock = c - (n - i)
  BY DEF get_audio_clock
<1> HIDE DEF i, n, c, P, u, L, M
<1>4. (3 + u) * L \in Nat
  BY <1>1, <1>2
<1>5. P <= (c - (n - i)) + M /\ c - (n - i) <= P + (3 + u) * L + M
  BY <1>1, <1>2, <1>4
<1> QED BY <1>3, <1>5 DEF P, u, L, M

LEMMA LeadInit == ASSUME Init PROVE LeadInv
<1> SUFFICES ASSUME Simple(sound) PROVE ClockInv /\ SwapInv
  BY DEF LeadInv
<1>1. /\ audio_pkt_size = 0 /\ taken = 0 /\ audio_clock = 0 /\ at = "out"
      /\ audio_buf = None /\ audio_buf_size = 0 /\ audio_buf_index = 0
      /\ sound \in Sounds
  BY DEF Init
<1>2. Sent = 0 /\ Begin = 0 /\ Waiting = 2
  BY <1>1 DEF Sent, Begin, Waiting
<1>3. Untimed = 0 /\ Longest \in Nat
  BY <1>1, UntimedType, LongestBound
<1>4. ClockInv
  <2> DEFINE L == Longest
  <2>1. 0 <= 0 + (2 + 0) * L
    <3> HIDE DEF L
    <3> QED BY <1>3 DEF L
  <2> QED BY <1>1, <1>2, <1>3, <2>1 DEF ClockInv
<1>5. SwapInv
  BY <1>1 DEF SwapInv
<1> QED BY <1>4, <1>5

(* In a simple film whose packets have the right pts or none, what the     *)
(* main thread reads of the audio clock without a lock, at any moments of  *)
(* the callback, is not behind the sound heard when it began to read by    *)
(* more than a buffer, nor ahead of it by more than three frames, one more *)
(* for each packet without a pts and a buffer, for every size of frames.   *)
THEOREM LeadCorrect == Spec => []ClockLead
<1>1. Init => IInv /\ LeadInv /\ ReaderInv
  <2>1. Init => ReaderInv
    BY DEF Init, NoReader, ReaderInv
  <2> QED BY <2>1, InitInv, LeadInit
<1>2. IInv /\ LeadInv /\ ReaderInv /\ [Next]_vars
        => (IInv /\ LeadInv /\ ReaderInv)'
  <2> SUFFICES ASSUME IInv, LeadInv, ReaderInv, [Next]_vars
               PROVE  IInv' /\ LeadInv' /\ ReaderInv'
    OBVIOUS
  <2>1. IInv'
    BY NextInv
  <2>2. sound' = sound
    BY MainThreadQuiet
       DEF Next, DecodeThread, AudioThread, ReadPacket, FinishReading,
       AudioCallback, CallDecode, WriteStream, StoreSize, StoreIndex,
       DecodePacket, NextPacket, GetPacket, GetNone, vars
  <2>3. Simple(sound)' = Simple(sound) /\ Timed(sound)' = Timed(sound)
    BY <2>2 DEF Simple, Timed, Start, Starts
  <2> QED BY <2>1, <2>2, <2>3, ClockNext, SwapNext, ReaderNext DEF LeadInv
<1>3. IInv /\ LeadInv /\ ReaderInv => ClockLead
  BY LeadHolds
<1> QED BY <1>1, <1>2, <1>3, PTL DEF Spec
=============================================================================
