---------------------------- MODULE PlayerProofs ----------------------------
(***************************************************************************)
(* The limits of the packet queues, the pictures shown and the sound       *)
(* heard, for all films, limits and delays of the decoders.                *)
(*                                                                         *)
(* For the limits the room that decode_thread saw is enough.  The order    *)
(* of the pictures and of the sound follows a packet from the film to the  *)
(* screen and the device: a queue holds the packets that come after those  *)
(* taken from it (Queued), a decoder the frames after those it has given   *)
(* (Watched, Listened), and the line that video_thread is at tells how     *)
(* many frames were given (Placed).                                        *)
(***************************************************************************)
EXTENDS Player, SequenceTheorems, WellFoundedInduction, TLAPS

(* What decode_thread knows after its look at the sizes stays true until   *)
(* it puts a packet: the consumers only make the queues smaller.           *)
ReadWithRoom == decode = "read" => ~QueuesFull

QueueTypes ==
    /\ film \in Films
    /\ position \in 0..Len(film.packets)
    /\ queue \in [Streams -> [packets : Seq(DOMAIN film.packets), size : Int]]

IInv == QueueTypes /\ ReadWithRoom /\ QueueBounds

(* The packets of a film are records with a positive size.                 *)
LEMMA PacketSizes ==
    ASSUME film \in Films, NEW p \in DOMAIN film.packets
    PROVE  Packet(p).size \in Nat \ {0}
<1> DEFINE S == [stream : film.streams, size : Nat \ {0}, good : BOOLEAN]
<1>1. film.packets \in Seq(S)
  BY PlayerAssumption
<1>2. film.packets[p] \in S
  BY <1>1, ElementOfSeq, LenProperties
<1> QED BY <1>2 DEF Packet

(* The sizes are numbers.                                                  *)
LEMMA SizesAreNumbers ==
    ASSUME film \in Films, NEW s
    PROVE  Sizes(s) \cup {0} \subseteq Nat
<1>1. \A p \in DOMAIN film.packets : Packet(p).size \in Nat
  BY PacketSizes
<1> QED BY <1>1 DEF Sizes

(* A step that leaves the queues alone and does not enter the state "read" *)
(* keeps the invariant.                                                    *)
LEMMA QueueUntouched ==
    ASSUME IInv, UNCHANGED <<film, queue>>,
           position' = position, decode' = "read" => decode = "read"
    PROVE  IInv'
<1>1. QueueTypes'
  BY DEF IInv, QueueTypes
<1>2. ReadWithRoom'
  BY DEF IInv, ReadWithRoom, QueuesFull
<1>3. QueueBounds'
  BY DEF IInv, QueueBounds, Sizes, Packet
<1> QED BY <1>1, <1>2, <1>3 DEF IInv

(* A get makes its queue smaller and leaves the other one alone.           *)
LEMMA TakeShrinks ==
    ASSUME IInv, NEW s \in Streams, HasPacket(s), Take(s),
           UNCHANGED <<film, position, decode>>
    PROVE  IInv'
<1> DEFINE head == Head(queue[s].packets)
<1>1. /\ queue \in [Streams -> [packets : Seq(DOMAIN film.packets), size : Int]]
      /\ film \in Films
  BY DEF IInv, QueueTypes
<1>2. /\ queue[s].packets \in Seq(DOMAIN film.packets)
      /\ queue[s].packets # <<>>
  BY <1>1 DEF HasPacket
<1>3. /\ head \in DOMAIN film.packets
      /\ Tail(queue[s].packets) \in Seq(DOMAIN film.packets)
  BY <1>2, HeadTailProperties
<1>4. Packet(head).size \in Nat
  BY <1>1, <1>3, PacketSizes
<1> HIDE DEF head
<1>5. queue' = [queue EXCEPT
                  ![s] = [packets |-> Tail(queue[s].packets),
                          size |-> queue[s].size - Packet(head).size]]
  BY DEF Take, head
<1>6. QueueTypes'
  BY <1>1, <1>3, <1>4, <1>5 DEF IInv, QueueTypes
<1>7. \A t \in Streams : queue'[t].size <= queue[t].size
  BY <1>1, <1>4, <1>5
<1>8. \A t \in Streams : queue[t].size \in Int /\ queue'[t].size \in Int
  BY <1>1, <1>6 DEF QueueTypes
<1>9. ReadWithRoom'
  BY <1>7, <1>8, PlayerAssumption
  DEF IInv, ReadWithRoom, QueuesFull, Streams
<1>10. QueueBounds'
  <2>1. \A t : Sizes(t)' = Sizes(t)
    BY DEF Sizes, Packet
  <2>2. \A t : Sizes(t) \cup {0} \subseteq Nat
    BY <1>1, SizesAreNumbers
  <2>3. \E n \in Sizes("audio") \cup {0} :
            queue'["audio"].size <= MaxAudioqSize + n
    <3>1. PICK n \in Sizes("audio") \cup {0} :
              queue["audio"].size <= MaxAudioqSize + n
      BY DEF IInv, QueueBounds
    <3>2. n \in Nat
      BY <2>2
    <3> QED BY <1>7, <1>8, <3>1, <3>2, PlayerAssumption DEF Streams
  <2>4. \E n \in Sizes("video") \cup {0} :
            queue'["video"].size <= MaxVideoqSize + n
    <3>1. PICK n \in Sizes("video") \cup {0} :
              queue["video"].size <= MaxVideoqSize + n
      BY DEF IInv, QueueBounds
    <3>2. n \in Nat
      BY <2>2
    <3> QED BY <1>7, <1>8, <3>1, <3>2, PlayerAssumption DEF Streams
  <2> QED BY <2>1, <2>3, <2>4 DEF QueueBounds
<1> QED BY <1>6, <1>9, <1>10 DEF IInv

(* A put is made with room in both queues and adds one packet to one.      *)
LEMMA ReadFits ==
    ASSUME IInv, DecodeRead
    PROVE  IInv'
<1> DEFINE p == position + 1
<1>1. /\ queue \in [Streams -> [packets : Seq(DOMAIN film.packets), size : Int]]
      /\ film \in Films
      /\ position \in 0..Len(film.packets)
      /\ film' = film /\ position' = p /\ position < Len(film.packets)
  BY DEF IInv, QueueTypes, DecodeRead
<1>2. /\ p \in DOMAIN film.packets
      /\ p \in 0..Len(film.packets)
  <2>1. film.packets \in Seq([stream : film.streams, size : Nat \ {0},
                              good : BOOLEAN])
    BY <1>1, PlayerAssumption
  <2> QED BY <1>1, <2>1
<1>3. Packet(p).size \in Nat
  BY <1>1, <1>2, PacketSizes
<1>4. Packet(position') = Packet(p)
  BY <1>1
<1> HIDE DEF p
<1>5. queue' = [s \in Streams |->
                  IF Packet(p).stream = s
                  THEN [packets |-> Append(queue[s].packets, p),
                        size |-> queue[s].size + Packet(p).size]
                  ELSE queue[s]]
  BY <1>1, <1>4 DEF DecodeRead
<1>6. QueueTypes'
  <2>1. queue' \in [Streams -> [packets : Seq(DOMAIN film.packets), size : Int]]
    <3>1. ASSUME NEW s \in Streams
          PROVE  queue'[s] \in [packets : Seq(DOMAIN film.packets), size : Int]
      <4>1. queue[s] \in [packets : Seq(DOMAIN film.packets), size : Int]
        BY <1>1
      <4>2. Append(queue[s].packets, p) \in Seq(DOMAIN film.packets)
        BY <1>2, <4>1, AppendProperties
      <4> QED BY <1>3, <1>5, <4>1, <4>2
    <3> QED BY <1>5, <3>1
  <2> QED BY <1>1, <1>2, <2>1 DEF QueueTypes
<1>7. ReadWithRoom'
  BY DEF DecodeRead, ReadWithRoom
<1>8. \A t : Sizes(t)' = Sizes(t)
  BY <1>1 DEF Sizes, Packet
<1>9. /\ queue["audio"].size \in Int /\ queue["audio"].size <= MaxAudioqSize
      /\ queue["video"].size \in Int /\ queue["video"].size <= MaxVideoqSize
  BY <1>1, PlayerAssumption
  DEF IInv, ReadWithRoom, QueuesFull, DecodeRead, Streams
<1>10. \E n \in Sizes("audio") \cup {0} :
           queue'["audio"].size <= MaxAudioqSize + n
  <2>1. CASE Packet(p).stream = "audio"
    <3>1. Packet(p).size \in Sizes("audio")
      BY <1>2, <2>1 DEF Sizes
    <3>2. queue'["audio"].size = queue["audio"].size + Packet(p).size
      BY <1>5, <2>1 DEF Streams
    <3> QED BY <1>3, <1>9, <3>1, <3>2, PlayerAssumption
  <2>2. CASE Packet(p).stream # "audio"
    <3>1. queue'["audio"].size = queue["audio"].size
      BY <1>5, <2>2 DEF Streams
    <3>2. queue'["audio"].size <= MaxAudioqSize + 0
      BY <1>9, <3>1, PlayerAssumption
    <3> QED BY <3>2
  <2> QED BY <2>1, <2>2
<1>11. \E n \in Sizes("video") \cup {0} :
           queue'["video"].size <= MaxVideoqSize + n
  <2>1. CASE Packet(p).stream = "video"
    <3>1. Packet(p).size \in Sizes("video")
      BY <1>2, <2>1 DEF Sizes
    <3>2. queue'["video"].size = queue["video"].size + Packet(p).size
      BY <1>5, <2>1 DEF Streams
    <3> QED BY <1>3, <1>9, <3>1, <3>2, PlayerAssumption
  <2>2. CASE Packet(p).stream # "video"
    <3>1. queue'["video"].size = queue["video"].size
      BY <1>5, <2>2 DEF Streams
    <3>2. queue'["video"].size <= MaxVideoqSize + 0
      BY <1>9, <3>1, PlayerAssumption
    <3> QED BY <3>2
  <2> QED BY <2>1, <2>2
<1>12. QueueBounds'
  BY <1>8, <1>10, <1>11 DEF QueueBounds
<1> QED BY <1>6, <1>7, <1>12 DEF IInv

(* The queues are empty at first.                                          *)
LEMMA InitIInv == Init => IInv
<1> SUFFICES ASSUME Init PROVE IInv
  OBVIOUS
<1>1. film \in Films /\ film.packets \in Seq([stream : film.streams,
                                              size : Nat \ {0}, good : BOOLEAN])
  BY PlayerAssumption DEF Init
<1>2. QueueTypes
  <2>1. Len(film.packets) \in Nat /\ <<>> \in Seq(DOMAIN film.packets)
    BY <1>1, LenProperties, EmptySeq
  <2>2. 0 \in 0..Len(film.packets)
    BY <2>1
  <2>3. queue = [s \in Streams |-> [packets |-> <<>>, size |-> 0]]
    BY DEF Init
  <2>4. [packets |-> <<>>, size |-> 0]
          \in [packets : Seq(DOMAIN film.packets), size : Int]
    BY <2>1
  <2>5. queue \in [Streams -> [packets : Seq(DOMAIN film.packets), size : Int]]
    BY <2>3, <2>4
  <2> QED BY <1>1, <2>2, <2>5 DEF Init, QueueTypes
<1>3. ReadWithRoom
  BY DEF Init, ReadWithRoom
<1>4. QueueBounds
  <2>1. queue["audio"].size = 0 /\ queue["video"].size = 0
    BY DEF Init, Streams
  <2>2. /\ queue["audio"].size <= MaxAudioqSize + 0
        /\ queue["video"].size <= MaxVideoqSize + 0
    BY <2>1, PlayerAssumption
  <2> QED BY <2>2 DEF QueueBounds
<1> QED BY <1>2, <1>3, <1>4 DEF IInv

(* Every step keeps the limits.                                            *)
LEMMA NextIInv == IInv /\ [Next]_vars => IInv'
<1> SUFFICES ASSUME IInv, [Next]_vars PROVE IInv'
  OBVIOUS
<1> USE DEF decodeVars, videoVars, audioVars
<1>1. CASE OpenVideo
  BY <1>1, QueueUntouched DEF OpenVideo
<1>2. CASE OpenAudio
  BY <1>2, QueueUntouched DEF OpenAudio
<1>3. CASE DecodeCheck
  <2>1. QueueTypes'
    BY <1>3 DEF DecodeCheck, IInv, QueueTypes
  <2>2. ReadWithRoom'
    BY <1>3 DEF DecodeCheck, ReadWithRoom, QueuesFull
  <2>3. QueueBounds'
    BY <1>3 DEF DecodeCheck, IInv, QueueBounds, Sizes, Packet
  <2> QED BY <2>1, <2>2, <2>3 DEF IInv
<1>4. CASE DecodeRead
  BY <1>4, ReadFits
<1>5. CASE DecodeRetry \/ DecodeFinish
  BY <1>5, QueueUntouched DEF DecodeRetry, DecodeFinish
<1>6. CASE VideoGet
  BY <1>6, TakeShrinks DEF VideoGet, Streams
<1>7. CASE VideoGetNone \/ VideoSend \/ VideoDrained \/ VideoReceive
  BY <1>7, QueueUntouched
  DEF VideoGetNone, VideoSend, VideoDrained, VideoReceive
<1>8. CASE QueueChild \/ ReadParentLine \/ QueueParent
  BY <1>8, QueueUntouched DEF QueueChild, ReadParentLine, QueueParent
<1>9. CASE AudioGet
  BY <1>9, TakeShrinks DEF AudioGet, Streams
<1>10. CASE AudioGetNone \/ AudioFrame \/ AudioNoFrame \/ AudioReject
            \/ AudioDrain
  BY <1>10, QueueUntouched
  DEF AudioGetNone, AudioFrame, AudioNoFrame, AudioReject, AudioDrain
<1>11. CASE ShowPicture \/ UserQuits
  BY <1>11, QueueUntouched DEF ShowPicture, UserQuits
<1>12. CASE UNCHANGED vars
  BY <1>12, QueueUntouched DEF vars
<1> QED
  BY <1>1, <1>2, <1>3, <1>4, <1>5, <1>6, <1>7, <1>8, <1>9, <1>10, <1>11, <1>12
  DEF Next, DecodeThread, VideoThread, AudioCallback

(* Neither packet queue holds more than its limit and one of its packets,  *)
(* for all films and limits: decode_thread is the only one that puts, so   *)
(* the room it has seen without a lock is still there at the put.          *)
THEOREM BoundsCorrect == Spec => []QueueBounds
<1>1. Spec => []IInv
  BY InitIInv, NextIInv, PTL DEF Spec
<1>2. IInv => QueueBounds
  BY DEF IInv
<1> QED BY <1>1, <1>2, PTL
-----------------------------------------------------------------------------
(* The frames shown and heard are those of the film, in order.             *)

All(s) == PacketsUpTo(s)[Len(film.packets)]

(* The sizes of the first packets of a stream, added up.                   *)
Bytes(s) ==
    LET sum[n \in 0..Len(All(s))] ==
            IF n = 0 THEN 0 ELSE sum[n - 1] + Packet(All(s)[n]).size
    IN sum

(* The packets of a stream that were read, and those that left its queue.  *)
Count(s) == Len(PacketsOf(s))
Taken(s) == Count(s) - Len(queue[s].packets)

(* The frames that the video decoder has given.                            *)
InHand(places, place) == IF place \in places THEN 1 ELSE 0
Given ==
    Taken("video") - InHand({"send", "failed"}, video) - Len(videoDecoder)

(* The types, thread by thread.                                            *)
ReadTypes ==
    /\ film \in Films
    /\ decode \in {"open video", "open audio", "check", "read", "wait for quit",
                   "returned"}
    /\ position \in 0..Len(film.packets)
    /\ finished = (decode = "wait for quit")
    /\ exited \in {"no", "index", "user"}

QueueType == [packets : Seq(1..position), size : Int]

Queues == queue \in [Streams -> QueueType]

VideoTypes ==
    /\ video \in {"off", "get", "asleep", "send", "receive", "queue child",
                  "child queued", "queue parent", "failed", "ended"}
    /\ videoPacket \in 0..position /\ frame \in 0..position
    /\ videoDecoder \in Seq(1..position) /\ Len(videoDecoder) <= VideoDelay + 1
    /\ video \in {"off", "get", "asleep", "send"} =>
          Len(videoDecoder) <= VideoDelay
    /\ line \in 0..Len(film.index)

PictureTypes ==
    /\ pictq \in Seq([line : Nat, frame : Nat]) /\ Len(pictq) <= N
    /\ shown \in Seq([line : Nat, frame : Nat])

AudioTypes ==
    /\ audio \in {"off", "get", "asleep", "decode", "rejected", "draining",
                  "mute"}
    /\ audioPacket \in 0..position
    /\ audio = "decode" => audioPacket > 0
    /\ audioDecoder \in Seq(1..position) /\ Len(audioDecoder) <= AudioDelay + 1
    /\ heard \in Seq(Nat)

Types == ReadTypes /\ Queues /\ VideoTypes /\ PictureTypes /\ AudioTypes

(* The threads that are not yet started.                                   *)
Opening ==
    /\ decode = "open video" => video = "off"
    /\ decode \in {"open video", "open audio"} => audio = "off"

(* A queue holds the packets that follow those that were taken.            *)
Queued(s) ==
    /\ Taken(s) \in Nat
    /\ \A i \in 1..Len(queue[s].packets) :
          queue[s].packets[i] = All(s)[Taken(s) + i]
    /\ queue[s].size = Bytes(s)[Count(s)] - Bytes(s)[Taken(s)]

(* The video decoder holds the frames that follow those it has given.      *)
Watched ==
    /\ Given \in Nat
    /\ \A i \in 1..Len(videoDecoder) : videoDecoder[i] = All("video")[Given + i]
    /\ Given > 0 => frame = All("video")[Given]
    /\ Taken("video") > 0 => videoPacket = All("video")[Taken("video")]

(* The packets that the audio decoder has given, holds, or gets next.      *)
Accounted == Len(heard) + Len(audioDecoder) + InHand({"decode"}, audio)

(* The same of the audio decoder, and what is heard.                       *)
Listened ==
    /\ Accounted <= Taken("audio")
    /\ ~Silent => Accounted = Taken("audio")
    /\ audio = "decode" => audioPacket = All("audio")[Accounted]
    /\ \A i \in 1..Len(heard) : heard[i] = All("audio")[i]
    /\ ~Silent => \A i \in 1..Len(audioDecoder) :
          audioDecoder[i] = All("audio")[Len(heard) + i]

(* The pictures in the order of their queueing.                            *)
Pictures == Len(shown) + Len(pictq)
Picture(i) ==
    IF i <= Len(shown) THEN shown[i] ELSE pictq[i - Len(shown)]

(* Where video_thread is among the lines.                                  *)
Placed ==
    /\ Pictures = IF video \in {"queue child", "queue parent"} THEN line - 1
                  ELSE line
    /\ video \in {"queue child", "child queued"} =>
          line > 0 /\ ~film.index[line] /\ ParentLines[line] + 1 = Given
    /\ video = "queue parent" => line > 0 /\ film.index[line]
    /\ video \notin {"queue child", "child queued"} /\ exited # "index" =>
          ParentLines[line] = Given
    /\ exited = "index" =>
          /\ video = "receive" /\ line = Len(film.index)
          /\ ParentLines[line] < Given
          /\ Given + VideoDelay <= Taken("video")
    /\ \A i \in 1..Pictures :
          /\ ParentLines[i - 1] + 1 <= Given
          /\ Picture(i) = [line |-> i,
                           frame |-> All("video")[ParentLines[i - 1] + 1]]

(* The callback falls silent at the end of the reading, or at a packet that*)
(* the decoder rejects.                                                    *)
Sound == Silent => finished \/ ~Packet(audioPacket).good

FilmInv ==
    /\ Types /\ Opening /\ Queued("video") /\ Queued("audio")
    /\ Watched /\ Listened /\ Sound
    /\ WellFormed(film.index) => Placed

-----------------------------------------------------------------------------
(* Functions defined by recursion.                                         *)

(* A set of numbers that is not empty has a least one.                     *)
LEMMA HasMin ==
    ASSUME NEW S \in SUBSET Nat, S # {}
    PROVE  \E m \in S : \A n \in S : m <= n
<1>1. PICK x \in S : \A y \in S : ~(<<y, x>> \in OpToRel(<, Nat))
  BY NatLessThanWellFounded, WFMin, Zenon
<1>2. ASSUME NEW y \in S PROVE ~(y < x)
  BY <1>1, <1>2, Zenon DEF OpToRel
<1> QED BY <1>2, SMT

(* Induction up to M, for a set.                                           *)
LEMMA CountingUp ==
    ASSUME NEW M \in Nat, NEW S, 0 \in S,
           \A n \in 1..M : n - 1 \in S => n \in S
    PROVE  \A n \in 0..M : n \in S
<1> DEFINE T == {n \in 0..M : n \notin S}
<1> SUFFICES ASSUME T # {} PROVE FALSE
  OBVIOUS
<1>1. T \in SUBSET Nat
  OBVIOUS
<1> HIDE DEF T
<1>2. PICK m \in T : \A n \in T : m <= n
  BY <1>1, HasMin, Zenon
<1>3. m \in 0..M /\ m \notin S
  BY <1>2 DEF T
<1>4. m \in 1..M /\ m - 1 \in 0..M /\ ~(m <= m - 1)
  BY <1>3
<1>5. m - 1 \in S
  BY <1>2, <1>4 DEF T
<1> QED BY <1>3, <1>4, <1>5

(* g goes from first through steps, as far as the k-th.                    *)
Follows(g, first, step, k) ==
    g[0] = first /\ \A n \in 1..k : g[n] = step[n][g[n - 1]]

(* A function defined step by step exists, and has its values in V.        *)
LEMMA Recursion ==
    ASSUME NEW M \in Nat, NEW V, NEW first \in V,
           NEW step \in [1..M -> [V -> V]]
    PROVE  /\ \E g : Follows(g, first, step, M)
           /\ \A g : Follows(g, first, step, M) => \A n \in 0..M : g[n] \in V
<1>1. ASSUME NEW g, Follows(g, first, step, M)
      PROVE  \A n \in 0..M : g[n] \in V
  <2> DEFINE S == {n \in 0..M : g[n] \in V}
  <2>1. 0 \in S
    BY <1>1 DEF Follows
  <2>2. ASSUME NEW n \in 1..M, n - 1 \in S PROVE n \in S
    <3>1. g[n] = step[n][g[n - 1]] /\ g[n - 1] \in V
      BY <1>1, <2>2 DEF Follows
    <3>2. step[n] \in [V -> V]
      OBVIOUS
    <3>3. g[n] \in V
      BY <3>1, <3>2
    <3> QED BY <3>3
  <2>3. \A n \in 0..M : n \in S
    <3> HIDE DEF S
    <3> QED BY <2>1, <2>2, CountingUp
  <2> QED BY <2>3
<1> DEFINE S == {k \in 0..M : \E g : Follows(g, first, step, k)}
<1>2. 0 \in S
  <2> DEFINE g == [n \in {0} |-> first]
  <2>1. Follows(g, first, step, 0)
    BY DEF Follows
  <2> QED BY <2>1
<1>3. ASSUME NEW k \in 1..M, k - 1 \in S PROVE k \in S
  <2>1. PICK g : Follows(g, first, step, k - 1)
    BY <1>3
  <2> DEFINE h == [n \in 0..k |-> IF n = k THEN step[k][g[k - 1]] ELSE g[n]]
  <2>2. h[0] = first
    BY <2>1 DEF Follows
  <2>3. ASSUME NEW n \in 1..k PROVE h[n] = step[n][h[n - 1]]
    <3>1. h[n - 1] = g[n - 1]
      OBVIOUS
    <3>2. CASE n = k
      BY <3>1, <3>2
    <3>3. CASE n # k
      <4>1. n \in 1..(k - 1) /\ h[n] = g[n]
        BY <3>3
      <4> QED BY <2>1, <3>1, <4>1 DEF Follows
    <3> QED BY <3>2, <3>3
  <2> HIDE DEF h
  <2>4. Follows(h, first, step, k)
    BY <2>2, <2>3 DEF Follows
  <2> QED BY <2>4
<1>4. \A n \in 0..M : n \in S
  <2> HIDE DEF S
  <2> QED BY <1>2, <1>3, CountingUp
<1> QED BY <1>1, <1>4

(* The packets of a stream.                                                *)
ListStep(s) ==
    [n \in 1..Len(film.packets) |->
        [list \in Seq(Nat) |->
            IF Packet(n).stream = s THEN Append(list, n) ELSE list]]

(* The step from the packets among the first n - 1 to those among n.       *)
LEMMA ListTypes ==
    ASSUME film \in Films, NEW s
    PROVE  /\ Len(film.packets) \in Nat /\ <<>> \in Seq(Nat)
           /\ ListStep(s) \in [1..Len(film.packets) -> [Seq(Nat) -> Seq(Nat)]]
<1>1. Len(film.packets) \in Nat
  BY PlayerAssumption, LenProperties
<1>2. ASSUME NEW n \in 1..Len(film.packets), NEW list \in Seq(Nat)
      PROVE  (IF Packet(n).stream = s THEN Append(list, n) ELSE list)
                \in Seq(Nat)
  <2>1. n \in Nat
    BY <1>1
  <2> QED BY <2>1, AppendProperties
<1> QED BY <1>1, <1>2 DEF ListStep

(* PacketsUpTo is the function that its definition describes.              *)
LEMMA ListUnfolded ==
    ASSUME film \in Films, NEW s
    PROVE  Follows(PacketsUpTo(s), <<>>, ListStep(s), Len(film.packets))
<1> DEFINE M == Len(film.packets)
           step(g) == [n \in 0..M |-> IF n = 0 THEN <<>>
                                      ELSE IF Packet(n).stream = s
                                           THEN Append(g[n - 1], n)
                                           ELSE g[n - 1]]
<1>0. M \in Nat
  BY ListTypes
<1>1. PICK g : /\ Follows(g, <<>>, ListStep(s), M)
               /\ \A n \in 0..M : g[n] \in Seq(Nat)
  <2> HIDE DEF M
  <2> QED BY ListTypes, Recursion DEF M
<1> DEFINE h == [n \in 0..M |-> g[n]]
<1>2. h = step(h)
  <2>1. ASSUME NEW n \in 0..M PROVE h[n] = step(h)[n]
    <3>1. CASE n = 0
      BY <1>0, <1>1, <3>1 DEF Follows
    <3>2. CASE n # 0
      <4>1. n \in 1..M /\ n - 1 \in 0..M
        BY <1>0, <3>2
      <4>2. h[n] = ListStep(s)[n][h[n - 1]] /\ h[n - 1] \in Seq(Nat)
        BY <1>1, <4>1 DEF Follows
      <4> HIDE DEF h
      <4>3. ListStep(s)[n][h[n - 1]] = IF Packet(n).stream = s
                                       THEN Append(h[n - 1], n) ELSE h[n - 1]
        BY <4>1, <4>2 DEF ListStep
      <4> QED BY <3>2, <4>1, <4>2, <4>3
    <3> QED BY <3>1, <3>2
  <2> QED BY <2>1
<1>3. PacketsUpTo(s) = CHOOSE upTo : upTo = step(upTo)
  BY DEF PacketsUpTo
<1> HIDE DEF h, step
<1>4. PacketsUpTo(s) = step(PacketsUpTo(s))
  BY <1>2, <1>3, Zenon
<1> DEFINE lists == PacketsUpTo(s)
<1>5. lists = step(lists)
  BY <1>4
<1> HIDE DEF lists, M
<1> DEFINE S == {n \in 0..M : lists[n] \in Seq(Nat)}
<1>6. lists[0] = <<>>
  BY <1>0, <1>5 DEF step
<1>7. \A n \in 1..M : lists[n] = IF Packet(n).stream = s
                                 THEN Append(lists[n - 1], n)
                                 ELSE lists[n - 1]
  <2> SUFFICES ASSUME NEW n \in 1..M
               PROVE  lists[n] = IF Packet(n).stream = s
                                 THEN Append(lists[n - 1], n)
                                 ELSE lists[n - 1]
    OBVIOUS
  <2>1. n \in 0..M /\ n # 0
    BY <1>0
  <2> QED BY <1>5, <2>1 DEF step
<1>8. \A n \in 0..M : n \in S
  <2>1. 0 \in S
    <3>1. lists[0] \in Seq(Nat) /\ 0 \in 0..M
      BY <1>0, <1>6, ListTypes
    <3> QED BY <3>1
  <2>2. ASSUME NEW n \in 1..M, n - 1 \in S PROVE n \in S
    <3>1. lists[n - 1] \in Seq(Nat) /\ n \in Nat
      BY <1>0, <2>2
    <3>2. lists[n] \in Seq(Nat)
      BY <1>7, <3>1, AppendProperties
    <3> QED BY <1>0, <3>2
  <2> HIDE DEF S
  <2> QED BY <1>0, <2>1, <2>2, CountingUp
<1>9. ASSUME NEW n \in 1..M PROVE lists[n] = ListStep(s)[n][lists[n - 1]]
  <2>1. n - 1 \in 0..M
    BY <1>0
  <2>2. lists[n - 1] \in Seq(Nat)
    BY <1>8, <2>1
  <2> QED BY <1>7, <2>2 DEF ListStep, M
<1> QED BY <1>6, <1>9 DEF Follows, lists, M

(* The next packet of the film joins the list of its stream.               *)
LEMMA ListNext ==
    ASSUME film \in Films, NEW s, NEW n \in 1..Len(film.packets)
    PROVE  /\ PacketsUpTo(s)[0] = <<>>
           /\ PacketsUpTo(s)[n - 1] \in Seq(Nat)
           /\ PacketsUpTo(s)[n] \in Seq(Nat)
           /\ PacketsUpTo(s)[n] = IF Packet(n).stream = s
                                  THEN Append(PacketsUpTo(s)[n - 1], n)
                                  ELSE PacketsUpTo(s)[n - 1]
<1> DEFINE lists == PacketsUpTo(s)
           M == Len(film.packets)
<1>1. /\ Follows(lists, <<>>, ListStep(s), M) /\ M \in Nat
      /\ \A k \in 0..M : lists[k] \in Seq(Nat)
  <2> HIDE DEF lists, M
  <2> QED BY ListUnfolded, ListTypes, Recursion DEF lists, M
<1>2. n - 1 \in 0..M /\ n \in 0..M
  BY <1>1
<1> HIDE DEF lists
<1>3. lists[n] = ListStep(s)[n][lists[n - 1]] /\ lists[n - 1] \in Seq(Nat)
  BY <1>1, <1>2 DEF Follows
<1>4. ListStep(s)[n][lists[n - 1]] =
         IF Packet(n).stream = s THEN Append(lists[n - 1], n) ELSE lists[n - 1]
  BY <1>3 DEF ListStep
<1> QED BY <1>1, <1>2, <1>3, <1>4 DEF Follows, lists

(* The lists are sequences of numbers, the first one empty.                *)
LEMMA ListTyped ==
    ASSUME film \in Films, NEW s, NEW n \in 0..Len(film.packets)
    PROVE  /\ PacketsUpTo(s)[n] \in Seq(Nat) /\ Len(PacketsUpTo(s)[n]) \in Nat
           /\ n = 0 => PacketsUpTo(s)[n] = <<>>
<1>1. Len(film.packets) \in Nat
  BY ListTypes
<1>2. CASE n = 0
  <2>1. PacketsUpTo(s)[0] = <<>>
    BY ListUnfolded DEF Follows
  <2> QED BY <1>2, <2>1
<1>3. CASE n # 0
  <2>1. n \in 1..Len(film.packets)
    BY <1>1, <1>3
  <2> QED BY <1>3, <2>1, ListNext, LenProperties
<1> QED BY <1>2, <1>3

Extends(s, t) == Len(s) <= Len(t) /\ \A i \in 1..Len(s) : s[i] = t[i]

(* Longer and longer sequences with the same start.                        *)
LEMMA ExtendsTransitive ==
    ASSUME NEW s \in Seq(Nat), NEW t \in Seq(Nat), NEW u \in Seq(Nat),
           Extends(s, t), Extends(t, u)
    PROVE  Extends(s, u)
<1>1. Len(s) \in Nat /\ Len(t) \in Nat /\ Len(u) \in Nat
  BY LenProperties
<1>2. Len(s) <= Len(u)
  BY <1>1 DEF Extends
<1>3. ASSUME NEW i \in 1..Len(s) PROVE s[i] = u[i]
  <2>1. i \in 1..Len(t)
    BY <1>1 DEF Extends
  <2> QED BY <2>1 DEF Extends
<1> QED BY <1>2, <1>3 DEF Extends

(* The packets among the first n are the first ones of all.                *)
LEMMA ListGrows ==
    ASSUME film \in Films, NEW s, NEW n \in 0..Len(film.packets)
    PROVE  Extends(PacketsUpTo(s)[n], All(s))
<1> DEFINE M == Len(film.packets)
           lists == PacketsUpTo(s)
           S == {d \in 0..(M - n) : Extends(lists[n], lists[n + d])}
<1>0. /\ M \in Nat /\ n \in Nat /\ M - n \in Nat
      /\ \A k \in 0..M : lists[k] \in Seq(Nat) /\ Len(lists[k]) \in Nat
  BY ListTypes, ListTyped
<1>a. \A k \in 1..M :
         lists[k] = lists[k - 1] \/ lists[k] = Append(lists[k - 1], k)
  BY ListNext
<1> HIDE DEF lists, M
<1>1. 0 \in S
  <2>1. Extends(lists[n], lists[n + 0])
    BY <1>0 DEF Extends, M
  <2> QED BY <1>0, <2>1
<1>2. ASSUME NEW d \in 1..(M - n), d - 1 \in S PROVE d \in S
  <2> DEFINE k == n + d
  <2>1. k \in 1..M /\ k - 1 \in 0..M /\ k \in 0..M /\ n + (d - 1) = k - 1
        /\ k \in Nat /\ n \in 0..M
    BY <1>0 DEF M
  <2>2. Extends(lists[n], lists[k - 1])
    BY <1>2, <2>1
  <2> HIDE DEF k
  <2>3. Extends(lists[k - 1], lists[k])
    <3>1. lists[k - 1] \in Seq(Nat) /\ Len(lists[k - 1]) \in Nat
      BY <1>0, <2>1
    <3>2. CASE lists[k] = lists[k - 1]
      BY <3>1, <3>2 DEF Extends
    <3>3. CASE lists[k] = Append(lists[k - 1], k)
      BY <2>1, <3>1, <3>3, AppendProperties DEF Extends
    <3> QED BY <1>a, <2>1, <3>2, <3>3
  <2>4. Extends(lists[n], lists[k])
    BY <1>0, <2>1, <2>2, <2>3, ExtendsTransitive
  <2> QED BY <2>4 DEF k
<1>3. \A d \in 0..(M - n) : d \in S
  <2> HIDE DEF S
  <2> QED BY <1>0, <1>1, <1>2, CountingUp
<1>4. M - n \in 0..(M - n) /\ n + (M - n) = M
  BY <1>0
<1> QED BY <1>3, <1>4 DEF All, lists, M

(* The k-th packet of a stream is the one up to which there are k.         *)
LEMMA ListNumbered ==
    ASSUME film \in Films, NEW s, NEW n \in 0..Len(film.packets)
    PROVE  \A k \in 1..Len(PacketsUpTo(s)[n]) :
              /\ PacketsUpTo(s)[n][k] \in 1..n
              /\ Len(PacketsUpTo(s)[PacketsUpTo(s)[n][k]]) = k
<1> DEFINE M == Len(film.packets)
           lists == PacketsUpTo(s)
           Good(m) == \A k \in 1..Len(lists[m]) :
                         lists[m][k] \in 1..m /\ Len(lists[lists[m][k]]) = k
           S == {m \in 0..M : Good(m)}
<1>0. /\ M \in Nat /\ lists[0] = <<>>
      /\ \A k \in 0..M : lists[k] \in Seq(Nat) /\ Len(lists[k]) \in Nat
  BY ListTypes, ListTyped
<1>a. \A k \in 1..M :
         lists[k] = lists[k - 1] \/ lists[k] = Append(lists[k - 1], k)
  BY ListNext
<1> HIDE DEF lists, M
<1>1. 0 \in S
  <2>1. Len(lists[0]) = 0
    BY <1>0
  <2> QED BY <1>0, <2>1
<1>2. ASSUME NEW m \in 1..M, m - 1 \in S PROVE m \in S
  <2>1. /\ Good(m - 1) /\ m - 1 \in 0..M /\ m \in 0..M /\ m \in Nat /\ m > 0
        /\ lists[m - 1] \in Seq(Nat) /\ Len(lists[m - 1]) \in Nat
    BY <1>0, <1>2
  <2>2. \A k \in 1..Len(lists[m - 1]) :
           lists[m - 1][k] \in 1..m /\ Len(lists[lists[m - 1][k]]) = k
    <3>1. \A x \in 1..(m - 1) : x \in 1..m
      BY <2>1
    <3> QED BY <2>1, <3>1
  <2>3. Good(m)
    <3>1. CASE lists[m] = lists[m - 1]
      BY <2>2, <3>1
    <3>2. CASE lists[m] = Append(lists[m - 1], m)
      <4>1. /\ Len(lists[m]) = Len(lists[m - 1]) + 1
            /\ lists[m][Len(lists[m])] = m
            /\ \A k \in 1..Len(lists[m - 1]) : lists[m][k] = lists[m - 1][k]
        BY <2>1, <3>2, AppendProperties
      <4>2. ASSUME NEW k \in 1..Len(lists[m])
            PROVE  lists[m][k] \in 1..m /\ Len(lists[lists[m][k]]) = k
        <5>1. CASE k = Len(lists[m])
          BY <2>1, <4>1, <5>1
        <5>2. CASE k # Len(lists[m])
          <6>1. k \in 1..Len(lists[m - 1])
            BY <2>1, <4>1, <5>2
          <6>2. lists[m][k] = lists[m - 1][k]
            BY <4>1, <6>1
          <6> QED BY <2>2, <6>1, <6>2
        <5> QED BY <5>1, <5>2
      <4> QED BY <4>2
    <3> QED BY <1>a, <3>1, <3>2
  <2> QED BY <2>1, <2>3
<1>3. \A m \in 0..M : m \in S
  <2> HIDE DEF S
  <2> QED BY <1>0, <1>1, <1>2, CountingUp
<1> QED BY <1>3 DEF lists, M

(* The lines of frames of the film.                                        *)
LEMMA ParentNext ==
    ASSUME film \in Films
    PROVE  /\ Len(film.index) \in Nat /\ ParentLines[0] = 0
           /\ \A l \in 0..Len(film.index) : ParentLines[l] \in Nat
           /\ \A l \in 1..Len(film.index) :
                 ParentLines[l] = IF film.index[l] THEN ParentLines[l - 1] + 1
                                  ELSE ParentLines[l - 1]
<1> DEFINE M == Len(film.index)
           step(g) == [l \in 0..M |-> IF l = 0 THEN 0
                                      ELSE IF film.index[l] THEN g[l - 1] + 1
                                      ELSE g[l - 1]]
           steps == [l \in 1..M |-> [k \in Nat |->
                        IF film.index[l] THEN k + 1 ELSE k]]
<1>0. M \in Nat
  BY PlayerAssumption, LenProperties
<1>1. steps \in [1..M -> [Nat -> Nat]]
  <2> HIDE DEF M
  <2> QED OBVIOUS
<1>2. \A l \in 1..M : \A k \in Nat :
         steps[l][k] = IF film.index[l] THEN k + 1 ELSE k
  OBVIOUS
<1> HIDE DEF M, steps
<1>3. PICK g : Follows(g, 0, steps, M) /\ \A l \in 0..M : g[l] \in Nat
  <2>1. 0 \in Nat
    OBVIOUS
  <2> QED BY <1>0, <1>1, <2>1, Recursion
<1> DEFINE h == [l \in 0..M |-> g[l]]
<1>4. h = step(h)
  <2>1. ASSUME NEW l \in 0..M PROVE h[l] = step(h)[l]
    <3>1. CASE l = 0
      BY <1>0, <1>3, <3>1 DEF Follows
    <3>2. CASE l # 0
      <4>1. l \in 1..M /\ l - 1 \in 0..M
        BY <1>0, <3>2
      <4>2. h[l] = steps[l][h[l - 1]] /\ h[l - 1] \in Nat
        BY <1>3, <4>1 DEF Follows
      <4> HIDE DEF h
      <4>3. h[l] = IF film.index[l] THEN h[l - 1] + 1 ELSE h[l - 1]
        BY <1>2, <4>1, <4>2
      <4> QED BY <3>2, <4>1, <4>3
    <3> QED BY <3>1, <3>2
  <2> QED BY <2>1
<1>5. ParentLines = CHOOSE upTo : upTo = step(upTo)
  BY DEF ParentLines, M
<1> HIDE DEF h, step
<1>6. ParentLines = step(ParentLines)
  BY <1>4, <1>5, Zenon
<1> DEFINE p == ParentLines
<1>7. p = step(p)
  BY <1>6
<1> HIDE DEF p
<1>8. p[0] = 0
  BY <1>0, <1>7 DEF step
<1>9. \A l \in 1..M : p[l] = IF film.index[l] THEN p[l - 1] + 1 ELSE p[l - 1]
  <2> SUFFICES ASSUME NEW l \in 1..M
               PROVE  p[l] = IF film.index[l] THEN p[l - 1] + 1 ELSE p[l - 1]
    OBVIOUS
  <2>1. l \in 0..M /\ l # 0
    BY <1>0
  <2> QED BY <1>7, <2>1 DEF step
<1> DEFINE S == {l \in 0..M : p[l] \in Nat}
<1>10. \A l \in 0..M : l \in S
  <2>1. 0 \in S
    BY <1>0, <1>8
  <2>2. ASSUME NEW l \in 1..M, l - 1 \in S PROVE l \in S
    BY <1>0, <1>9, <2>2
  <2> HIDE DEF S
  <2> QED BY <1>0, <2>1, <2>2, CountingUp
<1> QED BY <1>0, <1>8, <1>9, <1>10 DEF p, M

(* The bytes of a stream, added up.                                        *)
LEMMA AllTyped ==
    ASSUME film \in Films, NEW s
    PROVE  /\ All(s) \in Seq(Nat) /\ Len(All(s)) \in Nat
           /\ \A k \in 1..Len(All(s)) : Packet(All(s)[k]).size \in Nat \ {0}
<1> DEFINE M == Len(film.packets)
<1>1. M \in 0..M
  BY ListTypes
<1>2. All(s) \in Seq(Nat) /\ Len(All(s)) \in Nat
  BY <1>1, ListTyped DEF All
<1>3. ASSUME NEW k \in 1..Len(All(s))
      PROVE  Packet(All(s)[k]).size \in Nat \ {0}
  <2>1. All(s)[k] \in 1..M
    BY <1>1, ListNumbered DEF All
  <2>2. DOMAIN film.packets = 1..M
    BY PlayerAssumption, LenProperties
  <2> QED BY <2>1, <2>2, PacketSizes
<1> QED BY <1>2, <1>3

(* Each packet adds its size.                                              *)
LEMMA BytesNext ==
    ASSUME film \in Films, NEW s
    PROVE  /\ \A k \in 0..Len(All(s)) : Bytes(s)[k] \in Nat
           /\ \A k \in 1..Len(All(s)) :
                 Bytes(s)[k] = Bytes(s)[k - 1] + Packet(All(s)[k]).size
<1> DEFINE M == Len(All(s))
           size(k) == Packet(All(s)[k]).size
           step(g) == [k \in 0..M |-> IF k = 0 THEN 0 ELSE g[k - 1] + size(k)]
           steps == [k \in 1..M |-> [b \in Nat |-> b + size(k)]]
<1>0. M \in Nat /\ \A k \in 1..M : size(k) \in Nat
  BY AllTyped
<1>1. /\ steps \in [1..M -> [Nat -> Nat]]
      /\ \A k \in 1..M : \A b \in Nat : steps[k][b] = b + size(k)
  <2> HIDE DEF M, size
  <2> QED BY <1>0
<1>5. Bytes(s) = CHOOSE sum : sum = step(sum)
  BY DEF Bytes
<1> HIDE DEF M, size, steps
<1>3. PICK g : Follows(g, 0, steps, M) /\ \A k \in 0..M : g[k] \in Nat
  <2>1. 0 \in Nat
    OBVIOUS
  <2> QED BY <1>0, <1>1, <2>1, Recursion
<1> DEFINE h == [k \in 0..M |-> g[k]]
<1>4. h = step(h)
  <2>1. ASSUME NEW k \in 0..M PROVE h[k] = step(h)[k]
    <3>1. CASE k = 0
      BY <1>0, <1>3, <3>1 DEF Follows
    <3>2. CASE k # 0
      <4>1. k \in 1..M /\ k - 1 \in 0..M
        BY <1>0, <3>2
      <4>2. h[k] = steps[k][h[k - 1]] /\ h[k - 1] \in Nat
        BY <1>3, <4>1 DEF Follows
      <4> HIDE DEF h
      <4>3. h[k] = h[k - 1] + size(k)
        BY <1>1, <4>1, <4>2
      <4> QED BY <3>2, <4>1, <4>3
    <3> QED BY <3>1, <3>2
  <2> QED BY <2>1
<1> HIDE DEF h, step
<1>6. Bytes(s) = step(Bytes(s))
  BY <1>4, <1>5, Zenon
<1> DEFINE p == Bytes(s)
<1>7. p = step(p)
  BY <1>6
<1> HIDE DEF p
<1>8. p[0] = 0
  BY <1>0, <1>7 DEF step
<1>9. \A k \in 1..M : p[k] = p[k - 1] + size(k)
  <2> SUFFICES ASSUME NEW k \in 1..M PROVE p[k] = p[k - 1] + size(k)
    OBVIOUS
  <2>1. k \in 0..M /\ k # 0
    BY <1>0
  <2> QED BY <1>7, <2>1 DEF step
<1> DEFINE S == {k \in 0..M : p[k] \in Nat}
<1>10. \A k \in 0..M : k \in S
  <2>1. 0 \in S
    BY <1>0, <1>8
  <2>2. ASSUME NEW k \in 1..M, k - 1 \in S PROVE k \in S
    <3>1. p[k] \in Nat
      BY <1>0, <1>9, <2>2
    <3> QED BY <1>0, <3>1
  <2> HIDE DEF S
  <2> QED BY <1>0, <2>1, <2>2, CountingUp
<1> QED BY <1>9, <1>10 DEF p, M, size

(* The sum of more packets is no smaller.                                  *)
LEMMA BytesGrow ==
    ASSUME film \in Films, NEW s, NEW m \in 0..Len(All(s)),
           NEW n \in m..Len(All(s))
    PROVE  Bytes(s)[m] <= Bytes(s)[n]
<1> DEFINE p == Bytes(s)
           M == Len(All(s))
           S == {d \in 0..(M - m) : p[m] <= p[m + d]}
<1>0. M \in Nat /\ m \in Nat /\ n \in Nat /\ m <= n /\ n <= M
  BY AllTyped
<1>1. \A k \in 0..M : p[k] \in Nat
  BY BytesNext
<1>2. \A k \in 1..M : p[k - 1] <= p[k]
  <2> SUFFICES ASSUME NEW k \in 1..M PROVE p[k - 1] <= p[k]
    OBVIOUS
  <2>1. k - 1 \in 0..M /\ k \in 0..M
    BY <1>0
  <2>2. p[k] = p[k - 1] + Packet(All(s)[k]).size
    BY BytesNext
  <2>3. Packet(All(s)[k]).size \in Nat
    BY AllTyped
  <2> HIDE DEF p, M
  <2> QED BY <1>1, <2>1, <2>2, <2>3
<1> HIDE DEF p, M
<1>3. 0 \in S
  BY <1>0, <1>1
<1>4. ASSUME NEW d \in 1..(M - m), d - 1 \in S PROVE d \in S
  <2>1. /\ m + d \in 1..M /\ m + d - 1 = m + (d - 1) /\ m \in 0..M
        /\ m + d - 1 \in 0..M /\ m + d \in 0..M
    BY <1>0
  <2>2. p[m] <= p[m + d - 1] /\ p[m + d - 1] <= p[m + d]
    BY <1>2, <1>4, <2>1
  <2>3. p[m] <= p[m + d]
    BY <1>1, <2>1, <2>2
  <2> QED BY <2>3
<1>5. \A d \in 0..(M - m) : d \in S
  <2>1. M - m \in Nat
    BY <1>0
  <2> HIDE DEF S
  <2> QED BY <1>3, <1>4, <2>1, CountingUp
<1>6. n - m \in 0..(M - m) /\ m + (n - m) = n
  BY <1>0
<1> QED BY <1>5, <1>6 DEF p

-----------------------------------------------------------------------------
(* What was read and what was taken.                                       *)

(* What depends on the film alone does not change.                         *)
LEMMA Constants ==
    ASSUME film' = film
    PROVE  /\ \A s : All(s)' = All(s) /\ Bytes(s)' = Bytes(s)
           /\ ParentLines' = ParentLines
           /\ (WellFormed(film.index))' <=> WellFormed(film.index)
           /\ \A s : position' = position => Count(s)' = Count(s)
BY DEF All, Bytes, ParentLines, WellFormed, PacketsUpTo, Packet, Count,
       PacketsOf

(* The numbers of the film.                                                *)
LEMMA Basics ==
    ASSUME Types
    PROVE  /\ film \in Films /\ film.index \in Seq(BOOLEAN)
           /\ position \in Nat /\ position \in 0..Len(film.packets)
           /\ Len(film.packets) \in Nat /\ Len(film.index) \in Nat
           /\ DOMAIN film.packets = 1..Len(film.packets)
           /\ DOMAIN film.index = 1..Len(film.index)
           /\ VideoDelay \in Nat /\ AudioDelay \in Nat
<1>1. film \in Films /\ position \in 0..Len(film.packets)
  BY DEF Types, ReadTypes
<1>2. /\ film.index \in Seq(BOOLEAN)
      /\ film.packets \in Seq([stream : film.streams, size : Nat \ {0},
                               good : BOOLEAN])
  BY <1>1, PlayerAssumption
<1>3. /\ Len(film.packets) \in Nat /\ Len(film.index) \in Nat
      /\ DOMAIN film.packets = 1..Len(film.packets)
      /\ DOMAIN film.index = 1..Len(film.index)
  BY <1>2, LenProperties
<1> QED BY <1>1, <1>2, <1>3, PlayerAssumption

(* The ends of a sequence.                                                 *)
LEMMA Tails ==
    ASSUME NEW T, NEW q \in Seq(T), q # <<>>
    PROVE  /\ Len(q) \in Nat \ {0} /\ Head(q) = q[1] /\ Head(q) \in T
           /\ Tail(q) \in Seq(T) /\ Len(Tail(q)) = Len(q) - 1
           /\ \A i \in 1..(Len(q) - 1) : Tail(q)[i] = q[i + 1]
<1>1. Len(q) \in Nat \ {0}
  BY EmptySeq, LenProperties
<1>2. Head(q) = q[1]
  OBVIOUS
<1> QED BY <1>1, <1>2, HeadTailProperties

(* A sequence and one element more.                                        *)
LEMMA Appends ==
    ASSUME NEW T, NEW q \in Seq(T), NEW x \in T
    PROVE  /\ Append(q, x) \in Seq(T) /\ Len(Append(q, x)) = Len(q) + 1
           /\ Len(q) \in Nat /\ Append(q, x)[Len(q) + 1] = x
           /\ \A i \in 1..Len(q) : Append(q, x)[i] = q[i]
BY AppendProperties, LenProperties

(* A sequence over a set is one over a larger set.                         *)
LEMMA Widens ==
    ASSUME NEW T, NEW U, T \subseteq U, NEW q \in Seq(T)
    PROVE  q \in Seq(U)
<1>1. \A i \in 1..Len(q) : q[i] \in U
  BY ElementOfSeq
<1>2. q = [i \in 1..Len(q) |-> q[i]] /\ Len(q) \in Nat
  BY LenProperties
<1> QED BY <1>1, <1>2, IsASeq

(* The packets of a stream that were read are the first of all of it.      *)
LEMMA Counted ==
    ASSUME Types, NEW s
    PROVE  /\ PacketsOf(s) \in Seq(Nat)
           /\ Count(s) \in Nat /\ Len(All(s)) \in Nat
           /\ Count(s) <= Len(All(s))
           /\ \A k \in 1..Count(s) :
                 All(s)[k] = PacketsOf(s)[k] /\ All(s)[k] \in 1..position
<1>1. film \in Films /\ position \in 0..Len(film.packets)
  BY DEF Types, ReadTypes
<1>2. PacketsOf(s) \in Seq(Nat) /\ Count(s) \in Nat /\ Len(All(s)) \in Nat
  BY <1>1, ListTyped, AllTyped DEF PacketsOf, Count
<1>3. Extends(PacketsOf(s), All(s))
  BY <1>1, ListGrows DEF PacketsOf
<1>4. \A k \in 1..Count(s) : PacketsOf(s)[k] \in 1..position
  BY <1>1, ListNumbered DEF PacketsOf, Count
<1> QED BY <1>2, <1>3, <1>4 DEF Extends, Count

(* Reading a packet makes it the next one of its stream.                   *)
LEMMA CountNext ==
    ASSUME Types, NEW s, film' = film, position' = position + 1,
           position < Len(film.packets)
    PROVE  /\ Packet(position').stream = s =>
                 /\ Count(s)' = Count(s) + 1
                 /\ Count(s) + 1 <= Len(All(s))
                 /\ All(s)[Count(s) + 1] = position'
           /\ Packet(position').stream # s => Count(s)' = Count(s)
<1> DEFINE p == position + 1
           lists == PacketsUpTo(s)
           old == lists[position]
           new == lists[p]
<1>1. /\ film \in Films /\ Len(film.packets) \in Nat
      /\ position \in Nat /\ p \in 1..Len(film.packets) /\ p - 1 = position
      /\ p \in 0..Len(film.packets)
  BY Basics
<1>2. /\ old \in Seq(Nat) /\ new \in Seq(Nat)
      /\ new = IF Packet(p).stream = s THEN Append(old, p) ELSE old
  BY <1>1, ListNext
<1>3. Extends(new, All(s)) /\ Len(All(s)) \in Nat
  BY <1>1, ListGrows, AllTyped
<1>4. Count(s) = Len(old) /\ Count(s)' = Len(new)
  <2>1. PacketsUpTo(s)' = PacketsUpTo(s)
    BY DEF PacketsUpTo, Packet
  <2> QED BY <2>1 DEF Count, PacketsOf
<1>5. Packet(position') = Packet(p) /\ position' = p
  OBVIOUS
<1> HIDE DEF p, old, new
<1>6. CASE Packet(p).stream = s
  <2>1. /\ Len(new) = Len(old) + 1 /\ new[Len(new)] = p
        /\ Len(old) \in Nat
    BY <1>1, <1>2, <1>6, AppendProperties
  <2>2. Len(new) \in 1..Len(new) /\ Len(new) <= Len(All(s))
    BY <1>3, <2>1 DEF Extends
  <2>3. All(s)[Len(new)] = new[Len(new)]
    BY <1>3, <2>2 DEF Extends
  <2> QED BY <1>4, <1>5, <1>6, <2>1, <2>2, <2>3
<1>7. CASE Packet(p).stream # s
  BY <1>2, <1>4, <1>5, <1>7
<1> QED BY <1>6, <1>7

(* A queue holds what was read and not taken.                              *)
LEMMA QueueTyped ==
    ASSUME Types, NEW s \in Streams
    PROVE  /\ queue[s].packets \in Seq(1..position) /\ queue[s].size \in Int
           /\ Len(queue[s].packets) \in Nat
           /\ Taken(s) \in Int /\ Taken(s) + Len(queue[s].packets) = Count(s)
<1>1. queue[s].packets \in Seq(1..position) /\ queue[s].size \in Int
  BY DEF Types, Queues, QueueType
<1>2. Len(queue[s].packets) \in Nat /\ Count(s) \in Nat
  BY <1>1, Counted, LenProperties
<1> QED BY <1>1, <1>2 DEF Taken

(* A put at the end keeps the order of the queue.                          *)
LEMMA QueuedRead ==
    ASSUME Types, NEW s \in Streams, Queued(s), DecodeRead
    PROVE  Queued(s)' /\ Taken(s)' = Taken(s)
<1> DEFINE list == queue[s].packets
           new == queue'[s].packets
           p == position'
<1>1. /\ film' = film /\ position' = position + 1
      /\ position < Len(film.packets)
      /\ queue'[s] = IF Packet(p).stream = s
                     THEN [packets |-> Append(list, p),
                           size |-> queue[s].size + Packet(p).size]
                     ELSE queue[s]
  BY DEF DecodeRead
<1>2. /\ list \in Seq(1..position) /\ queue[s].size \in Int
      /\ Len(list) \in Nat /\ Taken(s) \in Nat /\ Count(s) \in Nat
      /\ Taken(s) + Len(list) = Count(s)
  BY QueueTyped, Counted DEF Queued
<1>3. All(s)' = All(s) /\ Bytes(s)' = Bytes(s)
  BY <1>1, Constants
<1>4. CASE Packet(p).stream = s
  <2>1. /\ Count(s)' = Count(s) + 1 /\ Count(s) + 1 \in 1..Len(All(s))
        /\ All(s)[Count(s) + 1] = p
    BY <1>1, <1>2, <1>4, CountNext, Counted
  <2>2. Bytes(s)[Count(s) + 1] = Bytes(s)[Count(s)] + Packet(p).size
        /\ Bytes(s)[Count(s)] \in Nat /\ Bytes(s)[Taken(s)] \in Nat
        /\ Packet(p).size \in Nat
    <3>1. film \in Films /\ Count(s) \in 0..Len(All(s))
          /\ Taken(s) \in 0..Len(All(s)) /\ Count(s) + 1 - 1 = Count(s)
      <4> DEFINE l == Len(list)
                 c == Count(s)
                 a == Len(All(s))
      <4>1. /\ a \in Nat /\ c \in Nat /\ c + 1 <= a /\ l \in Nat
            /\ Taken(s) \in Nat /\ Taken(s) + l = c
        BY <1>2, <2>1, Counted
      <4> HIDE DEF l, c, a
      <4>2. c \in 0..a /\ Taken(s) \in 0..a /\ c + 1 - 1 = c
        BY <4>1
      <4> QED BY <4>2, Basics DEF c, a
    <3> QED BY <2>1, <3>1, BytesNext, AllTyped
  <2>3. /\ Len(new) = Len(list) + 1 /\ new[Len(list) + 1] = p
        /\ \A i \in 1..Len(list) : new[i] = list[i]
        /\ queue'[s].size = queue[s].size + Packet(p).size
    <3>1. new = Append(list, p) /\ list \in Seq(Nat) /\ p \in Nat
      <4>1. position \in Nat
        BY Basics
      <4>2. 1..position \subseteq Nat
        OBVIOUS
      <4> HIDE DEF list
      <4>3. list \in Seq(Nat)
        <5>1. \A i \in 1..Len(list) : list[i] \in Nat
          BY <1>2, <4>2, ElementOfSeq
        <5>2. list = [i \in 1..Len(list) |-> list[i]]
          BY <1>2
        <5> QED BY <1>2, <5>1, <5>2, IsASeq
      <4> QED BY <1>1, <1>4, <4>1, <4>3 DEF list
    <3> HIDE DEF list, new, p
    <3>2. /\ Len(new) = Len(list) + 1 /\ new[Len(list) + 1] = p
          /\ \A i \in 1..Len(list) : new[i] = list[i]
      BY <3>1, AppendProperties, LenProperties
    <3> QED BY <1>1, <1>4, <3>2 DEF list, new, p
  <2>4. Taken(s)' = Taken(s)
    <3>1. Taken(s)' = Count(s)' - Len(new) /\ Taken(s) = Count(s) - Len(list)
      BY DEF Taken
    <3> HIDE DEF list, new
    <3> QED BY <1>2, <2>1, <2>3, <3>1
  <2>5. ASSUME NEW i \in 1..Len(new) PROVE new[i] = All(s)[Taken(s) + i]
    <3>1. CASE i = Len(list) + 1
      <4>1. Taken(s) + i = Count(s) + 1
        <5> DEFINE l == Len(list)
        <5>1. l \in Nat /\ Taken(s) + l = Count(s) /\ i = l + 1
              /\ Taken(s) \in Nat
          BY <1>2, <3>1
        <5> HIDE DEF l
        <5> QED BY <5>1
      <4> QED BY <2>1, <2>3, <3>1, <4>1
    <3>2. CASE i # Len(list) + 1
      <4>1. i \in 1..Len(list)
        BY <1>2, <2>3, <3>2
      <4> QED BY <2>3, <4>1 DEF Queued
    <3> QED BY <3>1, <3>2
  <2>6. queue'[s].size = Bytes(s)[Count(s) + 1] - Bytes(s)[Taken(s)]
    BY <1>2, <2>2, <2>3 DEF Queued
  <2> HIDE DEF list, p
  <2>7. Taken(s)' \in Nat
    BY <1>2, <2>4
  <2> QED BY <1>3, <2>1, <2>4, <2>5, <2>6, <2>7 DEF Queued
<1>5. CASE Packet(p).stream # s
  <2>1. Count(s)' = Count(s) /\ queue'[s] = queue[s]
    BY <1>1, <1>5, CountNext
  <2>2. Taken(s)' = Taken(s)
    BY <2>1 DEF Taken
  <2> QED BY <1>3, <2>1, <2>2 DEF Queued
<1> QED BY <1>4, <1>5

(* A get takes the packet that follows those taken before.                 *)
LEMMA QueuedTake ==
    ASSUME Types, NEW s \in Streams, Queued(s), HasPacket(s), Take(s),
           film' = film, position' = position
    PROVE  /\ Queued(s)' /\ Taken(s)' = Taken(s) + 1
           /\ Head(queue[s].packets) = All(s)[Taken(s) + 1]
           /\ Head(queue[s].packets) \in 1..position
           /\ \A t \in Streams : t # s =>
                 Taken(t)' = Taken(t) /\ (Queued(t) => Queued(t)')
           /\ Count(s) \in Nat /\ Taken(s) + 1 <= Count(s)
           /\ queue' \in [Streams -> QueueType]
<1> DEFINE list == queue[s].packets
           new == queue'[s].packets
           head == Head(list)
<1>1. /\ list \in Seq(1..position) /\ queue[s].size \in Int
      /\ Len(list) \in Nat /\ Taken(s) \in Nat /\ Count(s) \in Nat
      /\ Taken(s) + Len(list) = Count(s) /\ Count(s) <= Len(All(s))
      /\ list # <<>> /\ film \in Films /\ Len(All(s)) \in Nat
      /\ queue \in [Streams -> QueueType]
  BY QueueTyped, Counted, Basics DEF Queued, HasPacket, Types, Queues, QueueType
<1>2. /\ queue' = [queue EXCEPT
                     ![s] = [packets |-> Tail(list),
                             size |-> queue[s].size - Packet(head).size]]
      /\ new = Tail(list)
      /\ queue'[s].size = queue[s].size - Packet(head).size
      /\ \A t \in Streams : t # s => queue'[t] = queue[t]
  BY <1>1 DEF Take
<1>3. /\ Len(list) > 0 /\ head = list[1] /\ head \in 1..position
      /\ new \in Seq(1..position) /\ Len(new) = Len(list) - 1
      /\ \A i \in 1..(Len(list) - 1) : new[i] = list[i + 1]
  <2> HIDE DEF list, new, head
  <2>1. list \in Seq(1..position) /\ list # <<>> /\ new = Tail(list)
    BY <1>1, <1>2
  <2>2. /\ new \in Seq(1..position) /\ Len(new) = Len(list) - 1
        /\ \A i \in 1..Len(new) : new[i] = list[i + 1]
        /\ Head(list) = list[1] /\ Head(list) \in 1..position
    <3>1. /\ Tail(list) \in Seq(1..position)
          /\ Len(Tail(list)) = Len(list) - 1 /\ Len(list) \in Nat
          /\ \A i \in 1..(Len(list) - 1) : Tail(list)[i] = list[i + 1]
          /\ Head(list) = list[1] /\ Head(list) \in 1..position
      BY <2>1, Tails
    <3> QED BY <2>1, <3>1
  <2>3. Len(list) > 0
    BY <2>1, EmptySeq, LenProperties
  <2> QED BY <2>1, <2>2, <2>3 DEF head
<1> HIDE DEF list, new, head
<1>4. All(s)' = All(s) /\ Bytes(s)' = Bytes(s) /\ \A t : Count(t)' = Count(t)
  BY Constants
<1>5. head = All(s)[Taken(s) + 1]
  <2>1. 1 \in 1..Len(list)
    BY <1>1, <1>3
  <2> QED BY <1>3, <2>1 DEF Queued, list
<1>6. Taken(s)' = Taken(s) + 1
  <2>1. Taken(s)' = Count(s) - Len(new)
    BY <1>4 DEF Taken, new
  <2> QED BY <1>1, <1>3, <2>1
<1>7. ASSUME NEW i \in 1..Len(new) PROVE new[i] = All(s)[Taken(s) + 1 + i]
  <2>1. /\ i \in 1..(Len(list) - 1) /\ i + 1 \in 1..Len(list)
        /\ Taken(s) + 1 + i = Taken(s) + (i + 1)
    BY <1>1, <1>3
  <2> QED BY <1>3, <2>1 DEF Queued, list
<1>8. queue'[s].size = Bytes(s)[Count(s)] - Bytes(s)[Taken(s) + 1]
  <2>1. /\ Taken(s) + 1 \in 1..Len(All(s)) /\ Taken(s) + 1 - 1 = Taken(s)
        /\ Taken(s) \in 0..Len(All(s)) /\ Count(s) \in 0..Len(All(s))
    BY <1>1, <1>3
  <2>2. /\ Bytes(s)[Taken(s) + 1] = Bytes(s)[Taken(s)] + Packet(head).size
        /\ Packet(head).size \in Nat /\ Bytes(s)[Taken(s)] \in Nat
        /\ Bytes(s)[Count(s)] \in Nat
    <3> DEFINE t == Taken(s) + 1
    <3>1. /\ t \in 1..Len(All(s)) /\ t - 1 = Taken(s) /\ All(s)[t] = head
          /\ t - 1 \in 0..Len(All(s)) /\ Count(s) \in 0..Len(All(s))
          /\ film \in Films
      BY <1>1, <1>5, <2>1
    <3> HIDE DEF t
    <3>2. /\ Bytes(s)[t] = Bytes(s)[t - 1] + Packet(All(s)[t]).size
          /\ Bytes(s)[t - 1] \in Nat /\ Bytes(s)[Count(s)] \in Nat
      BY <3>1, BytesNext
    <3>3. Packet(All(s)[t]).size \in Nat
      BY <3>1, AllTyped
    <3> QED BY <3>1, <3>2, <3>3 DEF t
  <2>3. queue[s].size = Bytes(s)[Count(s)] - Bytes(s)[Taken(s)]
    BY DEF Queued
  <2> QED BY <1>2, <2>2, <2>3
<1>9. Queued(s)'
  <2>1. Taken(s)' \in Nat
    BY <1>1, <1>6
  <2> QED BY <1>4, <1>6, <1>7, <1>8, <2>1 DEF Queued, new
<1>10. ASSUME NEW t \in Streams, t # s
       PROVE  Taken(t)' = Taken(t) /\ (Queued(t) => Queued(t)')
  <2>1. queue'[t] = queue[t]
    BY <1>2, <1>10
  <2>2. All(t)' = All(t) /\ Bytes(t)' = Bytes(t) /\ Count(t)' = Count(t)
    BY Constants
  <2>3. Taken(t)' = Taken(t)
    BY <2>1, <2>2 DEF Taken
  <2> QED BY <2>1, <2>2, <2>3 DEF Queued
<1>11. queue' \in [Streams -> QueueType]
  <2>1. Packet(head).size \in Nat
    <3>1. head \in DOMAIN film.packets
      <4>1. DOMAIN film.packets = 1..Len(film.packets)
            /\ Len(film.packets) \in Nat /\ position \in 0..Len(film.packets)
        BY Basics
      <4> QED BY <1>3, <4>1
    <3> QED BY <1>1, <3>1, PacketSizes
  <2>2. [packets |-> new, size |-> queue[s].size - Packet(head).size]
           \in QueueType
    BY <1>1, <1>3, <2>1 DEF QueueType
  <2> QED BY <1>1, <1>2, <2>2
<1>12. Taken(s) + 1 <= Count(s)
  BY <1>1, <1>3
<1> QED BY <1>1, <1>3, <1>5, <1>6, <1>9, <1>10, <1>11, <1>12 DEF head, list

(* No other step changes what is queued or taken.                          *)
LEMMA QueuedSame ==
    ASSUME NEW s, UNCHANGED <<film, position, queue>>
    PROVE  Taken(s)' = Taken(s) /\ (Queued(s) => Queued(s)')
<1>1. All(s)' = All(s) /\ Bytes(s)' = Bytes(s) /\ Count(s)' = Count(s)
  BY Constants
<1>2. Taken(s)' = Taken(s)
  BY <1>1 DEF Taken
<1> QED BY <1>1, <1>2 DEF Queued

-----------------------------------------------------------------------------
(* What a step leaves alone.                                               *)

(* Ranges of numbers.                                                      *)
LEMMA RangeWidens ==
    ASSUME NEW m \in Nat, NEW n \in Nat, m <= n
    PROVE  1..m \subseteq 1..n /\ 0..m \subseteq 0..n
OBVIOUS

(* Steps that only move video_thread, or read a packet.                    *)
LEMMA VideoTypesKept ==
    ASSUME Types, film' = film, position' \in Nat, position <= position',
           UNCHANGED <<videoPacket, frame, videoDecoder, line>>,
           video' \in {"off", "get", "asleep", "send", "receive", "queue child",
                       "child queued", "queue parent", "failed", "ended"},
           video' \in {"off", "get", "asleep", "send"} =>
              Len(videoDecoder) <= VideoDelay
    PROVE  VideoTypes'
<1>1. 1..position \subseteq 1..position' /\ 0..position \subseteq 0..position'
  <2>1. position \in Nat
    BY Basics
  <2> QED BY <2>1, RangeWidens
<1>2. videoDecoder \in Seq(1..position')
  BY <1>1, Widens DEF Types, VideoTypes
<1>3. videoPacket \in 0..position' /\ frame \in 0..position'
  BY <1>1 DEF Types, VideoTypes
<1> QED BY <1>2, <1>3 DEF Types, VideoTypes

(* Steps that only move the callback, or read a packet.                    *)
LEMMA AudioTypesKept ==
    ASSUME Types, film' = film, position' \in Nat, position <= position',
           UNCHANGED <<audioPacket, audioDecoder, heard>>,
           audio' = audio \/ audio' \in {"off", "get", "asleep", "mute"}
    PROVE  AudioTypes'
<1>1. 1..position \subseteq 1..position' /\ 0..position \subseteq 0..position'
  <2>1. position \in Nat
    BY Basics
  <2> QED BY <2>1, RangeWidens
<1>2. audioDecoder \in Seq(1..position')
  BY <1>1, Widens DEF Types, AudioTypes
<1>3. audioPacket \in 0..position'
  BY <1>1 DEF Types, AudioTypes
<1> QED BY <1>2, <1>3 DEF Types, AudioTypes

(* Steps that neither give the video decoder anything nor take of it.      *)
LEMMA WatchedKept ==
    ASSUME Watched, film' = film,
           UNCHANGED <<videoDecoder, frame, videoPacket>>,
           Taken("video")' = Taken("video"),
           InHand({"send", "failed"}, video')
              = InHand({"send", "failed"}, video)
    PROVE  Watched' /\ Given' = Given
<1>1. All("video")' = All("video")
  BY Constants
<1>2. Given' = Given
  BY DEF Given
<1> QED BY <1>1, <1>2 DEF Watched

(* Steps that neither give the audio decoder anything nor take of it.      *)
LEMMA ListenedKept ==
    ASSUME Listened, film' = film,
           UNCHANGED <<audioDecoder, audioPacket, heard>>,
           Taken("audio")' = Taken("audio"),
           \/ audio' = audio
           \/ /\ audio \notin {"decode", "rejected", "draining", "mute"}
              /\ audio' \notin {"decode", "rejected", "draining", "mute"}
    PROVE  Listened'
<1>1. All("audio")' = All("audio")
  BY Constants
<1>2. Accounted' = Accounted
  BY DEF Accounted, InHand
<1> QED BY <1>1, <1>2 DEF Listened, Silent

Queueing == {"queue child", "child queued", "queue parent"}

(* Steps that leave the lines, the pictures and the frames given alone.    *)
LEMMA PlacedKept ==
    ASSUME WellFormed(film.index) => Placed, film' = film,
           UNCHANGED <<line, shown, pictq>>, Given' = Given,
           \/ /\ video' = video /\ exited' = exited
              /\ Taken("video")' = Taken("video")
           \/ /\ exited = "no" /\ exited' \in {"no", "user"}
              /\ \/ video' = video
                 \/ video \notin Queueing /\ video' \notin Queueing
    PROVE  (WellFormed(film.index) => Placed)'
<1>1. /\ All("video")' = All("video") /\ ParentLines' = ParentLines
      /\ (WellFormed(film.index))' <=> WellFormed(film.index)
  BY Constants
<1>2. /\ Pictures' = Pictures
      /\ \A i : Picture(i)' = Picture(i)
  BY DEF Pictures, Picture
<1>3. \/ /\ video' = video /\ exited' = exited
         /\ Taken("video")' = Taken("video")
      \/ exited # "index" /\ exited' # "index" /\ video' = video
      \/ /\ exited # "index" /\ exited' # "index"
         /\ video \notin Queueing /\ video' \notin Queueing
  OBVIOUS
<1> SUFFICES ASSUME Placed PROVE Placed'
  BY <1>1
<1>4. Pictures = IF video' \in {"queue child", "queue parent"} THEN line - 1
                 ELSE line
  BY <1>3 DEF Placed, Queueing
<1>5. video' \in {"queue child", "child queued"} =>
         line > 0 /\ ~film.index[line] /\ ParentLines[line] + 1 = Given
  BY <1>3 DEF Placed, Queueing
<1>6. video' = "queue parent" => line > 0 /\ film.index[line]
  BY <1>3 DEF Placed, Queueing
<1>7. video' \notin {"queue child", "child queued"} /\ exited' # "index" =>
         ParentLines[line] = Given
  BY <1>3 DEF Placed, Queueing
<1>8. exited' = "index" =>
         /\ video' = "receive" /\ line = Len(film.index)
         /\ ParentLines[line] < Given
         /\ Given + VideoDelay <= Taken("video")'
  BY <1>3 DEF Placed
<1>9. \A i \in 1..Pictures :
         /\ ParentLines[i - 1] + 1 <= Given
         /\ Picture(i) = [line |-> i,
                          frame |-> All("video")[ParentLines[i - 1] + 1]]
  BY DEF Placed
<1> QED BY <1>1, <1>2, <1>4, <1>5, <1>6, <1>7, <1>8, <1>9 DEF Placed

(* A step of one thread that only says where the thread is.                *)
LEMMA Quiet ==
    ASSUME FilmInv,
           UNCHANGED <<film, position, queue, videoPacket, videoDecoder, frame,
                       line, pictq, shown, audioPacket, audioDecoder, heard>>,
           ReadTypes', Opening', Sound',
           \/ video' = video
           \/ /\ exited = "no" /\ Len(videoDecoder) <= VideoDelay
              /\ video \in {"off", "get", "asleep", "receive"}
              /\ video' \in {"get", "asleep", "ended"},
           \/ audio' = audio
           \/ /\ audio \in {"off", "get", "asleep"}
              /\ audio' \in {"get", "asleep"},
           exited' = exited \/ (exited = "no" /\ exited' \in {"no", "user"})
    PROVE  FilmInv'
<1>1. position \in Nat /\ position <= position
  BY Basics DEF FilmInv
<1>2. /\ Queued("video")' /\ Queued("audio")'
      /\ Taken("video")' = Taken("video") /\ Taken("audio")' = Taken("audio")
  BY QueuedSame DEF FilmInv
<1>3. VideoTypes'
  <2>1. video' \in {"off", "get", "asleep", "send", "receive", "queue child",
                    "child queued", "queue parent", "failed", "ended"}
    BY DEF FilmInv, Types, VideoTypes
  <2>2. video' \in {"off", "get", "asleep", "send"} =>
              Len(videoDecoder) <= VideoDelay
    BY DEF FilmInv, Types, VideoTypes
  <2> QED BY <1>1, <2>1, <2>2, VideoTypesKept DEF FilmInv
<1>4. AudioTypes'
  BY <1>1, AudioTypesKept DEF FilmInv
<1>5. Queues' /\ PictureTypes'
  BY DEF FilmInv, Types, Queues, QueueType, PictureTypes
<1>6. Watched' /\ Given' = Given
  <2>1. InHand({"send", "failed"}, video') = InHand({"send", "failed"}, video)
    BY DEF InHand
  <2> QED BY <1>2, <2>1, WatchedKept DEF FilmInv
<1>7. Listened'
  BY <1>2, ListenedKept DEF FilmInv
<1>8. (WellFormed(film.index) => Placed)'
  <2>1. \/ /\ video' = video /\ exited' = exited
           /\ Taken("video")' = Taken("video")
        \/ /\ exited = "no" /\ exited' \in {"no", "user"}
           /\ \/ video' = video
              \/ video \notin Queueing /\ video' \notin Queueing
    BY <1>2 DEF Queueing
  <2> QED BY <1>6, <2>1, PlacedKept DEF FilmInv
<1> QED BY <1>2, <1>3, <1>4, <1>5, <1>6, <1>7, <1>8 DEF FilmInv, Types

(* A thread holds one packet or none.                                      *)
LEMMA InHandNumber == ASSUME NEW S, NEW x PROVE InHand(S, x) \in {0, 1}
BY DEF InHand

(* Numbers of the video thread.                                            *)
LEMMA VideoNumbers ==
    ASSUME FilmInv
    PROVE  /\ Taken("video") \in Nat /\ Len(videoDecoder) \in Nat
           /\ Taken("video") <= Count("video")
           /\ Count("video") \in Nat /\ Given \in Nat
           /\ Given = Taken("video") - InHand({"send", "failed"}, video)
                        - Len(videoDecoder)
           /\ videoDecoder \in Seq(1..position)
           /\ video \in {"send", "failed"} => Taken("video") > 0
           /\ \A k \in 1..Taken("video") : All("video")[k] \in 1..position
<1> DEFINE t == Taken("video")
           l == Len(queue["video"].packets)
           c == Count("video")
           d == Len(videoDecoder)
           h == InHand({"send", "failed"}, video)
<1>1. "video" \in Streams
  BY DEF Streams
<1>2. l \in Nat /\ c \in Nat /\ t + l = c /\ t \in Nat
  BY <1>1, QueueTyped, Counted DEF FilmInv, Queued
<1>3. videoDecoder \in Seq(1..position) /\ d \in Nat
  BY LenProperties DEF FilmInv, Types, VideoTypes
<1>4. Given = t - h - d /\ Given \in Nat
  BY DEF Given, FilmInv, Watched
<1>5. h \in {0, 1} /\ (video \in {"send", "failed"} => h = 1)
  BY DEF InHand
<1>6. \A k \in 1..c : All("video")[k] \in 1..position
  BY Counted DEF FilmInv
<1> HIDE DEF t, l, c, d, h
<1>7. t <= c /\ (video \in {"send", "failed"} => t > 0)
  <2>1. t <= c
    BY <1>2
  <2>2. h = 1 => t > 0
    BY <1>2, <1>3, <1>4
  <2> QED BY <1>5, <2>1, <2>2
<1>8. \A k \in 1..t : k \in 1..c
  BY <1>2, <1>7
<1> QED BY <1>2, <1>3, <1>4, <1>6, <1>7, <1>8 DEF t, c, d, h

(* video_thread takes a packet into its hand.                              *)
LEMMA VideoGetStep ==
    ASSUME FilmInv, VideoGet
    PROVE  FilmInv'
<1> DEFINE t == Taken("video")
           h == InHand({"send", "failed"}, video)
           d == Len(videoDecoder)
<1>1. /\ video = "get" /\ video' = "send" /\ exited = "no"
      /\ HasPacket("video") /\ Take("video")
      /\ videoPacket' = Head(queue["video"].packets)
      /\ UNCHANGED <<film, decode, position, finished, videoDecoder, frame,
                     line, pictq, shown, audio, audioPacket, audioDecoder,
                     heard, exited>>
  BY DEF VideoGet, Running, decodeVars, audioVars
<1>2. "video" \in Streams /\ "audio" \in Streams /\ "audio" # "video"
  BY DEF Streams
<1>3. /\ Queued("video")' /\ Taken("video")' = t + 1
      /\ videoPacket' = All("video")[t + 1] /\ videoPacket' \in 1..position
      /\ Taken("audio")' = Taken("audio") /\ Queued("audio")'
      /\ queue' \in [Streams -> QueueType]
  <2>1. Types /\ Queued("video") /\ Queued("audio")
    BY DEF FilmInv
  <2> HIDE DEF t
  <2>2. /\ Queued("video")' /\ Taken("video")' = Taken("video") + 1
        /\ Head(queue["video"].packets) = All("video")[Taken("video") + 1]
        /\ Head(queue["video"].packets) \in 1..position
        /\ \A s \in Streams : s # "video" =>
              Taken(s)' = Taken(s) /\ (Queued(s) => Queued(s)')
        /\ queue' \in [Streams -> QueueType]
    BY <1>1, <1>2, <2>1, QueuedTake
  <2> QED BY <1>1, <1>2, <2>1, <2>2 DEF t
<1>4. ReadTypes' /\ Opening' /\ Sound' /\ Queues' /\ PictureTypes'
  <2>1. QueueType' = QueueType
    BY <1>1 DEF QueueType
  <2> QED BY <1>1, <1>3, <2>1
      DEF FilmInv, Types, ReadTypes, Opening, Sound, Silent, Packet,
                                  Queues, PictureTypes
<1>5. VideoTypes'
  <2>1. position \in Nat
    BY Basics DEF FilmInv
  <2>2. videoPacket' \in 0..position
    BY <1>3, <2>1
  <2> QED BY <1>1, <2>2 DEF FilmInv, Types, VideoTypes
<1>6. AudioTypes'
  BY <1>1 DEF FilmInv, Types, AudioTypes
<1>7. Given' = Given
  <2>1. /\ t \in Nat /\ d \in Nat /\ Given = t - h - d
    BY VideoNumbers
  <2>2. Given' = Taken("video")' - InHand({"send", "failed"}, video') - d
    BY <1>1 DEF Given
  <2>3. h = 0 /\ InHand({"send", "failed"}, video') = 1
    BY <1>1 DEF InHand
  <2> HIDE DEF t, d, h
  <2> QED BY <1>3, <2>1, <2>2, <2>3
<1>8. Watched'
  <2>1. All("video")' = All("video")
    BY <1>1, Constants
  <2> QED BY <1>1, <1>3, <1>7, <2>1 DEF FilmInv, Watched
<1>9. Listened'
  BY <1>1, <1>3, ListenedKept DEF FilmInv
<1>10. (WellFormed(film.index) => Placed)'
  BY <1>1, <1>7, PlacedKept DEF FilmInv, Queueing
<1> QED BY <1>3, <1>4, <1>5, <1>6, <1>8, <1>9, <1>10 DEF FilmInv, Types

(* The packet in hand goes to the decoder, or is rejected.                 *)
LEMMA VideoSendStep ==
    ASSUME FilmInv, VideoSend
    PROVE  FilmInv'
<1> DEFINE t == Taken("video")
           h == InHand({"send", "failed"}, video)
           d == Len(videoDecoder)
<1>1. /\ video = "send" /\ exited = "no"
      /\ \/ video' = "failed" /\ videoDecoder' = videoDecoder
         \/ /\ video' = "receive"
            /\ videoDecoder' = Append(videoDecoder, videoPacket)
      /\ UNCHANGED <<film, decode, position, finished, queue, videoPacket,
                     frame, line, pictq, shown, audio, audioPacket,
                     audioDecoder, heard, exited>>
  BY DEF VideoSend, Running, decodeVars, audioVars
<1>2. /\ Queued("video")' /\ Queued("audio")'
      /\ Taken("video")' = t /\ Taken("audio")' = Taken("audio")
  BY <1>1, QueuedSame DEF FilmInv
<1>3. /\ ReadTypes' /\ Opening' /\ Sound' /\ Queues' /\ PictureTypes'
      /\ AudioTypes'
  BY <1>1
      DEF FilmInv, Types, ReadTypes, Opening, Sound, Silent, Packet, Queues,
          QueueType,
              PictureTypes, AudioTypes
<1>4. Listened'
  BY <1>1, <1>2, ListenedKept DEF FilmInv
<1>5. /\ t \in Nat /\ t > 0 /\ videoPacket = All("video")[t]
      /\ videoPacket \in 1..position /\ d \in Nat /\ d <= VideoDelay
      /\ VideoDelay \in Nat
      /\ videoDecoder \in Seq(1..position) /\ Given = t - h - d /\ h = 1
      /\ Given \in Nat
  <2>1. /\ t \in Nat /\ t > 0 /\ d \in Nat /\ Given = t - h - d
        /\ videoDecoder \in Seq(1..position) /\ Given \in Nat
        /\ \A k \in 1..t : All("video")[k] \in 1..position
    <3> HIDE DEF t, d, h
    <3> QED BY <1>1, VideoNumbers DEF t, d, h
  <2>2. videoPacket = All("video")[t] /\ t \in 1..t
    BY <2>1 DEF FilmInv, Watched
  <2>3. d <= VideoDelay /\ VideoDelay \in Nat
    BY <1>1, PlayerAssumption DEF FilmInv, Types, VideoTypes
  <2>4. h = 1
    BY <1>1 DEF InHand
  <2> QED BY <2>1, <2>2, <2>3, <2>4
<1>6. CASE video' = "failed"
  <2>1. videoDecoder' = videoDecoder
    BY <1>1, <1>6
  <2>2. Watched' /\ Given' = Given
    <3>1. InHand({"send", "failed"}, video') = InHand({"send", "failed"}, video)
      BY <1>1, <1>6 DEF InHand
    <3> QED BY <1>1, <1>2, <2>1, <3>1, WatchedKept DEF FilmInv
  <2>3. VideoTypes'
    BY <1>1, <1>6, <2>1 DEF FilmInv, Types, VideoTypes
  <2>4. (WellFormed(film.index) => Placed)'
    BY <1>1, <1>6, <2>2, PlacedKept DEF FilmInv, Queueing
  <2> QED BY <1>2, <1>3, <1>4, <2>2, <2>3, <2>4 DEF FilmInv, Types
<1>7. CASE video' = "receive"
  <2>1. /\ videoDecoder' \in Seq(1..position) /\ Len(videoDecoder') = d + 1
        /\ videoDecoder'[d + 1] = videoPacket
        /\ \A i \in 1..d : videoDecoder'[i] = videoDecoder[i]
    <3>1. videoDecoder' = Append(videoDecoder, videoPacket)
      BY <1>1, <1>7
    <3>2. /\ Append(videoDecoder, videoPacket) \in Seq(1..position)
          /\ Len(Append(videoDecoder, videoPacket)) = d + 1
          /\ Append(videoDecoder, videoPacket)[d + 1] = videoPacket
          /\ \A i \in 1..d :
                Append(videoDecoder, videoPacket)[i] = videoDecoder[i]
      BY <1>5, Appends
    <3> QED BY <3>1, <3>2
  <2>2. VideoTypes'
    BY <1>1, <1>5, <1>7, <2>1 DEF FilmInv, Types, VideoTypes
  <2>3. Given' = Given
    <3>1. Given' = Taken("video")' - InHand({"send", "failed"}, video')
                     - Len(videoDecoder')
      BY DEF Given
    <3>2. InHand({"send", "failed"}, video') = 0
      BY <1>7 DEF InHand
    <3> HIDE DEF t, d, h
    <3> QED BY <1>2, <1>5, <2>1, <3>1, <3>2
  <2>4. Watched'
    <3>1. All("video")' = All("video")
      BY <1>1, Constants
    <3>2. ASSUME NEW i \in 1..Len(videoDecoder')
          PROVE  videoDecoder'[i] = All("video")[Given + i]
      <4>1. CASE i = d + 1
        <5>1. Given + i = t
          <6> HIDE DEF t, d, h
          <6> QED BY <1>5, <4>1
        <5> QED BY <1>5, <2>1, <4>1, <5>1
      <4>2. CASE i # d + 1
        <5>1. i \in 1..d
          <6> HIDE DEF d
          <6> QED BY <1>5, <2>1, <4>2
        <5> QED BY <2>1, <5>1 DEF FilmInv, Watched
      <4> QED BY <4>1, <4>2
    <3> QED BY <1>1, <1>2, <1>5, <2>3, <3>1, <3>2 DEF FilmInv, Watched
  <2>5. (WellFormed(film.index) => Placed)'
    BY <1>1, <1>7, <2>3, PlacedKept DEF FilmInv, Queueing
  <2> QED BY <1>2, <1>3, <1>4, <2>2, <2>4, <2>5 DEF FilmInv, Types
<1> QED BY <1>1, <1>6, <1>7

-----------------------------------------------------------------------------
(* The lines.                                                              *)

(* The next frame is given, and the next line read or missing.             *)
LEMMA VideoReceiveStep ==
    ASSUME FilmInv, VideoReceive
    PROVE  FilmInv'
<1> DEFINE t == Taken("video")
           d == Len(videoDecoder)
           next == line + 1
<1>1. /\ video = "receive" /\ exited = "no" /\ d > VideoDelay
      /\ frame' = Head(videoDecoder) /\ videoDecoder' = Tail(videoDecoder)
      /\ UNCHANGED <<film, decode, position, finished, queue, videoPacket,
                     pictq, shown, audio, audioPacket, audioDecoder, heard>>
      /\ \/ /\ line < Len(film.index) /\ line' = next
            /\ video' = Place(next) /\ exited' = exited
         \/ /\ ~(line < Len(film.index)) /\ exited' = "index"
            /\ line' = line /\ video' = video
  BY DEF VideoReceive, Running, FrameReady, ReadNextIndex, decodeVars, audioVars
<1>2. /\ Queued("video")' /\ Queued("audio")'
      /\ Taken("video")' = t /\ Taken("audio")' = Taken("audio")
  BY <1>1, QueuedSame DEF FilmInv
<1>3. /\ Opening' /\ Sound' /\ Queues' /\ PictureTypes' /\ AudioTypes'
      /\ video' \in {"receive", "queue child", "queue parent"}
  BY <1>1
      DEF FilmInv, Types, ReadTypes, Opening, Sound, Silent, Packet, Queues,
          QueueType,
              PictureTypes, AudioTypes, Place
<1>4. ReadTypes' /\ Listened'
  <2>1. Listened'
    BY <1>1, <1>2, ListenedKept DEF FilmInv
  <2> QED BY <1>1, <2>1 DEF FilmInv, Types, ReadTypes
<1>5. /\ t \in Nat /\ d \in Nat /\ VideoDelay \in Nat /\ Given \in Nat
      /\ Given = t - d /\ d <= VideoDelay + 1
      /\ videoDecoder \in Seq(1..position)
      /\ line \in 0..Len(film.index) /\ Len(film.index) \in Nat
  <2>1. /\ t \in Nat /\ d \in Nat /\ VideoDelay \in Nat /\ Given \in Nat
        /\ videoDecoder \in Seq(1..position)
        /\ Given = t - InHand({"send", "failed"}, video) - d
        /\ Len(film.index) \in Nat
    <3>1. Types
      BY DEF FilmInv
    <3> HIDE DEF t, d
    <3> QED BY <3>1, VideoNumbers, Basics DEF t, d
  <2>2. InHand({"send", "failed"}, video) = 0
    BY <1>1 DEF InHand
  <2>3. d <= VideoDelay + 1 /\ line \in 0..Len(film.index)
    BY DEF FilmInv, Types, VideoTypes
  <2> HIDE DEF t, d
  <2> QED BY <2>1, <2>2, <2>3
<1>6. /\ frame' = videoDecoder[1] /\ frame' \in 1..position
      /\ videoDecoder' \in Seq(1..position) /\ Len(videoDecoder') = d - 1
      /\ \A i \in 1..(d - 1) : videoDecoder'[i] = videoDecoder[i + 1]
      /\ d > 0
  <2>1. videoDecoder # <<>>
    BY <1>1, <1>5
  <2>2. /\ Head(videoDecoder) = videoDecoder[1]
        /\ Head(videoDecoder) \in 1..position
        /\ Tail(videoDecoder) \in Seq(1..position)
        /\ Len(Tail(videoDecoder)) = d - 1
        /\ \A i \in 1..(d - 1) : Tail(videoDecoder)[i] = videoDecoder[i + 1]
    BY <1>5, <2>1, Tails
  <2>3. d > 0
    <3> HIDE DEF d
    <3> QED BY <1>1, <1>5
  <2> QED BY <1>1, <2>2, <2>3
<1>7. Given' = Given + 1
  <2>1. Given' = Taken("video")' - InHand({"send", "failed"}, video')
                   - Len(videoDecoder')
    BY DEF Given
  <2>2. InHand({"send", "failed"}, video') = 0
    BY <1>3 DEF InHand
  <2> HIDE DEF t, d
  <2> QED BY <1>2, <1>5, <1>6, <2>1, <2>2
<1>8. VideoTypes'
  <2>1. line' \in 0..Len(film.index)
    BY <1>1, <1>5
  <2>2. /\ Len(videoDecoder') <= VideoDelay
        /\ Len(videoDecoder') <= VideoDelay + 1
    <3> HIDE DEF d
    <3> QED BY <1>5, <1>6
  <2>3. frame' \in 0..position
    <3>1. position \in Nat
      BY Basics DEF FilmInv
    <3> QED BY <1>6, <3>1
  <2>4. /\ position' = position /\ film' = film
        /\ videoPacket' \in 0..position
    BY <1>1 DEF FilmInv, Types, VideoTypes
  <2>5. videoDecoder' \in Seq(1..position)
    BY <1>6
  <2> QED BY <1>3, <2>1, <2>2, <2>3, <2>4, <2>5 DEF VideoTypes
<1>9. Watched'
  <2>1. All("video")' = All("video")
    BY <1>1, Constants
  <2>2. frame' = All("video")[Given + 1]
    <3>1. 1 \in 1..d
      <4> HIDE DEF d
      <4> QED BY <1>5, <1>6
    <3> QED BY <1>6, <3>1 DEF FilmInv, Watched
  <2>3. ASSUME NEW i \in 1..Len(videoDecoder')
        PROVE  videoDecoder'[i] = All("video")[Given + 1 + i]
    <3>1. /\ i \in 1..(d - 1) /\ i + 1 \in 1..d
          /\ Given + 1 + i = Given + (i + 1)
      <4> HIDE DEF d
      <4> QED BY <1>5, <1>6
    <3> QED BY <1>6, <3>1 DEF FilmInv, Watched
  <2>4. Taken("video")' > 0 =>
           videoPacket' = All("video")[Taken("video")']
    BY <1>1, <1>2 DEF FilmInv, Watched
  <2>5. Given' \in Nat
    BY <1>5, <1>7
  <2> HIDE DEF t, d
  <2> QED BY <1>7, <2>1, <2>2, <2>3, <2>4, <2>5 DEF Watched
<1>10. ASSUME WellFormed(film.index) PROVE Placed'
  <2>1. Placed
    BY <1>10 DEF FilmInv
  <2>2. /\ All("video")' = All("video") /\ ParentLines' = ParentLines
        /\ Pictures' = Pictures /\ \A i : Picture(i)' = Picture(i)
    <3>1. All("video")' = All("video") /\ ParentLines' = ParentLines
      BY <1>1, Constants
    <3> QED BY <1>1, <3>1 DEF Pictures, Picture
  <2>3. Pictures = line /\ ParentLines[line] = Given
    BY <1>1, <2>1 DEF Placed
  <2>4. \A i \in 1..Pictures :
           /\ ParentLines[i - 1] + 1 <= Given + 1
           /\ Picture(i) = [line |-> i,
                            frame |-> All("video")[ParentLines[i - 1] + 1]]
    <3> TAKE i \in 1..Pictures
    <3>1. /\ ParentLines[i - 1] + 1 <= Given
          /\ Picture(i) = [line |-> i,
                           frame |-> All("video")[ParentLines[i - 1] + 1]]
      BY <2>1 DEF Placed
    <3>2. ParentLines[i - 1] \in Nat
      <4>1. i - 1 \in 0..Len(film.index) /\ film \in Films
        BY <1>5, <2>3, Basics DEF FilmInv
      <4> QED BY <4>1, ParentNext
    <3> DEFINE p == ParentLines[i - 1]
    <3>3. p + 1 <= Given + 1
      <4>1. p \in Nat /\ p + 1 <= Given
        BY <3>1, <3>2
      <4> HIDE DEF p
      <4> QED BY <1>5, <4>1
    <3> QED BY <3>1, <3>3
  <2>5. CASE line < Len(film.index)
    <3>1. /\ next \in 1..Len(film.index) /\ next - 1 = line /\ next > 0
          /\ ~(next > Len(film.index)) /\ film \in Films
      BY <1>5, <2>5, Basics DEF FilmInv
    <3>2. line' = next /\ video' = Place(next) /\ exited' # "index"
      BY <1>1, <2>5
    <3> HIDE DEF next
    <3>3. ParentLines[next] = IF film.index[next] THEN Given + 1 ELSE Given
      BY <2>3, <3>1, ParentNext
    <3>4. /\ film.index[next] => video' = "queue parent"
          /\ ~film.index[next] => video' = "queue child"
      BY <3>1, <3>2 DEF Place
    <3>5. Pictures = next - 1
      BY <2>3, <3>1
    <3>6. CASE film.index[next]
      BY <1>1, <1>7, <2>2, <2>4, <3>1, <3>2, <3>3, <3>4, <3>5, <3>6 DEF Placed
    <3>7. CASE ~film.index[next]
      BY <1>1, <1>7, <2>2, <2>4, <3>1, <3>2, <3>3, <3>4, <3>5, <3>7 DEF Placed
    <3> QED BY <3>6, <3>7
  <2>6. CASE ~(line < Len(film.index))
    <3>1. line = Len(film.index) /\ line' = line /\ video' = "receive"
          /\ exited' = "index"
      BY <1>1, <1>5, <2>6
    <3>2. Given + 1 + VideoDelay <= t /\ Given < Given + 1
      <4> HIDE DEF t, d
      <4> QED BY <1>1, <1>5
    <3> QED BY <1>1, <1>2, <1>7, <2>2, <2>3, <2>4, <3>1, <3>2 DEF Placed
  <2> QED BY <2>5, <2>6
<1>11. (WellFormed(film.index))' <=> WellFormed(film.index)
  BY <1>1, Constants
<1> QED BY <1>2, <1>3, <1>4, <1>8, <1>9, <1>10, <1>11 DEF FilmInv, Types

(* The pictures when one is queued.                                        *)
LEMMA PictureQueued ==
    ASSUME FilmInv, NEW x, x \in [line : Nat, frame : Nat], QueuePicture,
           x = [line |-> line, frame |-> frame], shown' = shown
    PROVE  /\ PictureTypes' /\ Pictures \in Nat /\ Pictures' = Pictures + 1
           /\ \A i \in 1..(Pictures + 1) :
                 Picture(i)' = IF i = Pictures + 1 THEN x ELSE Picture(i)
<1> DEFINE m == Len(shown)
           n == Len(pictq)
<1>1. /\ pictq \in Seq([line : Nat, frame : Nat]) /\ m \in Nat /\ n \in Nat
      /\ shown \in Seq([line : Nat, frame : Nat]) /\ N \in Nat
  BY LenProperties, PlayerAssumption DEF FilmInv, Types, PictureTypes
<1>2. n < N /\ pictq' = Append(pictq, x)
  BY DEF QueuePicture
<1>3. /\ pictq' \in Seq([line : Nat, frame : Nat]) /\ Len(pictq') = n + 1
      /\ pictq'[n + 1] = x /\ \A i \in 1..n : pictq'[i] = pictq[i]
  <2>1. /\ Append(pictq, x) \in Seq([line : Nat, frame : Nat])
        /\ Len(Append(pictq, x)) = n + 1
        /\ Append(pictq, x)[n + 1] = x
        /\ \A i \in 1..n : Append(pictq, x)[i] = pictq[i]
    BY <1>1, Appends
  <2> QED BY <1>2, <2>1
<1> DEFINE picture(i) == IF i <= m THEN shown[i] ELSE pictq[i - m]
           after(i) == IF i <= m THEN shown[i] ELSE pictq'[i - m]
<1>4. /\ Pictures = m + n /\ Pictures' = m + Len(pictq')
      /\ \A i : Picture(i) = picture(i) /\ Picture(i)' = after(i)
  BY DEF Pictures, Picture
<1>5. PictureTypes'
  <2>1. n + 1 <= N
    <3> HIDE DEF n
    <3> QED BY <1>1, <1>2
  <2> QED BY <1>1, <1>3, <2>1 DEF PictureTypes
<1> HIDE DEF m, n
<1>6. Pictures' = Pictures + 1 /\ Pictures \in Nat
  BY <1>1, <1>3, <1>4
<1>7. \A i \in 1..(m + n + 1) :
         after(i) = IF i = m + n + 1 THEN x ELSE picture(i)
  <2> TAKE i \in 1..(m + n + 1)
  <2>1. CASE i = m + n + 1
    <3>1. ~(i <= m) /\ i - m = n + 1
      BY <1>1, <2>1
    <3> QED BY <1>3, <2>1, <3>1
  <2>2. CASE i # m + n + 1
    <3>1. i <= m \/ (~(i <= m) /\ i - m \in 1..n)
      BY <1>1, <2>2
    <3> QED BY <1>3, <2>2, <3>1
  <2> QED BY <2>1, <2>2
<1> HIDE DEF picture, after
<1> QED BY <1>4, <1>5, <1>6, <1>7

AtLine == Running /\ video \in Queueing

(* The frame for a line is the one after the kept lines before it.         *)
LEMMA LineNumbers ==
    ASSUME FilmInv, AtLine, WellFormed(film.index)
    PROVE  /\ Placed /\ film \in Films
           /\ line \in 1..Len(film.index) /\ line \in Nat /\ line - 1 \in Nat
           /\ ParentLines[line - 1] + 1 = Given /\ Given \in Nat /\ Given > 0
           /\ frame = All("video")[Given]
           /\ Len(film.index) \in Nat
<1>1. Placed
  BY DEF FilmInv
<1>2. film \in Films /\ Len(film.index) \in Nat /\ line \in 0..Len(film.index)
  BY Basics DEF FilmInv, Types, VideoTypes
<1>3. line > 0
  BY <1>1 DEF Placed, AtLine, Queueing
<1>4. line \in 1..Len(film.index) /\ line \in Nat /\ line - 1 \in Nat
      /\ line - 1 \in 0..Len(film.index)
  <2> DEFINE M == Len(film.index)
  <2>1. M \in Nat /\ line \in 0..M /\ line > 0
    BY <1>2, <1>3
  <2> HIDE DEF M
  <2>2. line \in 1..M /\ line \in Nat /\ line - 1 \in Nat /\ line - 1 \in 0..M
    BY <2>1
  <2> QED BY <2>2 DEF M
<1>5. ParentLines[line] = IF film.index[line] THEN ParentLines[line - 1] + 1
                          ELSE ParentLines[line - 1]
  BY <1>2, <1>4, ParentNext
<1>6. ParentLines[line - 1] + 1 = Given
  BY <1>1, <1>5 DEF Placed, AtLine, Queueing, Running
<1>7. ParentLines[line - 1] \in Nat
  BY <1>2, <1>4, ParentNext
<1>8. Given \in Nat /\ Given > 0
  <2> DEFINE p == ParentLines[line - 1]
             g == Given
  <2>1. p \in Nat /\ p + 1 = g
    BY <1>6, <1>7
  <2> HIDE DEF p, g
  <2>2. g \in Nat /\ g > 0
    BY <2>1
  <2> QED BY <2>2 DEF g
<1>9. frame = All("video")[Given]
  BY <1>8 DEF FilmInv, Watched
<1> QED BY <1>1, <1>2, <1>4, <1>6, <1>8, <1>9

(* Both ways of queueing the frame end with a picture for the line.        *)
LEMMA QueueStep ==
    ASSUME FilmInv, QueueChild \/ QueueParent
    PROVE  FilmInv'
<1> DEFINE x == [line |-> line, frame |-> frame]
<1>0. /\ QueuePicture /\ exited = "no" /\ AtLine
      /\ \/ video = "queue child" /\ video' = "child queued"
         \/ video = "queue parent" /\ video' = "receive"
      /\ UNCHANGED <<film, decode, position, finished, queue, videoPacket,
                     videoDecoder, frame, line, shown, audio, audioPacket,
                     audioDecoder, heard, exited>>
  BY DEF QueueChild, QueueParent, Running, decodeVars, audioVars, AtLine,
         Queueing
<1>1. /\ Queued("video")' /\ Queued("audio")'
      /\ Taken("video")' = Taken("video") /\ Taken("audio")' = Taken("audio")
  BY <1>0, QueuedSame DEF FilmInv
<1>2. /\ ReadTypes' /\ Opening' /\ Sound' /\ Queues' /\ AudioTypes'
      /\ VideoTypes'
  BY <1>0
      DEF FilmInv, Types, ReadTypes, Opening, Sound, Silent, Packet, Queues,
          QueueType,
         AudioTypes, VideoTypes
<1>3. Listened'
  BY <1>0, <1>1, ListenedKept DEF FilmInv
<1>4. Watched' /\ Given' = Given
  <2>1. InHand({"send", "failed"}, video') = InHand({"send", "failed"}, video)
    BY <1>0 DEF InHand
  <2> QED BY <1>0, <1>1, <2>1, WatchedKept DEF FilmInv
<1>5. x \in [line : Nat, frame : Nat]
  <2>1. line \in Nat /\ frame \in Nat
    <3> DEFINE M == Len(film.index)
    <3>1. M \in Nat /\ position \in Nat
      BY Basics DEF FilmInv
    <3>2. line \in 0..M /\ frame \in 0..position
      BY DEF FilmInv, Types, VideoTypes
    <3> HIDE DEF M
    <3> QED BY <3>1, <3>2
  <2> QED BY <2>1
<1> HIDE DEF x
<1>6. /\ PictureTypes' /\ Pictures \in Nat /\ Pictures' = Pictures + 1
      /\ \A i \in 1..(Pictures + 1) :
            Picture(i)' = IF i = Pictures + 1 THEN x ELSE Picture(i)
  BY <1>0, <1>5, PictureQueued DEF x
<1>7. ASSUME WellFormed(film.index) PROVE Placed'
  <2>1. /\ Placed /\ film \in Films
        /\ line \in 1..Len(film.index) /\ line \in Nat /\ line - 1 \in Nat
        /\ ParentLines[line - 1] + 1 = Given /\ Given \in Nat /\ Given > 0
        /\ frame = All("video")[Given]
    BY <1>0, <1>7, LineNumbers
  <2>2. All("video")' = All("video") /\ ParentLines' = ParentLines
    BY <1>0, Constants
  <2>3. /\ Pictures = line - 1 /\ Pictures' = line
        /\ \A i \in 1..line :
              Picture(i)' = IF i = line THEN x ELSE Picture(i)
    <3>1. Pictures = line - 1
      BY <1>0, <2>1 DEF Placed
    <3>2. Pictures + 1 = line
      <4> DEFINE p == Pictures
      <4>1. p = line - 1
        BY <3>1
      <4> HIDE DEF p
      <4>2. p + 1 = line
        BY <2>1, <4>1
      <4> QED BY <4>2 DEF p
    <3> QED BY <1>6, <3>1, <3>2
  <2>4. ASSUME NEW i \in 1..line
        PROVE  /\ ParentLines[i - 1] + 1 <= Given
               /\ Picture(i)' =
                     [line |-> i,
                      frame |-> All("video")[ParentLines[i - 1] + 1]]
    <3>1. CASE i = line
      <4>1. Picture(i)' = x
        BY <2>3, <3>1
      <4>2. ParentLines[i - 1] + 1 = Given
        BY <2>1, <3>1
      <4>3. ParentLines[i - 1] + 1 <= Given
        <5> DEFINE g == Given
        <5>1. g \in Nat /\ ParentLines[i - 1] + 1 = g
          BY <2>1, <4>2
        <5> HIDE DEF g
        <5>2. ParentLines[i - 1] + 1 <= g
          BY <5>1
        <5> QED BY <5>2 DEF g
      <4> QED BY <2>1, <3>1, <4>1, <4>2, <4>3 DEF x
    <3>2. CASE i # line
      <4>1. i \in 1..(line - 1)
        BY <2>1, <3>2
      <4> QED BY <2>1, <2>3, <3>2, <4>1 DEF Placed
    <3> QED BY <3>1, <3>2
  <2>5. /\ video = "queue child" =>
             ~film.index[line] /\ ParentLines[line] + 1 = Given
        /\ video = "queue parent" => ParentLines[line] = Given
    BY <1>0, <2>1 DEF Placed
  <2> QED BY <1>0, <1>4, <2>1, <2>2, <2>3, <2>4, <2>5 DEF Placed
<1>8. (WellFormed(film.index))' <=> WellFormed(film.index)
  BY <1>0, Constants
<1> QED BY <1>1, <1>2, <1>3, <1>4, <1>6, <1>7, <1>8 DEF FilmInv, Types

(* The line after that of a dropped frame is that of its parent.           *)
LEMMA ReadParentLineStep ==
    ASSUME FilmInv, ReadParentLine
    PROVE  (WellFormed(film.index) => Placed)' /\ VideoTypes'
<1>1. /\ video = "child queued" /\ exited = "no" /\ AtLine
      /\ UNCHANGED <<film, position, queue, videoPacket, videoDecoder, frame,
                     pictq, shown>>
      /\ \/ /\ line < Len(film.index) /\ line' = line + 1
            /\ video' = "queue parent" /\ exited' = exited
         \/ /\ ~(line < Len(film.index)) /\ exited' = "index"
            /\ line' = line /\ video' = video
  BY DEF ReadParentLine, ReadNextIndex, Running, AtLine, Queueing, decodeVars
<1>2. VideoTypes'
  <2> DEFINE M == Len(film.index)
  <2>1. line' \in 0..M
    <3>1. M \in Nat /\ line \in 0..M
      BY Basics DEF FilmInv, Types, VideoTypes
    <3> HIDE DEF M
    <3>2. line < M => line + 1 \in 0..M
      BY <3>1
    <3> QED BY <1>1, <3>1, <3>2 DEF M
  <2>2. /\ videoPacket' \in 0..position' /\ frame' \in 0..position'
        /\ videoDecoder' \in Seq(1..position')
        /\ Len(videoDecoder') <= VideoDelay + 1
    BY <1>1 DEF FilmInv, Types, VideoTypes
  <2>3. video' = "queue parent" \/ video' = "child queued"
    BY <1>1
  <2>4. film' = film
    BY <1>1
  <2> QED BY <2>1, <2>2, <2>3, <2>4 DEF VideoTypes
<1>3. ASSUME WellFormed(film.index) PROVE Placed'
  <2>1. /\ Placed /\ line \in 1..Len(film.index) /\ line \in Nat
        /\ Given \in Nat /\ Len(film.index) \in Nat /\ film \in Films
        /\ DOMAIN film.index = 1..Len(film.index)
    <3>1. DOMAIN film.index = 1..Len(film.index)
      BY Basics DEF FilmInv
    <3> QED BY <1>1, <1>3, <3>1, LineNumbers
  <2>2. /\ ~film.index[line] /\ ParentLines[line] + 1 = Given
        /\ Pictures = line
    BY <1>1, <2>1 DEF Placed
  <2>3. line < Len(film.index) /\ film.index[line + 1]
    BY <1>3, <2>1, <2>2 DEF WellFormed
  <2>4. /\ line' = line + 1 /\ video' = "queue parent" /\ exited' = "no"
    BY <1>1, <2>3
  <2>5. line + 1 \in 1..Len(film.index) /\ line + 1 - 1 = line /\ line + 1 > 0
    BY <2>1, <2>3
  <2>6. ParentLines[line + 1] = Given
    BY <2>1, <2>2, <2>3, <2>5, ParentNext
  <2>7. /\ All("video")' = All("video") /\ ParentLines' = ParentLines
        /\ Pictures' = Pictures /\ \A i : Picture(i)' = Picture(i)
    <3>1. All("video")' = All("video") /\ ParentLines' = ParentLines
      BY <1>1, Constants
    <3> QED BY <1>1, <3>1 DEF Pictures, Picture
  <2>8. Given' = Given
    <3>1. Taken("video")' = Taken("video")
      BY <1>1, QueuedSame
    <3> QED BY <1>1, <2>4, <3>1 DEF Given, InHand
  <2>9. \A i \in 1..Pictures :
           /\ ParentLines[i - 1] + 1 <= Given
           /\ Picture(i) = [line |-> i,
                            frame |-> All("video")[ParentLines[i - 1] + 1]]
    BY <2>1 DEF Placed
  <2> DEFINE next == line + 1
  <2>10. /\ line' = next /\ next - 1 = line /\ next > 0
         /\ film.index[next] /\ ParentLines[next] = Given
    <3>1. film.index[next]
      BY <2>3, Zenon
    <3>2. line' = next
      BY <2>4
    <3>4. next - 1 = line /\ next > 0
      <4>1. line \in Nat
        BY <2>1
      <4> QED BY <4>1
    <3>3. ParentLines[next] = Given
      BY <2>6, Zenon
    <3> QED BY <3>1, <3>2, <3>3, <3>4, Zenon
  <2> HIDE DEF next
  <2>11. Pictures = next - 1
    BY <2>2, <2>10
  <2> QED BY <1>1, <2>4, <2>7, <2>8, <2>9, <2>10, <2>11 DEF Placed
<1>4. (WellFormed(film.index))' <=> WellFormed(film.index)
  BY <1>1, Constants
<1> QED BY <1>2, <1>3, <1>4

(* The line of the parent changes nothing else.                            *)
LEMMA ParentLineKeeps ==
    ASSUME FilmInv, ReadParentLine
    PROVE  FilmInv'
<1>1. /\ video = "child queued" /\ exited = "no"
      /\ UNCHANGED <<film, decode, position, finished, queue, videoPacket,
                     videoDecoder, frame, pictq, shown, audio, audioPacket,
                     audioDecoder, heard>>
      /\ video' = "queue parent" \/ video' = video
      /\ exited' = "index" \/ exited' = exited
  BY DEF ReadParentLine, ReadNextIndex, Running, decodeVars, audioVars
<1>2. /\ Queued("video")' /\ Queued("audio")'
      /\ Taken("video")' = Taken("video") /\ Taken("audio")' = Taken("audio")
  BY <1>1, QueuedSame DEF FilmInv
<1>3. /\ ReadTypes' /\ Opening' /\ Sound' /\ Queues' /\ AudioTypes'
      /\ PictureTypes'
  BY <1>1
      DEF FilmInv, Types, ReadTypes, Opening, Sound, Silent, Packet, Queues,
          QueueType,
              AudioTypes, PictureTypes
<1>4. Listened'
  BY <1>1, <1>2, ListenedKept DEF FilmInv
<1>5. Watched'
  <2>1. InHand({"send", "failed"}, video') = InHand({"send", "failed"}, video)
    BY <1>1 DEF InHand
  <2> QED BY <1>1, <1>2, <2>1, WatchedKept DEF FilmInv
<1> QED BY <1>2, <1>3, <1>4, <1>5, ReadParentLineStep DEF FilmInv, Types

(* Showing a picture keeps the pictures in their order.                    *)
LEMMA ShowPictureStep ==
    ASSUME FilmInv, ShowPicture
    PROVE  FilmInv'
<1> DEFINE m == Len(shown)
           n == Len(pictq)
           P == [line : Nat, frame : Nat]
<1>1. /\ exited = "no" /\ pictq # <<>>
      /\ shown' = Append(shown, Head(pictq)) /\ pictq' = Tail(pictq)
      /\ UNCHANGED <<film, decode, position, finished, queue, video, line,
                     videoPacket, videoDecoder, frame, audio, audioPacket,
                     audioDecoder, heard, exited>>
  BY DEF ShowPicture, Running, decodeVars, videoVars, audioVars
<1>2. /\ Queued("video")' /\ Queued("audio")'
      /\ Taken("video")' = Taken("video") /\ Taken("audio")' = Taken("audio")
  BY <1>1, QueuedSame DEF FilmInv
<1>3. /\ ReadTypes' /\ Opening' /\ Sound' /\ Queues' /\ AudioTypes'
      /\ VideoTypes'
  BY <1>1
      DEF FilmInv, Types, ReadTypes, Opening, Sound, Silent, Packet, Queues,
          QueueType,
              AudioTypes, VideoTypes
<1>4. Listened'
  BY <1>1, <1>2, ListenedKept DEF FilmInv
<1>5. Watched' /\ Given' = Given
  <2>1. InHand({"send", "failed"}, video') = InHand({"send", "failed"}, video)
    BY <1>1 DEF InHand
  <2> QED BY <1>1, <1>2, <2>1, WatchedKept DEF FilmInv
<1>6. pictq \in Seq(P) /\ shown \in Seq(P) /\ n <= N /\ m \in Nat /\ N \in Nat
  BY LenProperties, PlayerAssumption DEF FilmInv, Types, PictureTypes
<1>7. /\ n \in Nat \ {0} /\ Head(pictq) = pictq[1] /\ Head(pictq) \in P
      /\ pictq' \in Seq(P) /\ Len(pictq') = n - 1
      /\ \A i \in 1..(n - 1) : pictq'[i] = pictq[i + 1]
  <2> HIDE DEF P
  <2>1. /\ Len(pictq) \in Nat \ {0} /\ Head(pictq) = pictq[1]
        /\ Head(pictq) \in P /\ Tail(pictq) \in Seq(P)
        /\ Len(Tail(pictq)) = Len(pictq) - 1
        /\ \A i \in 1..(Len(pictq) - 1) : Tail(pictq)[i] = pictq[i + 1]
    BY <1>1, <1>6, Tails
  <2> QED BY <1>1, <2>1
<1>8. /\ shown' \in Seq(P) /\ Len(shown') = m + 1
      /\ shown'[m + 1] = pictq[1] /\ \A i \in 1..m : shown'[i] = shown[i]
  <2> DEFINE x == Head(pictq)
  <2> HIDE DEF P
  <2>0. x \in P
    BY <1>7
  <2> HIDE DEF x
  <2>1. /\ Append(shown, x) \in Seq(P) /\ Len(Append(shown, x)) = m + 1
        /\ Append(shown, x)[m + 1] = x
        /\ \A i \in 1..m : Append(shown, x)[i] = shown[i]
    BY <1>6, <2>0, Appends
  <2> QED BY <1>1, <1>7, <2>1 DEF x
<1> HIDE DEF m, n, P
<1>9. PictureTypes'
  <2>1. Len(pictq') <= N
    BY <1>6, <1>7
  <2> QED BY <1>7, <1>8, <2>1 DEF PictureTypes, P
<1>10. Pictures' = Pictures /\ \A i \in 1..Pictures : Picture(i)' = Picture(i)
  <2> DEFINE picture(i) == IF i <= m THEN shown[i] ELSE pictq[i - m]
             after(i) == IF i <= m + 1 THEN shown'[i] ELSE pictq'[i - (m + 1)]
  <2>1. /\ Pictures = m + n /\ Pictures' = Len(shown') + Len(pictq')
        /\ \A i : Picture(i) = picture(i)
        /\ \A i : Picture(i)' = after(i)
    <3>1. Len(shown') = m + 1
      BY <1>8
    <3> QED BY <3>1 DEF Pictures, Picture, m, n
  <2>2. Pictures' = m + n
    BY <1>6, <1>7, <1>8, <2>1
  <2>3. \A i \in 1..(m + n) : after(i) = picture(i)
    <3> TAKE i \in 1..(m + n)
    <3>1. CASE i \in 1..m
      <4>1. i <= m /\ i <= m + 1
        BY <1>6, <3>1
      <4> QED BY <1>8, <3>1, <4>1
    <3>2. CASE i = m + 1
      <4>1. ~(i <= m) /\ i <= m + 1 /\ i - m = 1
        BY <1>6, <3>2
      <4> QED BY <1>8, <3>2, <4>1
    <3>3. CASE i \notin 1..m /\ i # m + 1
      <4>1. /\ ~(i <= m) /\ ~(i <= m + 1) /\ i - (m + 1) \in 1..(n - 1)
            /\ i - (m + 1) + 1 = i - m
        BY <1>6, <1>7, <3>3
      <4> QED BY <1>7, <4>1
    <3> QED BY <3>1, <3>2, <3>3
  <2> HIDE DEF picture, after
  <2> QED BY <2>1, <2>2, <2>3
<1>11. (WellFormed(film.index) => Placed)'
  <2>1. /\ All("video")' = All("video") /\ ParentLines' = ParentLines
        /\ (WellFormed(film.index))' <=> WellFormed(film.index)
    BY <1>1, Constants
  <2> SUFFICES ASSUME Placed PROVE Placed'
    BY <2>1 DEF FilmInv
  <2> QED BY <1>1, <1>2, <1>5, <1>10, <2>1 DEF Placed
<1> QED BY <1>2, <1>3, <1>4, <1>5, <1>9, <1>11 DEF FilmInv, Types

-----------------------------------------------------------------------------
(* The audio.                                                              *)

(* Numbers of the audio callback.                                          *)
LEMMA AudioNumbers ==
    ASSUME FilmInv
    PROVE  /\ Taken("audio") \in Nat /\ Taken("audio") <= Count("audio")
           /\ Count("audio") \in Nat /\ Len(All("audio")) \in Nat
           /\ Count("audio") <= Len(All("audio"))
           /\ Len(heard) \in Nat /\ Len(audioDecoder) \in Nat
           /\ heard \in Seq(Nat) /\ audioDecoder \in Seq(1..position)
           /\ Accounted \in Nat /\ Accounted <= Taken("audio")
           /\ Len(heard) <= Accounted
<1> DEFINE t == Taken("audio")
           l == Len(queue["audio"].packets)
           c == Count("audio")
           m == Len(heard)
           d == Len(audioDecoder)
           h == InHand({"decode"}, audio)
<1>1. "audio" \in Streams
  BY DEF Streams
<1>2. l \in Nat /\ c \in Nat /\ t + l = c /\ t \in Nat
  BY <1>1, QueueTyped, Counted DEF FilmInv, Queued
<1>3. /\ audioDecoder \in Seq(1..position) /\ d \in Nat
      /\ heard \in Seq(Nat) /\ m \in Nat
  BY LenProperties DEF FilmInv, Types, AudioTypes
<1>4. Accounted = m + d + h /\ Accounted <= t
  BY DEF Accounted, FilmInv, Listened, Silent
<1>5. h \in {0, 1}
  BY InHandNumber
<1>6. Len(All("audio")) \in Nat /\ c <= Len(All("audio"))
  BY Counted DEF FilmInv
<1> HIDE DEF t, l, c, d, h, m
<1>7. t <= c
  BY <1>2
<1>8. Accounted \in Nat /\ m <= Accounted
  BY <1>3, <1>4, <1>5
<1> QED BY <1>2, <1>3, <1>4, <1>6, <1>7, <1>8 DEF t, c, d, m

(* The callback takes a packet into its hand.                              *)
LEMMA AudioGetStep ==
    ASSUME FilmInv, AudioGet
    PROVE  FilmInv'
<1> DEFINE t == Taken("audio")
           m == Len(heard)
           d == Len(audioDecoder)
<1>1. /\ audio = "get" /\ audio' = "decode" /\ exited = "no"
      /\ HasPacket("audio") /\ Take("audio")
      /\ audioPacket' = Head(queue["audio"].packets)
      /\ UNCHANGED <<film, decode, position, finished, video, videoPacket,
                     videoDecoder, frame, line, pictq, shown, audioDecoder,
                     heard, exited>>
  BY DEF AudioGet, Running, decodeVars, videoVars
<1>2. "video" \in Streams /\ "audio" \in Streams /\ "audio" # "video"
  BY DEF Streams
<1>3. /\ Queued("audio")' /\ Taken("audio")' = t + 1
      /\ audioPacket' = All("audio")[t + 1] /\ audioPacket' \in 1..position
      /\ Taken("video")' = Taken("video") /\ Queued("video")'
      /\ queue' \in [Streams -> QueueType]
  <2>1. Types /\ Queued("video") /\ Queued("audio")
    BY DEF FilmInv
  <2> HIDE DEF t
  <2>2. /\ Queued("audio")' /\ Taken("audio")' = Taken("audio") + 1
        /\ Head(queue["audio"].packets) = All("audio")[Taken("audio") + 1]
        /\ Head(queue["audio"].packets) \in 1..position
        /\ \A s \in Streams : s # "audio" =>
              Taken(s)' = Taken(s) /\ (Queued(s) => Queued(s)')
        /\ queue' \in [Streams -> QueueType]
    BY <1>1, <1>2, <2>1, QueuedTake
  <2> QED BY <1>1, <1>2, <2>1, <2>2 DEF t
<1>4. /\ ReadTypes' /\ Opening' /\ Sound' /\ Queues' /\ PictureTypes'
      /\ VideoTypes'
  <2>1. QueueType' = QueueType
    BY <1>1 DEF QueueType
  <2> QED BY <1>1, <1>3, <2>1
      DEF FilmInv, Types, ReadTypes, Opening, Sound, Silent, Packet,
                                  Queues, PictureTypes, VideoTypes
<1>5. AudioTypes'
  <2>1. position \in Nat
    BY Basics DEF FilmInv
  <2>2. audioPacket' \in 0..position /\ audioPacket' > 0
    BY <1>3, <2>1
  <2> QED BY <1>1, <2>2 DEF FilmInv, Types, AudioTypes
<1>6. Accounted' = t + 1
  <2>1. /\ t \in Nat /\ d \in Nat /\ m \in Nat
    BY AudioNumbers
  <2>2. Accounted = m + d + InHand({"decode"}, audio) /\ Accounted = t
    BY <1>1 DEF Accounted, FilmInv, Listened, Silent
  <2>3. Accounted' = m + d + InHand({"decode"}, audio')
    BY <1>1 DEF Accounted
  <2>4. InHand({"decode"}, audio) = 0 /\ InHand({"decode"}, audio') = 1
    BY <1>1 DEF InHand
  <2> HIDE DEF t, d, m
  <2> QED BY <2>1, <2>2, <2>3, <2>4
<1>7. Listened'
  <2>1. All("audio")' = All("audio")
    BY <1>1, Constants
  <2>2. t + 1 <= t + 1
    <3>1. t \in Nat
      BY AudioNumbers
    <3> QED BY <3>1
  <2>3. /\ \A i \in 1..Len(heard) : heard[i] = All("audio")[i]
        /\ \A i \in 1..Len(audioDecoder) :
              audioDecoder[i] = All("audio")[Len(heard) + i]
    BY <1>1 DEF FilmInv, Listened, Silent
  <2> QED BY <1>1, <1>3, <1>6, <2>1, <2>2, <2>3 DEF Listened, Silent
<1>8. Watched' /\ Given' = Given
  <2>1. InHand({"send", "failed"}, video') = InHand({"send", "failed"}, video)
    BY <1>1 DEF InHand
  <2> QED BY <1>1, <1>3, <2>1, WatchedKept DEF FilmInv
<1>9. (WellFormed(film.index) => Placed)'
  BY <1>1, <1>3, <1>8, PlacedKept DEF FilmInv
<1> QED BY <1>3, <1>4, <1>5, <1>7, <1>8, <1>9 DEF FilmInv, Types

(* What the calls of the callback that decode leave alone.                 *)
LEMMA AudioDecodes ==
    ASSUME FilmInv,
           UNCHANGED <<film, decode, position, finished, queue, video,
                       videoPacket, videoDecoder, frame, line, pictq, shown,
                       audioPacket, exited>>,
           AudioTypes', Opening', Sound', Listened'
    PROVE  FilmInv'
<1>1. /\ Queued("video")' /\ Queued("audio")'
      /\ Taken("video")' = Taken("video") /\ Taken("audio")' = Taken("audio")
  BY QueuedSame DEF FilmInv
<1>2. ReadTypes' /\ Queues' /\ PictureTypes' /\ VideoTypes'
  BY DEF FilmInv, Types, ReadTypes, Queues, QueueType, PictureTypes, VideoTypes
<1>3. Watched' /\ Given' = Given
  <2>1. InHand({"send", "failed"}, video') = InHand({"send", "failed"}, video)
    BY DEF InHand
  <2> QED BY <1>1, <2>1, WatchedKept DEF FilmInv
<1>4. (WellFormed(film.index) => Placed)'
  BY <1>1, <1>3, PlacedKept DEF FilmInv
<1> QED BY <1>1, <1>2, <1>3, <1>4 DEF FilmInv, Types

(* The packet that is in hand joins the decoder.                           *)
LEMMA PacketSent ==
    ASSUME FilmInv, audio = "decode"
    PROVE  LET k == Len(heard) + Len(audioDecoder) + 1 IN
           /\ Accounted = k /\ k = Taken("audio")
           /\ audioPacket = All("audio")[k] /\ audioPacket \in 1..position
<1> DEFINE m == Len(heard)
           d == Len(audioDecoder)
<1>1. m \in Nat /\ d \in Nat
  BY AudioNumbers
<1>2. InHand({"decode"}, audio) = 1
  BY DEF InHand
<1>3. Accounted = m + d + 1
  BY <1>2 DEF Accounted
<1>4. Accounted = Taken("audio") /\ audioPacket = All("audio")[Accounted]
  BY DEF FilmInv, Listened, Silent
<1>5. audioPacket \in 1..position
  <2>1. audioPacket \in 0..position /\ audioPacket > 0 /\ position \in Nat
    BY Basics DEF FilmInv, Types, AudioTypes
  <2> QED BY <2>1
<1> QED BY <1>3, <1>4, <1>5

(* A frame is heard before the packet in hand is sent.                     *)
LEMMA AudioFrameStep ==
    ASSUME FilmInv, AudioFrame
    PROVE  FilmInv'
<1> DEFINE m == Len(heard)
           d == Len(audioDecoder)
           k == m + d + 1
           tail == Tail(audioDecoder)
<1>1. /\ audio = "decode" /\ audio' = "get" /\ exited = "no" /\ d > AudioDelay
      /\ heard' = Append(heard, Head(audioDecoder))
      /\ audioDecoder' = Append(tail, audioPacket)
      /\ UNCHANGED <<film, decode, position, finished, queue, video,
                     videoPacket, videoDecoder, frame, line, pictq, shown,
                     audioPacket, exited>>
  BY DEF AudioFrame, Running, SoundReady, decodeVars, videoVars
<1>2. /\ Accounted = k /\ k = Taken("audio")
      /\ audioPacket = All("audio")[k] /\ audioPacket \in 1..position
  BY <1>1, PacketSent
<1>3. /\ m \in Nat /\ d \in Nat /\ heard \in Seq(Nat) /\ position \in Nat
      /\ audioDecoder \in Seq(1..position) /\ AudioDelay \in Nat
      /\ d <= AudioDelay + 1
  <2>1. d <= AudioDelay + 1 /\ Types
    BY DEF FilmInv, Types, AudioTypes
  <2> QED BY <2>1, AudioNumbers, Basics
<1>4. d \in Nat \ {0} /\ audioDecoder # <<>>
  <2>1. d \in Nat \ {0}
    <3> HIDE DEF d
    <3> QED BY <1>1, <1>3
  <2> QED BY <2>1
<1>5. /\ Head(audioDecoder) = audioDecoder[1]
      /\ Head(audioDecoder) \in 1..position /\ Head(audioDecoder) \in Nat
      /\ tail \in Seq(1..position) /\ Len(tail) = d - 1
      /\ \A i \in 1..(d - 1) : tail[i] = audioDecoder[i + 1]
  <2>1. /\ Head(audioDecoder) = audioDecoder[1]
        /\ Head(audioDecoder) \in 1..position
        /\ tail \in Seq(1..position) /\ Len(tail) = d - 1
        /\ \A i \in 1..(d - 1) : tail[i] = audioDecoder[i + 1]
    BY <1>3, <1>4, Tails
  <2> HIDE DEF tail
  <2> QED BY <1>3, <2>1
<1>6. /\ heard' \in Seq(Nat) /\ Len(heard') = m + 1
      /\ heard'[m + 1] = audioDecoder[1]
      /\ \A i \in 1..m : heard'[i] = heard[i]
  <2> DEFINE x == Head(audioDecoder)
  <2>0. x \in Nat
    BY <1>5
  <2> HIDE DEF x
  <2>1. /\ Append(heard, x) \in Seq(Nat) /\ Len(Append(heard, x)) = m + 1
        /\ Append(heard, x)[m + 1] = x
        /\ \A i \in 1..m : Append(heard, x)[i] = heard[i]
    BY <1>3, <2>0, Appends
  <2> QED BY <1>1, <1>5, <2>1 DEF x
<1>7. /\ audioDecoder' \in Seq(1..position) /\ Len(audioDecoder') = d
      /\ audioDecoder'[d] = audioPacket
      /\ \A i \in 1..(d - 1) : audioDecoder'[i] = audioDecoder[i + 1]
  <2> HIDE DEF tail
  <2>1. /\ Append(tail, audioPacket) \in Seq(1..position)
        /\ Len(Append(tail, audioPacket)) = Len(tail) + 1
        /\ Append(tail, audioPacket)[Len(tail) + 1] = audioPacket
        /\ \A i \in 1..Len(tail) : Append(tail, audioPacket)[i] = tail[i]
    BY <1>2, <1>5, Appends
  <2>2. Len(tail) + 1 = d
    <3> HIDE DEF d
    <3> QED BY <1>4, <1>5
  <2> QED BY <1>1, <1>5, <2>1, <2>2
<1>8. AudioTypes' /\ Opening' /\ Sound'
  <2>1. Len(audioDecoder') <= AudioDelay + 1
    BY <1>3, <1>7
  <2> QED BY <1>1, <1>6, <1>7, <2>1
          DEF FilmInv, Types, AudioTypes, Opening, Sound, Silent, Packet
<1>9. Listened'
  <2>1. All("audio")' = All("audio") /\ Taken("audio")' = Taken("audio")
    BY <1>1, Constants, QueuedSame
  <2>2. Accounted' = Taken("audio")
    <3>1. Accounted' = Len(heard') + Len(audioDecoder')
                         + InHand({"decode"}, audio')
      BY DEF Accounted
    <3>2. InHand({"decode"}, audio') = 0
      BY <1>1 DEF InHand
    <3> HIDE DEF m, d
    <3> QED BY <1>2, <1>3, <1>6, <1>7, <3>1, <3>2
  <2>3. ASSUME NEW i \in 1..Len(heard') PROVE heard'[i] = All("audio")[i]
    <3>1. CASE i = m + 1
      <4>1. 1 \in 1..d
        <5> HIDE DEF d
        <5> QED BY <1>4
      <4> QED BY <1>1, <1>6, <3>1, <4>1 DEF FilmInv, Listened, Silent
    <3>2. CASE i # m + 1
      <4>1. i \in 1..m
        <5> HIDE DEF m
        <5> QED BY <1>3, <1>6, <3>2
      <4> QED BY <1>6, <4>1 DEF FilmInv, Listened, Silent
    <3> QED BY <3>1, <3>2
  <2>4. ASSUME NEW i \in 1..Len(audioDecoder')
        PROVE  audioDecoder'[i] = All("audio")[Len(heard') + i]
    <3>1. CASE i = d
      <4>1. Len(heard') + i = k
        <5> HIDE DEF m, d
        <5> QED BY <1>3, <1>6, <3>1
      <4> QED BY <1>2, <1>7, <3>1, <4>1
    <3>2. CASE i # d
      <4>1. i \in 1..(d - 1) /\ i + 1 \in 1..d /\ Len(heard') + i = m + (i + 1)
        <5> HIDE DEF m, d
        <5> QED BY <1>3, <1>6, <1>7, <3>2
      <4> QED BY <1>1, <1>7, <4>1 DEF FilmInv, Listened, Silent
    <3> QED BY <3>1, <3>2
  <2>5. Accounted' <= Taken("audio")
    <3>1. Taken("audio") \in Nat
      BY AudioNumbers
    <3> QED BY <2>2, <3>1
  <2>6. audio' = "get"
    BY <1>1
  <2> QED BY <2>1, <2>2, <2>3, <2>4, <2>5, <2>6 DEF Listened, Silent
<1> QED BY <1>1, <1>8, <1>9, AudioDecodes

(* No frame: the packet is sent, or the callback falls silent.             *)
LEMMA AudioNoFrameStep ==
    ASSUME FilmInv, AudioNoFrame
    PROVE  FilmInv'
<1> DEFINE m == Len(heard)
           d == Len(audioDecoder)
           k == m + d + 1
<1>1. /\ audio = "decode" /\ exited = "no" /\ ~(d > AudioDelay)
      /\ \/ finished /\ audio' = "mute" /\ audioDecoder' = audioDecoder
         \/ /\ audioDecoder' = Append(audioDecoder, audioPacket)
            /\ audio' = "get"
      /\ UNCHANGED <<film, decode, position, finished, queue, video,
                     videoPacket, videoDecoder, frame, line, pictq, shown,
                     audioPacket, heard, exited>>
  BY DEF AudioNoFrame, Running, SoundReady, decodeVars, videoVars
<1>2. /\ Accounted = k /\ k = Taken("audio")
      /\ audioPacket = All("audio")[k] /\ audioPacket \in 1..position
  BY <1>1, PacketSent
<1>3. /\ m \in Nat /\ d \in Nat /\ heard \in Seq(Nat) /\ position \in Nat
      /\ audioDecoder \in Seq(1..position) /\ AudioDelay \in Nat
      /\ Taken("audio") \in Nat
  <2>1. Types
    BY DEF FilmInv
  <2> QED BY <2>1, AudioNumbers, Basics
<1>4. /\ All("audio")' = All("audio") /\ Taken("audio")' = Taken("audio")
      /\ \A i \in 1..m : heard[i] = All("audio")[i]
      /\ \A i \in 1..d : audioDecoder[i] = All("audio")[m + i]
  <2>1. All("audio")' = All("audio") /\ Taken("audio")' = Taken("audio")
    BY <1>1, Constants, QueuedSame
  <2> QED BY <1>1, <2>1 DEF FilmInv, Listened, Silent
<1>5. Accounted' = m + Len(audioDecoder') + InHand({"decode"}, audio')
  BY <1>1 DEF Accounted
<1>6. CASE finished /\ audio' = "mute" /\ audioDecoder' = audioDecoder
  <2>1. AudioTypes' /\ Opening' /\ Sound'
    BY <1>1, <1>6 DEF FilmInv, Types, AudioTypes, Opening, Sound, Silent, Packet
  <2>2. Accounted' <= Taken("audio")
    <3>1. InHand({"decode"}, audio') = 0 /\ Len(audioDecoder') = d
      BY <1>6 DEF InHand
    <3> HIDE DEF m, d
    <3> QED BY <1>2, <1>3, <1>5, <3>1
  <2>3. Listened'
    BY <1>1, <1>4, <1>6, <2>2 DEF Listened, Silent
  <2> QED BY <1>1, <2>1, <2>3, AudioDecodes
<1>7. CASE audioDecoder' = Append(audioDecoder, audioPacket) /\ audio' = "get"
  <2>1. /\ audioDecoder' \in Seq(1..position) /\ Len(audioDecoder') = d + 1
        /\ audioDecoder'[d + 1] = audioPacket
        /\ \A i \in 1..d : audioDecoder'[i] = audioDecoder[i]
    <3>1. /\ Append(audioDecoder, audioPacket) \in Seq(1..position)
          /\ Len(Append(audioDecoder, audioPacket)) = d + 1
          /\ Append(audioDecoder, audioPacket)[d + 1] = audioPacket
          /\ \A i \in 1..d :
                Append(audioDecoder, audioPacket)[i] = audioDecoder[i]
      BY <1>2, <1>3, Appends
    <3> QED BY <1>7, <3>1
  <2>2. AudioTypes' /\ Opening' /\ Sound'
    <3>1. Len(audioDecoder') <= AudioDelay + 1
      <4> HIDE DEF d
      <4> QED BY <1>1, <1>3, <2>1
    <3> QED BY <1>1, <1>7, <2>1, <3>1
            DEF FilmInv, Types, AudioTypes, Opening, Sound, Silent, Packet
  <2>3. Accounted' = Taken("audio") /\ Accounted' <= Taken("audio")
    <3>1. InHand({"decode"}, audio') = 0
      BY <1>7 DEF InHand
    <3> HIDE DEF m, d
    <3> QED BY <1>2, <1>3, <1>5, <2>1, <3>1
  <2>4. ASSUME NEW i \in 1..Len(audioDecoder')
        PROVE  audioDecoder'[i] = All("audio")[m + i]
    <3>1. CASE i = d + 1
      <4>1. m + i = k
        <5> HIDE DEF m, d
        <5> QED BY <1>3, <3>1
      <4> QED BY <1>2, <2>1, <3>1, <4>1
    <3>2. CASE i # d + 1
      <4>1. i \in 1..d
        <5> HIDE DEF d
        <5> QED BY <1>3, <2>1, <3>2
      <4> QED BY <1>4, <2>1, <4>1
    <3> QED BY <3>1, <3>2
  <2>5. Listened'
    BY <1>1, <1>4, <1>7, <2>3, <2>4 DEF Listened, Silent
  <2> QED BY <1>1, <2>2, <2>5, AudioDecodes
<1> QED BY <1>1, <1>6, <1>7

(* A packet is rejected, or the frames held back are lost after it: none   *)
(* is heard any more.                                                      *)
LEMMA AudioSilentStep ==
    ASSUME FilmInv, AudioReject \/ AudioDrain
    PROVE  FilmInv'
<1> DEFINE m == Len(heard)
           d == Len(audioDecoder)
<1>1. /\ audio \in {"decode", "rejected", "draining"}
      /\ audio' \in {"rejected", "draining", "mute"}
      /\ exited = "no"
      /\ Silent \/ ~Packet(audioPacket).good
      /\ UNCHANGED <<film, decode, position, finished, queue, video,
                     videoPacket, videoDecoder, frame, line, pictq, shown,
                     audioPacket, heard, exited>>
  BY DEF AudioReject, AudioDrain, Running, decodeVars, videoVars, Silent
<1>2. /\ m \in Nat /\ d \in Nat /\ heard \in Seq(Nat) /\ position \in Nat
      /\ audioDecoder \in Seq(1..position) /\ AudioDelay \in Nat
      /\ Taken("audio") \in Nat /\ Accounted <= Taken("audio")
      /\ d <= AudioDelay + 1
  <2>1. Types /\ d <= AudioDelay + 1
    BY DEF FilmInv, Types, AudioTypes
  <2> QED BY <2>1, AudioNumbers, Basics
<1>3. \/ audioDecoder' = audioDecoder
      \/ audioDecoder' = Tail(audioDecoder) /\ audioDecoder # <<>>
  <2>1. CASE AudioReject
    <3>1. SoundReady => audioDecoder # <<>>
      <4>1. audioDecoder = <<>> => d = 0
        OBVIOUS
      <4> HIDE DEF d
      <4>2. SoundReady => d # 0
        BY <1>2 DEF SoundReady, d
      <4> QED BY <4>1, <4>2
    <3> QED BY <2>1, <3>1 DEF AudioReject
  <2>2. CASE AudioDrain
    BY <2>2 DEF AudioDrain
  <2> QED BY <2>1, <2>2
<1>4. audioDecoder' \in Seq(1..position) /\ Len(audioDecoder') \in {d, d - 1}
  <2>1. CASE audioDecoder' = audioDecoder
    BY <1>2, <2>1
  <2>2. CASE audioDecoder' = Tail(audioDecoder) /\ audioDecoder # <<>>
    <3>1. /\ Tail(audioDecoder) \in Seq(1..position)
          /\ Len(Tail(audioDecoder)) = d - 1
      BY <1>2, <2>2, Tails
    <3> QED BY <2>2, <3>1
  <2> QED BY <1>3, <2>1, <2>2
<1>5. AudioTypes' /\ Opening'
  <2>1. Len(audioDecoder') <= AudioDelay + 1
    <3> HIDE DEF d
    <3> QED BY <1>2, <1>4
  <2> QED BY <1>1, <1>4, <2>1 DEF FilmInv, Types, AudioTypes, Opening
<1>6. Sound'
  <2>1. finished \/ ~Packet(audioPacket).good
    BY <1>1 DEF FilmInv, Sound
  <2> QED BY <1>1, <2>1 DEF Sound, Packet
<1>7. Listened'
  <2>1. All("audio")' = All("audio") /\ Taken("audio")' = Taken("audio")
    BY <1>1, Constants, QueuedSame
  <2>2. Accounted' <= Taken("audio")
    <3>1. InHand({"decode"}, audio') = 0 /\ InHand({"decode"}, audio) \in {0, 1}
      BY <1>1 DEF InHand
    <3>2. /\ Accounted = m + d + InHand({"decode"}, audio)
          /\ Accounted' = m + Len(audioDecoder') + InHand({"decode"}, audio')
      BY <1>1 DEF Accounted
    <3> HIDE DEF m, d
    <3> QED BY <1>2, <1>4, <3>1, <3>2
  <2>3. \A i \in 1..Len(heard') : heard'[i] = All("audio")[i]
    BY <1>1 DEF FilmInv, Listened
  <2>4. Silent' /\ audio' # "decode"
    BY <1>1 DEF Silent
  <2> QED BY <2>1, <2>2, <2>3, <2>4 DEF Listened
<1> QED BY <1>1, <1>5, <1>6, <1>7, AudioDecodes

-----------------------------------------------------------------------------
(* decode_thread reads a packet.                                           *)

(* The packet read is of the film and joins its queue.                     *)
LEMMA QueuesRead ==
    ASSUME FilmInv, DecodeRead
    PROVE  /\ Queues' /\ position \in Nat /\ position' = position + 1
           /\ position' \in 0..Len(film.packets)
<1> DEFINE p == position'
           T == 1..p
<1>1. /\ position \in Nat /\ Len(film.packets) \in Nat /\ film \in Films
      /\ DOMAIN film.packets = 1..Len(film.packets)
      /\ position' = position + 1 /\ position < Len(film.packets)
  BY Basics DEF FilmInv, DecodeRead
<1>2. /\ p \in 1..Len(film.packets) /\ p \in T /\ 1..position \subseteq T
      /\ p \in 0..Len(film.packets)
  <2>1. p \in Nat /\ position <= p
    BY <1>1
  <2>2. 1..position \subseteq T
    BY <1>1, <2>1, RangeWidens
  <2> QED BY <1>1, <2>2
<1>3. queue' = [s \in Streams |->
                  IF Packet(p).stream = s
                  THEN [packets |-> Append(queue[s].packets, p),
                        size |-> queue[s].size + Packet(p).size]
                  ELSE queue[s]]
  BY DEF DecodeRead
<1>4. Packet(p).size \in Nat
  BY <1>1, <1>2, PacketSizes
<1> HIDE DEF p, T
<1>5. ASSUME NEW s \in Streams
      PROVE  queue'[s] \in [packets : Seq(T), size : Int]
  <2> DEFINE list == queue[s].packets
             size == queue[s].size
  <2>1. /\ list \in Seq(1..position) /\ size \in Int
        /\ queue[s] = [packets |-> list, size |-> size]
    BY DEF FilmInv, Types, Queues, QueueType
  <2> HIDE DEF list, size
  <2>2. list \in Seq(T)
    BY <1>2, <2>1, Widens
  <2>3. Append(list, p) \in Seq(T)
    BY <1>2, <2>2, Appends
  <2>4. size + Packet(p).size \in Int
    BY <1>4, <2>1
  <2>5. CASE Packet(p).stream = s
    <3>1. queue'[s] = [packets |-> Append(list, p),
                       size |-> size + Packet(p).size]
      BY <1>3, <2>5 DEF list, size
    <3> QED BY <2>3, <2>4, <3>1
  <2>6. CASE Packet(p).stream # s
    <3>1. queue'[s] = [packets |-> list, size |-> size]
      BY <1>3, <2>1, <2>6
    <3> QED BY <2>1, <2>2, <3>1
  <2> QED BY <2>5, <2>6
<1>6. queue' \in [Streams -> [packets : Seq(T), size : Int]]
  BY <1>3, <1>5
<1>7. Queues'
  BY <1>6 DEF Queues, QueueType, T, p
<1> QED BY <1>1, <1>2, <1>7 DEF p

(* Reading a packet disturbs neither decoder.                              *)
LEMMA DecodeReadStep ==
    ASSUME FilmInv, DecodeRead
    PROVE  FilmInv'
<1>1. /\ film' = film /\ exited = "no" /\ exited' = exited
      /\ decode = "read" /\ decode' = "check" /\ finished' = finished
      /\ video' = video \/ (video = "asleep" /\ video' = "get")
      /\ audio' = audio \/ (audio = "asleep" /\ audio' = "get")
      /\ UNCHANGED <<videoPacket, videoDecoder, frame, line, pictq, shown,
                     audioPacket, audioDecoder, heard>>
  BY DEF DecodeRead, Running, Woken
<1>2. /\ Queues' /\ position \in Nat /\ position' = position + 1
      /\ position' \in 0..Len(film.packets) /\ position' \in Nat
      /\ position <= position'
  <2>1. /\ Queues' /\ position \in Nat /\ position' = position + 1
        /\ position' \in 0..Len(film.packets)
    BY QueuesRead
  <2> QED BY <2>1
<1>3. /\ Queued("video")' /\ Queued("audio")'
      /\ Taken("video")' = Taken("video") /\ Taken("audio")' = Taken("audio")
  <2>1. "video" \in Streams /\ "audio" \in Streams
    BY DEF Streams
  <2> QED BY <2>1, QueuedRead DEF FilmInv
<1>4. ReadTypes' /\ Opening' /\ Sound' /\ PictureTypes'
  BY <1>1, <1>2
      DEF FilmInv, Types, ReadTypes, Opening, Sound, Silent, Packet,
          PictureTypes
<1>5. VideoTypes'
  <2>1. /\ video' \in {"off", "get", "asleep", "send", "receive",
                       "queue child", "child queued", "queue parent",
                       "failed", "ended"}
        /\ video' \in {"off", "get", "asleep", "send"} =>
              Len(videoDecoder) <= VideoDelay
    BY <1>1 DEF FilmInv, Types, VideoTypes
  <2> QED BY <1>1, <1>2, <2>1, VideoTypesKept DEF FilmInv
<1>6. AudioTypes'
  BY <1>1, <1>2, AudioTypesKept DEF FilmInv
<1>7. Watched' /\ Given' = Given
  <2>1. InHand({"send", "failed"}, video') = InHand({"send", "failed"}, video)
    BY <1>1 DEF InHand
  <2> QED BY <1>1, <1>3, <2>1, WatchedKept DEF FilmInv
<1>8. Listened'
  BY <1>1, <1>3, ListenedKept DEF FilmInv
<1>9. (WellFormed(film.index) => Placed)'
  <2>1. \/ video' = video
        \/ video \notin Queueing /\ video' \notin Queueing
    BY <1>1 DEF Queueing
  <2> QED BY <1>1, <1>7, <2>1, PlacedKept DEF FilmInv
<1> QED BY <1>2, <1>3, <1>4, <1>5, <1>6, <1>7, <1>8, <1>9 DEF FilmInv, Types

-----------------------------------------------------------------------------

(* Nothing is read, decoded or shown at first.                             *)
LEMMA InitFilmInv == Init => FilmInv
<1> SUFFICES ASSUME Init PROVE FilmInv
  OBVIOUS
<1>1. /\ film \in Films /\ position = 0 /\ film.index \in Seq(BOOLEAN)
      /\ film.packets \in Seq([stream : film.streams, size : Nat \ {0},
                               good : BOOLEAN])
  BY PlayerAssumption DEF Init
<1>2. Len(film.packets) \in Nat /\ Len(film.index) \in Nat
  BY <1>1, LenProperties
<1>3. /\ \A S : <<>> \in Seq(S)
      /\ Len(<<>>) = 0
  BY EmptySeq
<1>4. Types
  <2>1. 0 \in 0..Len(film.packets) /\ 0 \in 0..Len(film.index) /\ 0 \in 0..0
    BY <1>2
  <2>2. ReadTypes
    BY <1>1, <2>1 DEF Init, ReadTypes
  <2>3. [packets |-> <<>>, size |-> 0] \in QueueType
    BY <1>3 DEF QueueType
  <2>4. Queues
    BY <2>3 DEF Init, Queues
  <2>5. VideoTypes
    <3>1. Len(<<>>) <= VideoDelay + 1 /\ Len(<<>>) <= VideoDelay
      BY <1>3, PlayerAssumption
    <3>2. /\ video = "off" /\ videoPacket = 0 /\ frame = 0 /\ line = 0
          /\ videoDecoder = <<>> /\ position = 0
      BY DEF Init
    <3> QED BY <1>3, <2>1, <3>1, <3>2 DEF VideoTypes
  <2>6. PictureTypes
    <3>1. Len(<<>>) <= N
      BY <1>3, PlayerAssumption
    <3>2. pictq = <<>> /\ shown = <<>>
      BY DEF Init
    <3> QED BY <1>3, <3>1, <3>2 DEF PictureTypes
  <2>7. AudioTypes
    <3>1. Len(<<>>) <= AudioDelay + 1
      BY <1>3, PlayerAssumption
    <3>2. /\ audio = "off" /\ audioPacket = 0 /\ audioDecoder = <<>>
          /\ heard = <<>> /\ position = 0
      BY DEF Init
    <3> QED BY <1>3, <2>1, <3>1, <3>2 DEF AudioTypes
  <2> QED BY <2>2, <2>4, <2>5, <2>6, <2>7 DEF Types
<1>5. ASSUME NEW s \in Streams
      PROVE  /\ Count(s) = 0 /\ Taken(s) = 0 /\ queue[s].packets = <<>>
             /\ Queued(s)
  <2>1. queue[s].packets = <<>> /\ queue[s].size = 0
    BY DEF Init
  <2>2. PacketsOf(s) = <<>>
    <3>1. 0 \in 0..Len(film.packets)
      BY <1>2
    <3> QED BY <1>1, <3>1, ListTyped DEF PacketsOf
  <2>3. Count(s) = 0 /\ Taken(s) = 0
    BY <1>3, <2>1, <2>2 DEF Count, Taken
  <2>4. Bytes(s)[0] \in Nat
    <3>1. 0 \in 0..Len(All(s))
      BY <1>1, AllTyped
    <3> QED BY <1>1, <3>1, BytesNext
  <2>5. queue[s].size = Bytes(s)[0] - Bytes(s)[0]
    BY <2>1, <2>4
  <2>6. \A i \in 1..Len(queue[s].packets) :
          queue[s].packets[i] = All(s)[Taken(s) + i]
    BY <1>3, <2>1
  <2> QED BY <2>1, <2>3, <2>5, <2>6 DEF Queued
<1>6. "video" \in Streams /\ "audio" \in Streams
  BY DEF Streams
<1>7. Given = 0
  <2>1. InHand({"send", "failed"}, video) = 0 /\ videoDecoder = <<>>
    BY DEF Init, InHand
  <2> QED BY <1>3, <1>5, <1>6, <2>1 DEF Given
<1>8. Watched
  <2>1. videoDecoder = <<>>
    BY DEF Init
  <2> QED BY <1>3, <1>5, <1>6, <1>7, <2>1 DEF Watched
<1>9. Listened
  <2>1. /\ InHand({"decode"}, audio) = 0 /\ audioDecoder = <<>> /\ heard = <<>>
        /\ audio = "off"
    BY DEF Init, InHand
  <2>2. Accounted = 0
    BY <1>3, <2>1 DEF Accounted
  <2> QED BY <1>3, <1>5, <1>6, <2>1, <2>2 DEF Listened, Silent
<1>10. Placed
  <2>1. Pictures = 0 /\ line = 0 /\ video = "off" /\ exited = "no"
    <3>1. shown = <<>> /\ pictq = <<>>
      BY DEF Init
    <3>2. Pictures = 0
      BY <1>3, <3>1 DEF Pictures
    <3> QED BY <3>2 DEF Init
  <2>2. ParentLines[0] = 0
    BY <1>1, ParentNext
  <2> QED BY <1>7, <2>1, <2>2 DEF Placed
<1>11. Opening /\ Sound
  BY DEF Init, Opening, Sound, Silent, Packet
<1> QED BY <1>4, <1>5, <1>6, <1>8, <1>9, <1>10, <1>11 DEF FilmInv

(* Every step keeps the frames in order.                                   *)
LEMMA NextFilmInv == FilmInv /\ [Next]_vars => FilmInv'
<1> SUFFICES ASSUME FilmInv, [Next]_vars PROVE FilmInv'
  OBVIOUS
<1> USE DEF Running, decodeVars, videoVars, audioVars
<1>1. CASE OpenVideo
  <2>1. /\ UNCHANGED <<film, position, queue, videoPacket, videoDecoder, frame,
                       line, pictq, shown, audioPacket, audioDecoder, heard>>
        /\ ReadTypes' /\ Opening' /\ Sound' /\ audio' = audio
        /\ exited' = exited /\ exited = "no"
    BY <1>1
        DEF OpenVideo, FilmInv, Types, ReadTypes, Opening, Sound, Silent, Packet
  <2>2. \/ video' = video
        \/ /\ Len(videoDecoder) <= VideoDelay
           /\ video \in {"off", "get", "asleep", "receive"}
           /\ video' \in {"get", "asleep", "ended"}
    BY <1>1 DEF OpenVideo, FilmInv, Types, VideoTypes, Opening
  <2> QED BY <2>1, <2>2, Quiet
<1>2. CASE OpenAudio
  <2>1. /\ UNCHANGED <<film, position, queue, videoPacket, videoDecoder, frame,
                       line, pictq, shown, audioPacket, audioDecoder, heard>>
        /\ ReadTypes' /\ Opening' /\ Sound' /\ video' = video
        /\ exited' = exited /\ exited = "no"
        /\ \/ audio' = audio
           \/ audio \in {"off", "get", "asleep"} /\ audio' \in {"get", "asleep"}
    BY <1>2
        DEF OpenAudio, FilmInv, Types, ReadTypes, Opening, Sound, Silent, Packet
  <2> QED BY <2>1, Quiet
<1>3. CASE DecodeCheck \/ DecodeRetry \/ DecodeFinish
  <2>1. /\ UNCHANGED <<film, position, queue, videoPacket, videoDecoder, frame,
                       line, pictq, shown, audioPacket, audioDecoder, heard>>
        /\ video' = video /\ audio' = audio
        /\ exited' = exited /\ exited = "no"
    BY <1>3 DEF DecodeCheck, DecodeRetry, DecodeFinish
  <2>2. ReadTypes' /\ Opening' /\ Sound'
    BY <1>3 DEF DecodeCheck, DecodeRetry, DecodeFinish, FilmInv, Types,
                ReadTypes, Opening,
                Sound, Silent, Packet
  <2> QED BY <2>1, <2>2, Quiet
<1>4. CASE DecodeRead
  BY <1>4, DecodeReadStep
<1>5. CASE VideoGet
  BY <1>5, VideoGetStep
<1>6. CASE VideoGetNone \/ VideoDrained
  <2>1. /\ UNCHANGED <<film, position, queue, videoPacket, videoDecoder, frame,
                       line, pictq, shown, audioPacket, audioDecoder, heard>>
        /\ ReadTypes' /\ Opening' /\ Sound' /\ audio' = audio
        /\ exited' = exited /\ exited = "no"
    BY <1>6 DEF VideoGetNone, VideoDrained, FilmInv, Types, ReadTypes, Opening,
                Sound, Silent, Packet
  <2>2. /\ video \in {"off", "get", "asleep", "receive"}
        /\ video' \in {"get", "asleep", "ended"}
    BY <1>6 DEF VideoGetNone, VideoDrained
  <2>3. Len(videoDecoder) <= VideoDelay
    <3>1. CASE VideoGetNone
      BY <3>1 DEF VideoGetNone, FilmInv, Types, VideoTypes
    <3>2. CASE VideoDrained
      <4> DEFINE d == Len(videoDecoder)
      <4>1. ~(d > VideoDelay) /\ d \in Nat /\ VideoDelay \in Nat
        BY <3>2, VideoNumbers, PlayerAssumption DEF VideoDrained, FrameReady
      <4> HIDE DEF d
      <4>2. d <= VideoDelay
        BY <4>1
      <4> QED BY <4>2 DEF d
    <3> QED BY <1>6, <3>1, <3>2
  <2> QED BY <2>1, <2>2, <2>3, Quiet
<1>7. CASE VideoSend
  BY <1>7, VideoSendStep
<1>8. CASE VideoReceive
  BY <1>8, VideoReceiveStep
<1>9. CASE QueueChild \/ QueueParent
  BY <1>9, QueueStep
<1>10. CASE ReadParentLine
  BY <1>10, ParentLineKeeps
<1>11. CASE AudioGet
  BY <1>11, AudioGetStep
<1>12. CASE AudioGetNone
  <2>1. /\ UNCHANGED <<film, position, queue, videoPacket, videoDecoder, frame,
                       line, pictq, shown, audioPacket, audioDecoder, heard>>
        /\ ReadTypes' /\ Opening' /\ Sound' /\ video' = video
        /\ exited' = exited /\ exited = "no"
        /\ audio \in {"off", "get", "asleep"} /\ audio' \in {"get", "asleep"}
    BY <1>12
        DEF AudioGetNone, FilmInv, Types, ReadTypes, Opening, Sound, Silent,
            Packet
  <2> QED BY <2>1, Quiet
<1>13. CASE AudioFrame
  BY <1>13, AudioFrameStep
<1>14. CASE AudioNoFrame
  BY <1>14, AudioNoFrameStep
<1>17. CASE AudioReject \/ AudioDrain
  BY <1>17, AudioSilentStep
<1>15. CASE ShowPicture
  BY <1>15, ShowPictureStep
<1>16. CASE UserQuits \/ UNCHANGED vars
  <2>1. /\ UNCHANGED <<film, position, queue, videoPacket, videoDecoder, frame,
                       line, pictq, shown, audioPacket, audioDecoder, heard>>
        /\ ReadTypes' /\ Opening' /\ Sound' /\ video' = video /\ audio' = audio
        /\ exited' = exited \/ (exited = "no" /\ exited' \in {"no", "user"})
    BY <1>16
        DEF UserQuits, vars, FilmInv, Types, ReadTypes, Opening, Sound,
            Silent, Packet
  <2> QED BY <2>1, Quiet
<1> QED
  BY <1>1, <1>2, <1>3, <1>4, <1>5, <1>6, <1>7, <1>8, <1>9, <1>10, <1>11,
     <1>12, <1>13, <1>14, <1>15, <1>16, <1>17
  DEF Next, DecodeThread, VideoThread, AudioCallback

-----------------------------------------------------------------------------
(* The types, with sizes of the queues that are not negative.              *)
LEMMA FilmTypeOK == ASSUME FilmInv PROVE TypeOK
<1>1. ASSUME NEW s \in Streams
      PROVE  queue[s].size \in Nat /\ queue[s].packets \in Seq(1..position)
  <2> DEFINE t == Taken(s)
             c == Count(s)
             l == Len(queue[s].packets)
             a == Len(All(s))
  <2>1. Types /\ Queued(s) /\ film \in Films
    BY Basics DEF FilmInv, Streams
  <2>2. /\ queue[s].packets \in Seq(1..position) /\ l \in Nat /\ t + l = c
        /\ t \in Nat /\ c \in Nat /\ a \in Nat /\ c <= a
    BY <2>1, QueueTyped, Counted DEF Queued
  <2> HIDE DEF t, c, l, a
  <2>3. t \in 0..a /\ c \in t..a /\ c \in 0..a
    BY <2>2
  <2>4. Bytes(s)[t] <= Bytes(s)[c] /\ Bytes(s)[t] \in Nat /\ Bytes(s)[c] \in Nat
    BY <2>1, <2>3, BytesGrow, BytesNext DEF a
  <2>5. queue[s].size = Bytes(s)[c] - Bytes(s)[t]
    BY <2>1 DEF Queued, t, c
  <2>6. queue[s].size \in Nat
    BY <2>4, <2>5
  <2> QED BY <2>2, <2>6
<1> QED BY <1>1 DEF FilmInv, Types, ReadTypes, VideoTypes, PictureTypes,
                    AudioTypes, TypeOK

(* The pictures shown are the first ones queued.                           *)
LEMMA FilmShown == ASSUME FilmInv PROVE ShownByIndex
<1> SUFFICES ASSUME WellFormed(film.index), NEW i \in DOMAIN shown
             PROVE  shown[i] = [line |-> i,
                                frame |-> PacketsOf("video")
                                             [ParentLines[i - 1] + 1]]
  BY FilmTypeOK, Zenon DEF ShownByIndex
<1> DEFINE m == Len(shown)
           n == Len(pictq)
           M == Len(film.index)
           p == ParentLines[i - 1]
           t == Taken("video")
           c == Count("video")
           d == Len(videoDecoder)
           h == InHand({"send", "failed"}, video)
<1>1. Placed
  BY DEF FilmInv
<1>2. m \in Nat /\ n \in Nat /\ DOMAIN shown = 1..m
  BY LenProperties DEF FilmInv, Types, PictureTypes
<1>3. film \in Films /\ M \in Nat /\ line \in 0..M
  BY Basics DEF FilmInv, Types, VideoTypes
<1>4. Pictures = m + n /\ Picture(i) = IF i <= m THEN shown[i]
                                       ELSE pictq[i - m]
  BY DEF Pictures, Picture
<1>5. Pictures = line \/ Pictures = line - 1
  BY <1>1 DEF Placed
<1> HIDE DEF m, n, M
<1>6. i \in 1..(m + n) /\ i <= m /\ i - 1 \in 0..M
  BY <1>2, <1>3, <1>4, <1>5
<1>7. p + 1 <= Given /\ shown[i] = [line |-> i, frame |-> All("video")[p + 1]]
  BY <1>1, <1>4, <1>6 DEF Placed
<1>8. p \in Nat
  BY <1>3, <1>6, ParentNext DEF M
<1>9. t \in Nat /\ d \in Nat /\ c \in Nat /\ t <= c /\ Given = t - h - d
  BY VideoNumbers
<1>10. h \in {0, 1}
  BY InHandNumber
<1>11. All("video")[p + 1] = PacketsOf("video")[p + 1]
  <2>1. p + 1 \in 1..c
    <3> HIDE DEF p, t, d, h, c
    <3> QED BY <1>7, <1>8, <1>9, <1>10
  <2>2. \A k \in 1..c : All("video")[k] = PacketsOf("video")[k]
    BY Counted DEF FilmInv
  <2> HIDE DEF c, p
  <2> QED BY <2>1, <2>2
<1> QED BY <1>7, <1>11

(* A line is missing only when the lines kept are used up.                 *)
LEMMA FilmSuffices == ASSUME FilmInv PROVE IndexSuffices
<1> SUFFICES ASSUME exited = "index", WellFormed(film.index)
             PROVE  ParentLines[Len(film.index)] + VideoDelay
                       < Len(PacketsUpTo("video")[videoPacket])
  BY DEF IndexSuffices
<1> DEFINE p == ParentLines[Len(film.index)]
           t == Taken("video")
           c == Count("video")
           a == Len(All("video"))
<1>1. p < Given /\ Given + VideoDelay <= t
  BY DEF FilmInv, Placed
<1>2. /\ t \in Nat /\ c \in Nat /\ t <= c /\ Given \in Nat
      /\ a \in Nat /\ c <= a
  BY VideoNumbers, Counted DEF FilmInv
<1>3. /\ film \in Films /\ p \in Nat /\ VideoDelay \in Nat
      /\ Len(film.packets) \in Nat
  <2>1. film \in Films /\ VideoDelay \in Nat /\ Len(film.index) \in Nat
        /\ Len(film.packets) \in Nat
    BY Basics DEF FilmInv
  <2>2. Len(film.index) \in 0..Len(film.index)
    BY <2>1
  <2> QED BY <2>1, <2>2, ParentNext
<1>4. t \in 1..a /\ t > 0
  <2> HIDE DEF p, t, c, a
  <2> QED BY <1>1, <1>2, <1>3
<1>5. videoPacket = All("video")[t]
  BY <1>4 DEF FilmInv, Watched
<1>6. Len(PacketsUpTo("video")[videoPacket]) = t
  <2>1. Len(film.packets) \in 0..Len(film.packets)
    BY <1>3
  <2> QED BY <1>3, <1>4, <1>5, <2>1, ListNumbered DEF All
<1>7. p + VideoDelay < t
  <2> HIDE DEF p, t
  <2> QED BY <1>1, <1>2, <1>3
<1> QED BY <1>6, <1>7

(* A prefix, element by element.                                           *)
LEMMA PrefixPointwise ==
    ASSUME NEW S, NEW s \in Seq(S), NEW t \in Seq(S), Len(s) <= Len(t),
           \A i \in 1..Len(s) : s[i] = t[i]
    PROVE  IsPrefix(s, t)
<1> DEFINE n == Len(s)
           a == SubSeq(s, 1, n)
           b == SubSeq(t, 1, n)
<1>1. n \in Nat /\ Len(t) \in Nat
  OBVIOUS
<1>2. \A i \in 1..n : s[i] \in S /\ t[i] \in S
  BY <1>1, ElementOfSeq
<1>3. a \in Seq(S) /\ b \in Seq(S) /\ Len(a) = n /\ Len(b) = n
      /\ \A i \in 1..n : a[i] = s[i] /\ b[i] = t[i]
  BY <1>1, <1>2, SubSeqProperties
<1>4. a = b
  <2> HIDE DEF a, b, n
  <2>1. \A i \in 1..Len(a) : a[i] = b[i]
    BY <1>3 DEF n
  <2> QED BY <1>3, <2>1, SeqEqual
<1> QED BY <1>4 DEF IsPrefix

(* What is heard is the first of what was read.                            *)
LEMMA FilmHeard == ASSUME FilmInv PROVE HeardInOrder
<1> DEFINE m == Len(heard)
           t == Taken("audio")
           c == Count("audio")
<1>1. /\ m \in Nat /\ t \in Nat /\ c \in Nat /\ t <= c
      /\ Accounted \in Nat /\ Accounted <= t /\ m <= Accounted
      /\ heard \in Seq(Nat)
  BY AudioNumbers
<1>2. /\ PacketsOf("audio") \in Seq(Nat)
      /\ \A k \in 1..c : All("audio")[k] = PacketsOf("audio")[k]
  BY Counted DEF FilmInv
<1>3. \A i \in 1..m : heard[i] = All("audio")[i]
  BY DEF FilmInv, Listened, Silent
<1> HIDE DEF m, t, c
<1>4. m <= c
  BY <1>1
<1>5. ASSUME NEW i \in 1..m PROVE heard[i] = PacketsOf("audio")[i]
  <2>1. i \in 1..c
    BY <1>1, <1>4
  <2> QED BY <1>2, <1>3, <2>1
<1>6. IsPrefix(heard, PacketsOf("audio"))
  BY <1>1, <1>2, <1>4, <1>5, PrefixPointwise DEF m, c, Count
<1> QED BY <1>6 DEF HeardInOrder, FilmInv, Sound, Silent, Packet

(* The invariant.                                                          *)
LEMMA FilmAlways == Spec => []FilmInv
BY InitFilmInv, NextFilmInv, PTL DEF Spec

(* With any index as the transcoder writes it, for all films and decoders  *)
(* that hold back any number of frames, the i-th picture shown is that of  *)
(* the i-th line: child pictures in the place of the frames dropped.       *)
THEOREM ShownCorrect == Spec => []ShownByIndex
<1>1. FilmInv => ShownByIndex
  BY FilmShown
<1> QED BY <1>1, FilmAlways, PTL

(* The process does not exit for want of a line before the decoder has     *)
(* given more frames than the index keeps.                                 *)
THEOREM IndexSufficesCorrect == Spec => []IndexSuffices
<1>1. FilmInv => IndexSuffices
  BY FilmSuffices
<1> QED BY <1>1, FilmAlways, PTL

(* The sound that is heard is that of the packets of the film, in order    *)
(* and without a gap, and ends only when decode_thread has ended or the    *)
(* decoder has rejected a packet.                                          *)
THEOREM HeardCorrect == Spec => []HeardInOrder
<1>1. FilmInv => HeardInOrder
  BY FilmHeard
<1> QED BY <1>1, FilmAlways, PTL
=============================================================================
