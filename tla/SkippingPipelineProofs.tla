----------------------- MODULE SkippingPipelineProofs -----------------------
(***************************************************************************)
(* Proofs about the transcoder that drops frames: what its index file says *)
(* of the pictures of the input and of the frames given to the encoder,    *)
(* for any file, any size of the queues, any delay of the codecs, and      *)
(* whichever stage throws at any moment.                                   *)
(*                                                                         *)
(* The invariant has a part about the stages and their queues (Control,    *)
(* Queuing, Data), one about what decode hands on (Reading), one about the *)
(* frames in the hands of processFrames (Shape, Ordered, Lined and         *)
(* Spaced), and one about a run in which no stage fails (Flowing): nothing *)
(* is lost on the way from the file to the output.                         *)
(***************************************************************************)
EXTENDS SkippingPipeline, SequenceTheorems, WellFoundedInduction, TLAPS

-----------------------------------------------------------------------------
(* The inductive invariant                                                 *)

Packets == [stream : Nat, pts : Nat, good : BOOLEAN]
Decoded == [pts : Nat, dts : {None}, child : {None}]
Picture == [pts : Int, dts : Nat, child : Nat \cup {None}]
Lines == [pts : Nat, kept : BOOLEAN]

P == at["processFrames"]
D == at["decode"]

(* Where the stages are and what became of the queues.  A handler quits    *)
(* frames first, so that a refused push to processed, or a packet queue    *)
(* that was quit, means that frames is given up too.                       *)
Quits == {<<"frames", "packets">>, <<"packets">>,
          <<"frames", "packets", "processed">>, <<"packets", "processed">>,
          <<"processed">>}

AllPlaces == {"read", "pop", "send", "receive", "decide", "index", "push",
              "drain", "flush pop", "flush drain", "catch", "done"}

Control ==
    /\ at \in [Stages -> AllPlaces]
    /\ at["demultiplex"] \in {"read", "catch", "done"}
    /\ D \in {"pop", "send", "receive", "catch", "done"}
    /\ P \in {"pop", "decide", "index", "push", "catch", "done"}
    /\ at["encode"] \in {"pop", "drain", "flush pop", "flush drain", "catch",
                         "done"}
    /\ quitting \in [Stages -> Quits \cup {<<>>}]
    /\ \A s \in Stages : at[s] = "catch" =>
          /\ quitting[s] \in Quits
          /\ Head(quitting[s]) # "frames" => chan["frames"].quit

Queuing ==
    /\ DOMAIN chan = Queues
    /\ \A q \in Queues :
          /\ chan[q] = [items |-> chan[q].items,
                        finished |-> chan[q].finished, quit |-> chan[q].quit]
          /\ chan[q].finished \in BOOLEAN /\ chan[q].quit \in BOOLEAN
          /\ Len(chan[q].items) <= QueueMax
          /\ chan[q].quit => chan["frames"].quit
    /\ chan["packets"].items \in Seq(Packets)
    /\ chan["frames"].items \in Seq(Decoded)
    /\ chan["processed"].items \in Seq(Picture)
    /\ chan["packets"].finished => at["demultiplex"] = "done"
    /\ chan["frames"].finished => D = "done"
    /\ chan["processed"].finished => P = "done"

FileData == file \in Files /\ position \in 0..Len(file)

DecodeData ==
    /\ D \in {"send", "receive"} => packet \in Packets
    /\ sent \in BOOLEAN
    /\ decoder \in Seq(Nat) /\ Len(decoder) <= DecoderDelay + 1
    /\ D \in {"pop", "send"} => Len(decoder) <= DecoderDelay
    /\ decoded \in Seq(Nat)

ProcessData ==
    /\ ready \in Seq(Picture) /\ handed \in Seq(Picture)
    /\ index \in Seq(Lines)
    /\ nextPts \in Int /\ deltaPts \in Int /\ skippedCount \in Nat

EncodeData ==
    /\ encoder \in Seq(Int) /\ Len(encoder) <= EncoderDelay + 1
    /\ at["encode"] = "pop" => Len(encoder) <= EncoderDelay
    /\ flushed \in {0, 1}

Data == FileData /\ DecodeData /\ ProcessData /\ EncodeData

(* While no handler has given up the frame queue, the frames that entered  *)
(* it and those inside the decoder are the pictures among the packets that *)
(* left the packet queue.                                                  *)

InDecoder(n) ==
    LET pictures == PicturesUpTo(file)[n] IN
    /\ Len(pictures) = Len(decoded) + Len(decoder)
    /\ \A i \in 1..Len(decoded) : pictures[i] = decoded[i]
    /\ \A i \in 1..Len(decoder) : pictures[Len(decoded) + i] = decoder[i]

(* The first n packets of the file have left the packet queue.             *)
Queued(n) ==
    LET items == chan["packets"].items IN
    /\ n + Len(items) = position
    /\ \A j \in 1..Len(items) : items[j] = file[n + j]

(* What decode made of them; the last one is in its hands, or the decoder  *)
(* has answered it with an error.                                          *)
Consumed(n) ==
    \/ (D = "pop" \/ (D = "receive" /\ sent)) /\ InDecoder(n)
    \/ /\ D \in {"send", "receive"} /\ ~sent /\ n > 0 /\ InDecoder(n - 1)
       /\ packet = file[n] /\ packet.stream = VideoStream
       /\ D = "receive" => ~packet.good

Reading ==
    /\ ~chan["frames"].quit /\ D \in {"pop", "send", "receive"} =>
          \E n \in 0..Len(file) : Queued(n) /\ Consumed(n)
    /\ Len(decoded) <= Len(Pictures)
    /\ \A i \in 1..Len(decoded) : decoded[i] = Pictures[i]

(* The frames in the hands of processFrames, whose lines follow those of   *)
(* the frames before them; in "push" the first has its line already.       *)
Whole ==
    \/ P \in {"decide", "index", "push"}
    \/ P = "pop" /\ ~chan["frames"].quit

Base == IF P = "push" THEN Len(index) - Width(ready[1]) ELSE Len(index)

Parent == ready # <<>> /\ ready[Len(ready)].child # None
Taken == Base + Len(ready) + (IF Parent THEN 1 ELSE 0)

Shape ==
    /\ Len(ready) <= 3
    /\ \A k \in 1..Len(ready) : ready[k].child # None =>
          k = Len(ready) /\ P \notin {"pop", "decide"}
    /\ P = "pop" => Len(ready) <= 2
    /\ P = "decide" => Len(ready) = 3
    /\ P \in {"index", "push"} => ready # <<>>

InHand(k) ==
    IF ready[k].child = None
    THEN ready[k].dts = decoded[Base + k]
    ELSE /\ ready[k].child = decoded[Base + k]
         /\ ready[k].dts = decoded[Base + k + 1]

Ordered ==
    /\ Len(index) <= Len(decoded)
    /\ \A i \in 1..Len(index) : index[i].pts = decoded[i]
    /\ Whole =>
          /\ Base \in Nat /\ Taken <= Len(decoded)
          /\ \A k \in 1..Len(ready) : InHand(k)
    /\ Whole /\ ~chan["frames"].quit =>
          /\ Len(decoded) = Taken + Len(chan["frames"].items)
          /\ \A j \in 1..Len(chan["frames"].items) :
                chan["frames"].items[j] =
                   [pts |-> decoded[Taken + j], dts |-> None, child |-> None]

(* A function that counts the lines up to each frame, as LineOf does.      *)
Counts(line) ==
    /\ line[0] = 0
    /\ \A n \in 1..Len(handed) : line[n] = line[n - 1] + Width(handed[n])

Lined(line) ==
    /\ \A n \in 1..Len(handed) :
          /\ line[n] \in 1..Len(index)
          /\ index[line[n]] = Line(handed[n].dts, TRUE)
          /\ handed[n].child # None =>
                /\ line[n] - 1 \in 1..Len(index)
                /\ index[line[n] - 1] = Line(handed[n].child, FALSE)
    /\ line[Len(handed)] \in 0..Len(index)
    /\ Whole => line[Len(handed)] = Base
    /\ \A i \in (line[Len(handed)] + 1)..Len(index) :
          index[i].kept => i = Len(index)
    /\ P = "push" =>
          /\ index[Len(index)] = Line(ready[1].dts, TRUE)
          /\ ready[1].child # None =>
                index[Len(index) - 1] = Line(ready[1].child, FALSE)

Aligned ==
    /\ \E line : Counts(line)
    /\ \A line : Counts(line) => Lined(line)

(* The frames given to the encoder and those in hand, in order; their pts, *)
(* and the pts that the next one will get.                                 *)
Gone == Len(handed)
Passed == IF Whole THEN Gone + Len(ready) ELSE Gone
Nth(n) == IF n <= Gone THEN handed[n] ELSE ready[n - Gone]
Latest == Nth(Passed).pts

Gap == Pictures[2] - Pictures[1]

Follows(p, q) == p < q /\ (ConstantRate => q - p = Gap)

Numbering ==
    /\ (nextPts = None) <=> (deltaPts = None)
    /\ nextPts = None /\ Passed > 0 =>
          Taken > 0 /\ Latest = decoded[Taken]
    /\ nextPts # None =>
          /\ nextPts \in Nat /\ Passed > 0
          /\ Latest + deltaPts = nextPts
          /\ Follows(Latest, nextPts)

Spaced ==
    /\ \A n \in 1..Passed : Nth(n).pts \in Nat
    /\ \A n \in 1..(Passed - 1) : Follows(Nth(n).pts, Nth(n + 1).pts)
    /\ Whole => Numbering

-----------------------------------------------------------------------------
(* Stages and queues: what the steps on them do.                           *)

LEMMA GotoEffect ==
    ASSUME DOMAIN at = Stages, NEW s \in Stages, NEW place, Goto(s, place)
    PROVE  /\ at'[s] = place /\ quitting' = quitting
           /\ at' = [at EXCEPT ![s] = place]
           /\ \A t \in Stages : t # s => at'[t] = at[t]
  BY DEF Goto

(* A queue with its three fields.                                          *)
Fields(q) ==
    chan[q] = [items |-> chan[q].items,
               finished |-> chan[q].finished, quit |-> chan[q].quit]

Others(q) == \A r \in Queues : r # q => chan'[r] = chan[r]

LEMMA PushEffect ==
    ASSUME DOMAIN chan = Queues, NEW q \in Queues, Fields(q), NEW x,
           Push(q, x)
    PROVE  /\ DOMAIN chan' = Queues /\ Others(q) /\ Fields(q)'
           /\ chan'[q].items = Append(chan[q].items, x)
           /\ chan'[q].finished = chan[q].finished
           /\ chan'[q].quit = chan[q].quit
  BY DEF Push, Others, Fields

LEMMA PopEffect ==
    ASSUME DOMAIN chan = Queues, NEW q \in Queues, Fields(q), Pop(q)
    PROVE  /\ DOMAIN chan' = Queues /\ Others(q) /\ Fields(q)'
           /\ chan'[q].items = Tail(chan[q].items)
           /\ chan'[q].finished = chan[q].finished
           /\ chan'[q].quit = chan[q].quit
  BY DEF Pop, Others, Fields

LEMMA FinishEffect ==
    ASSUME DOMAIN chan = Queues, NEW q \in Queues, Fields(q), Finish(q)
    PROVE  /\ DOMAIN chan' = Queues /\ Others(q) /\ Fields(q)'
           /\ chan'[q].items = chan[q].items
           /\ chan'[q].finished = TRUE
           /\ chan'[q].quit = chan[q].quit
  BY DEF Finish, Others, Fields

LEMMA QuitEffect ==
    ASSUME DOMAIN chan = Queues, NEW q \in Queues, Fields(q),
           chan' = [chan EXCEPT ![q].quit = TRUE]
    PROVE  /\ DOMAIN chan' = Queues /\ Others(q) /\ Fields(q)'
           /\ chan'[q].items = chan[q].items
           /\ chan'[q].finished = chan[q].finished
           /\ chan'[q].quit = TRUE
  BY DEF Others, Fields

LEMMA FieldsUnprimed ==
    Queuing => DOMAIN chan = Queues /\ \A q \in Queues : Fields(q)
  BY DEF Queuing, Fields

-----------------------------------------------------------------------------
(* Control                                                                 *)

Places(s) ==
    CASE s = "demultiplex" -> {"read", "catch", "done"}
      [] s = "decode" -> {"pop", "send", "receive", "catch", "done"}
      [] s = "processFrames" -> {"pop", "decide", "index", "push", "catch",
                                 "done"}
      [] s = "encode" -> {"pop", "drain", "flush pop", "flush drain", "catch",
                          "done"}

(* A stage that is done stays so, and a queue that was quit too.           *)
Lasting ==
    /\ \A s \in Stages : at[s] = "done" => at'[s] = "done"
    /\ chan["frames"].quit => chan'["frames"].quit

LEMMA PlacesUnfolded ==
    /\ Places("demultiplex") = {"read", "catch", "done"}
    /\ Places("decode") = {"pop", "send", "receive", "catch", "done"}
    /\ Places("processFrames") = {"pop", "decide", "index", "push", "catch",
                                  "done"}
    /\ Places("encode") = {"pop", "drain", "flush pop", "flush drain",
                           "catch", "done"}
    /\ \A s \in Stages : "catch" \in Places(s) /\ "done" \in Places(s)
<1>1. Places("demultiplex") = {"read", "catch", "done"}
  BY DEF Places
<1>2. Places("decode") = {"pop", "send", "receive", "catch", "done"}
  BY DEF Places
<1>3. Places("processFrames") = {"pop", "decide", "index", "push", "catch",
                                 "done"}
  BY DEF Places
<1>4. Places("encode") = {"pop", "drain", "flush pop", "flush drain",
                          "catch", "done"}
  BY DEF Places
<1> QED BY <1>1, <1>2, <1>3, <1>4 DEF Stages

LEMMA ControlUnfolded ==
    Control <=>
      /\ at \in [Stages -> AllPlaces]
      /\ \A s \in Stages : at[s] \in Places(s)
      /\ quitting \in [Stages -> Quits \cup {<<>>}]
      /\ \A s \in Stages : at[s] = "catch" =>
            /\ quitting[s] \in Quits
            /\ Head(quitting[s]) # "frames" => chan["frames"].quit
  BY PlacesUnfolded DEF Control, Stages, P, D

LEMMA ControlGoto ==
    ASSUME Control, NEW s \in Stages, NEW place \in AllPlaces, Goto(s, place),
           place \in Places(s), place # "catch", at[s] # "done",
           chan["frames"].quit => chan'["frames"].quit
    PROVE  Control' /\ Lasting
<1>1. /\ at'[s] = place /\ quitting' = quitting
      /\ at' = [at EXCEPT ![s] = place]
      /\ \A t \in Stages : t # s => at'[t] = at[t]
      /\ DOMAIN at = Stages
  BY GotoEffect DEF Control
<1>2. /\ at' \in [Stages -> AllPlaces]
      /\ quitting' \in [Stages -> Quits \cup {<<>>}]
  BY <1>1 DEF Control
<1>3. \A t \in Stages : at'[t] \in Places(t)
  BY <1>1, ControlUnfolded
<1>4. \A t \in Stages : at'[t] = "catch" =>
            /\ quitting'[t] \in Quits
            /\ Head(quitting'[t]) # "frames" => chan'["frames"].quit
  BY <1>1, ControlUnfolded
<1>5. Control'
  BY <1>2, <1>3, <1>4, PlacesUnfolded DEF Control, Stages, P, D
<1>6. Lasting
  BY <1>1 DEF Lasting
<1> QED BY <1>5, <1>6

LEMMA ControlSame ==
    ASSUME Control, UNCHANGED stageVars,
           chan["frames"].quit => chan'["frames"].quit
    PROVE  Control' /\ Lasting
  BY DEF Control, Lasting, stageVars, P, D

LEMMA QuitsFacts ==
    \A q \in Quits :
       /\ Head(q) \in Queues
       /\ Tail(q) # <<>> => Tail(q) \in Quits /\ Head(Tail(q)) # "frames"
       /\ q # <<>>
<1> SUFFICES ASSUME NEW q \in Quits
             PROVE  /\ Head(q) \in Queues
                    /\ Tail(q) # <<>> =>
                          Tail(q) \in Quits /\ Head(Tail(q)) # "frames"
                    /\ q # <<>>
  OBVIOUS
<1>1. CASE q = <<"frames", "packets">>
  <2>1. Tail(q) = <<"packets">> /\ Head(q) = "frames"
    BY <1>1
  <2> QED BY <1>1, <2>1 DEF Quits, Queues
<1>2. CASE q = <<"packets">>
  <2>1. Tail(q) = <<>> /\ Head(q) = "packets"
    BY <1>2
  <2> QED BY <1>2, <2>1 DEF Queues
<1>5. CASE q = <<"processed">>
  <2>1. Tail(q) = <<>> /\ Head(q) = "processed"
    BY <1>5
  <2> QED BY <1>5, <2>1 DEF Queues
<1>3. CASE q = <<"frames", "packets", "processed">>
  <2>1. Tail(q) = <<"packets", "processed">> /\ Head(q) = "frames"
    BY <1>3
  <2> QED BY <1>3, <2>1 DEF Quits, Queues
<1>4. CASE q = <<"packets", "processed">>
  <2>1. Tail(q) = <<"processed">> /\ Head(q) = "packets"
    BY <1>4
  <2> QED BY <1>4, <2>1 DEF Quits, Queues
<1> QED BY <1>1, <1>2, <1>3, <1>4, <1>5 DEF Quits

LEMMA ControlThrow ==
    ASSUME Control, NEW s \in Stages, Throw(s)
    PROVE  Control' /\ Lasting
<1>1. /\ at' = [at EXCEPT ![s] = "catch"]
      /\ quitting' = [quitting EXCEPT ![s] = QuitsOf(s)]
      /\ chan' = chan /\ MayThrow(s)
  BY DEF Throw
<1>2. QuitsOf(s) \in Quits /\ Head(QuitsOf(s)) = "frames"
  BY DEF QuitsOf, Quits
<1>3. DOMAIN at = Stages /\ DOMAIN quitting = Stages
  BY DEF Control
<1>4. /\ at'[s] = "catch" /\ quitting'[s] = QuitsOf(s)
      /\ \A t \in Stages : t # s =>
            at'[t] = at[t] /\ quitting'[t] = quitting[t]
  BY <1>1, <1>3
<1>5. /\ at' \in [Stages -> AllPlaces]
      /\ quitting' \in [Stages -> Quits \cup {<<>>}]
  <2>1. at' \in [Stages -> AllPlaces]
    BY <1>1 DEF Control, AllPlaces
  <2>2. quitting' \in [Stages -> Quits \cup {<<>>}]
    BY <1>1, <1>2 DEF Control
  <2> QED BY <2>1, <2>2
<1>6. \A t \in Stages : at'[t] \in Places(t)
  BY <1>4, ControlUnfolded, PlacesUnfolded
<1>7. \A t \in Stages : at'[t] = "catch" =>
            /\ quitting'[t] \in Quits
            /\ Head(quitting'[t]) # "frames" => chan'["frames"].quit
  BY <1>1, <1>2, <1>4, ControlUnfolded
<1>8. Control'
  BY <1>5, <1>6, <1>7, PlacesUnfolded DEF Control, Stages, P, D
<1>9. at[s] # "done"
  BY <1>1 DEF MayThrow, Stages
<1>10. Lasting
  BY <1>1, <1>4, <1>9 DEF Lasting
<1> QED BY <1>8, <1>10

LEMMA ControlCatch ==
    ASSUME Control, Queuing, NEW s \in Stages, CatchQuit(s)
    PROVE  /\ Control' /\ Lasting /\ Head(quitting[s]) \in Queues
           /\ chan'["frames"].quit
           /\ chan' = [chan EXCEPT ![Head(quitting[s])].quit = TRUE]
           /\ at[s] = "catch" /\ at'[s] \in {"catch", "done"}
           /\ \A t \in Stages : t # s => at'[t] = at[t]
<1> DEFINE q == Head(quitting[s])
<1>1. /\ at[s] = "catch"
      /\ chan' = [chan EXCEPT ![q].quit = TRUE]
      /\ quitting' = [quitting EXCEPT ![s] = Tail(quitting[s])]
      /\ at' = [at EXCEPT ![s] = IF quitting'[s] = <<>> THEN "done"
                                 ELSE "catch"]
  BY DEF CatchQuit
<1>2. DOMAIN at = Stages /\ DOMAIN quitting = Stages
  BY DEF Control
<1>3. quitting[s] \in Quits /\ q \in Queues /\ quitting'[s] = Tail(quitting[s])
  BY <1>1, <1>2, QuitsFacts, ControlUnfolded
<1>4. DOMAIN chan = Queues /\ Fields(q) /\ q \in Queues
  BY <1>3, FieldsUnprimed
<1> HIDE DEF q
<1>5. /\ Others(q) /\ chan'[q].quit = TRUE
  BY <1>1, <1>4, QuitEffect
<1>6. chan["frames"].quit => chan'["frames"].quit
  BY <1>4, <1>5 DEF Others, Queues
<1>7. q = "frames" => chan'["frames"].quit
  BY <1>5
<1>8. q # "frames" => chan["frames"].quit
  BY <1>1, ControlUnfolded DEF q
<1>9. chan'["frames"].quit
  BY <1>6, <1>7, <1>8
<1>10. /\ at'[s] \in {"catch", "done"}
       /\ at'[s] = "catch" => quitting'[s] \in Quits
       /\ \A t \in Stages : t # s =>
             at'[t] = at[t] /\ quitting'[t] = quitting[t]
  BY <1>1, <1>2, <1>3, QuitsFacts
<1>11. quitting'[s] \in Quits \cup {<<>>}
  BY <1>3, QuitsFacts
<1>12. /\ at' \in [Stages -> AllPlaces]
       /\ quitting' \in [Stages -> Quits \cup {<<>>}]
  <2>1. quitting' \in [Stages -> Quits \cup {<<>>}]
    BY <1>1, <1>3, <1>11 DEF Control
  <2>2. at'[s] \in AllPlaces
    BY <1>10 DEF AllPlaces
  <2>3. at' = [at EXCEPT ![s] = at'[s]]
    BY <1>1, <1>2
  <2>4. at' \in [Stages -> AllPlaces]
    BY <2>2, <2>3 DEF Control
  <2> QED BY <2>1, <2>4
<1>13. \A t \in Stages : at'[t] \in Places(t)
  BY <1>10, ControlUnfolded, PlacesUnfolded
<1>14. \A t \in Stages : at'[t] = "catch" => quitting'[t] \in Quits
  BY <1>10, ControlUnfolded
<1>15. Control'
  BY <1>9, <1>12, <1>13, <1>14, PlacesUnfolded DEF Control, Stages, P, D
<1>16. Lasting
  BY <1>1, <1>6, <1>10 DEF Lasting
<1> QED BY <1>1, <1>3, <1>9, <1>10, <1>15, <1>16 DEF q

-----------------------------------------------------------------------------
(* Queuing                                                                 *)

Owner(q) ==
    CASE q = "packets" -> "demultiplex"
      [] q = "frames" -> "decode"
      [] q = "processed" -> "processFrames"

Content(q) ==
    CASE q = "packets" -> Packets
      [] q = "frames" -> Decoded
      [] q = "processed" -> Picture

Queue(q) ==
    /\ Fields(q)
    /\ chan[q].finished \in BOOLEAN /\ chan[q].quit \in BOOLEAN
    /\ chan[q].items \in Seq(Content(q))
    /\ Len(chan[q].items) <= QueueMax
    /\ chan[q].quit => chan["frames"].quit
    /\ chan[q].finished => at[Owner(q)] = "done"

LEMMA OwnersUnfolded ==
    /\ Owner("packets") = "demultiplex"
    /\ Owner("frames") = "decode"
    /\ Owner("processed") = "processFrames"
    /\ \A q \in Queues : Owner(q) \in Stages
<1>1. Owner("packets") = "demultiplex" /\ Owner("frames") = "decode"
  BY DEF Owner
<1>2. Owner("processed") = "processFrames"
  BY DEF Owner
<1> QED BY <1>1, <1>2 DEF Queues, Stages

AllQueues == DOMAIN chan = Queues /\ \A q \in Queues : Queue(q)

LEMMA ContentsUnfolded ==
    /\ Content("packets") = Packets
    /\ Content("frames") = Decoded
    /\ Content("processed") = Picture
<1>1. Content("packets") = Packets /\ Content("frames") = Decoded
  BY DEF Content
<1>2. Content("processed") = Picture
  BY DEF Content
<1> QED BY <1>1, <1>2

LEMMA QueuingIs == Queuing <=> AllQueues
<1>1. /\ "packets" \in Queues /\ "frames" \in Queues /\ "processed" \in Queues
      /\ \A q \in Queues : q \in {"packets", "frames", "processed"}
  BY DEF Queues
<1>3. Queuing => AllQueues
  BY <1>1, ContentsUnfolded, OwnersUnfolded
  DEF Queuing, AllQueues, Queue, Fields, P, D
<1>4. AllQueues => Queuing
  BY <1>1, ContentsUnfolded, OwnersUnfolded
  DEF Queuing, AllQueues, Queue, Fields, P, D
<1> QED BY <1>3, <1>4

LEMMA QueuingUnfolded ==
    Queuing => DOMAIN chan = Queues /\ \A q \in Queues : Queue(q)
  BY QueuingIs DEF AllQueues

(* One queue changes, well; the others stay.                               *)
LEMMA QueuingOthers ==
    ASSUME Queuing, Lasting, NEW q \in Queues, DOMAIN chan' = Queues,
           Others(q), Queue(q)'
    PROVE  Queuing'
<1>1. ASSUME NEW r \in Queues PROVE Queue(r)'
  <2>1. CASE r = q
    BY <2>1
  <2>2. CASE r # q
    <3>1. chan'[r] = chan[r] /\ Queue(r)
      BY <2>2, QueuingUnfolded DEF Others
    <3>2. chan'[r].finished => at'[Owner(r)] = "done"
      BY <3>1, OwnersUnfolded DEF Queue, Lasting
    <3>3. chan'[r].quit => chan'["frames"].quit
      BY <3>1 DEF Queue, Lasting
    <3> QED BY <3>1, <3>2, <3>3 DEF Queue, Fields
  <2> QED BY <2>1, <2>2
<1>2. AllQueues'
  BY <1>1 DEF AllQueues
<1> QED BY <1>2, QueuingIs, PTL

LEMMA QueuingSame ==
    ASSUME Queuing, Lasting, chan' = chan
    PROVE  Queuing'
<1>1. "frames" \in Queues
  BY DEF Queues
<1>2. Queue("frames") /\ DOMAIN chan = Queues
  BY <1>1, QueuingUnfolded
<1>3. Others("frames") /\ DOMAIN chan' = Queues
  BY <1>2 DEF Others
<1>4. Queue("frames")'
  BY <1>2, OwnersUnfolded DEF Queue, Fields, Lasting, Stages
<1> QED BY <1>1, <1>3, <1>4, QueuingOthers

LEMMA QueuingPush ==
    ASSUME Queuing, Lasting, NEW q \in Queues, NEW x \in Content(q),
           CanPush(q), Push(q, x)
    PROVE  Queuing'
<1>1. Queue(q) /\ DOMAIN chan = Queues
  BY QueuingUnfolded
<1>2. /\ DOMAIN chan' = Queues /\ Others(q) /\ Fields(q)'
      /\ chan'[q].items = Append(chan[q].items, x)
      /\ chan'[q].finished = chan[q].finished
      /\ chan'[q].quit = chan[q].quit
  BY <1>1, PushEffect DEF Queue
<1>3. /\ ~chan[q].quit /\ ~chan[q].finished
      /\ Len(chan[q].items) < QueueMax
  BY DEF CanPush
<1>4. /\ chan[q].items \in Seq(Content(q)) /\ QueueMax \in Nat
  BY <1>1, PipelineAssumption DEF Queue
<1>5. /\ Append(chan[q].items, x) \in Seq(Content(q))
      /\ Len(Append(chan[q].items, x)) <= QueueMax
  BY <1>3, <1>4, AppendProperties
<1>6. Queue(q)'
  BY <1>1, <1>2, <1>3, <1>5 DEF Queue
<1> QED BY <1>2, <1>6, QueuingOthers

LEMMA QueuingPop ==
    ASSUME Queuing, Lasting, NEW q \in Queues, CanPop(q), Pop(q)
    PROVE  /\ Queuing'
           /\ Head(chan[q].items) \in Content(q)
<1>1. Queue(q) /\ DOMAIN chan = Queues
  BY QueuingUnfolded
<1>2. /\ DOMAIN chan' = Queues /\ Others(q) /\ Fields(q)'
      /\ chan'[q].items = Tail(chan[q].items)
      /\ chan'[q].finished = chan[q].finished
      /\ chan'[q].quit = chan[q].quit
  BY <1>1, PopEffect DEF Queue
<1>3. chan[q].items # <<>> /\ ~chan[q].quit
  BY DEF CanPop
<1>4. /\ chan[q].items \in Seq(Content(q)) /\ QueueMax \in Nat
      /\ Len(chan[q].items) <= QueueMax /\ Len(chan[q].items) \in Nat
  BY <1>1, PipelineAssumption DEF Queue
<1>5. /\ Tail(chan[q].items) \in Seq(Content(q))
      /\ Head(chan[q].items) \in Content(q)
      /\ Len(Tail(chan[q].items)) = Len(chan[q].items) - 1
  BY <1>3, <1>4, HeadTailProperties
<1>6. Len(Tail(chan[q].items)) <= QueueMax
  BY <1>4, <1>5
<1>7. chan'[q].finished => at'[Owner(q)] = "done"
  BY <1>1, <1>2, OwnersUnfolded DEF Queue, Lasting
<1>8. Queue(q)'
  BY <1>1, <1>2, <1>3, <1>5, <1>6, <1>7 DEF Queue
<1> QED BY <1>2, <1>5, <1>8, QueuingOthers

LEMMA QueuingFinish ==
    ASSUME Queuing, Lasting, NEW q \in Queues, Finish(q),
           at'[Owner(q)] = "done"
    PROVE  Queuing'
<1>1. Queue(q) /\ DOMAIN chan = Queues
  BY QueuingUnfolded
<1>2. /\ DOMAIN chan' = Queues /\ Others(q) /\ Fields(q)'
      /\ chan'[q].items = chan[q].items
      /\ chan'[q].finished = TRUE
      /\ chan'[q].quit = chan[q].quit
  BY <1>1, FinishEffect DEF Queue
<1>3. chan'[q].quit => chan'["frames"].quit
  BY <1>1, <1>2 DEF Queue, Lasting
<1>4. Queue(q)'
  BY <1>1, <1>2, <1>3 DEF Queue
<1> QED BY <1>2, <1>4, QueuingOthers

LEMMA QueuingCatch ==
    ASSUME Queuing, Lasting, NEW q \in Queues, chan'["frames"].quit,
           chan' = [chan EXCEPT ![q].quit = TRUE]
    PROVE  Queuing'
<1>1. Queue(q) /\ DOMAIN chan = Queues
  BY QueuingUnfolded
<1>2. /\ DOMAIN chan' = Queues /\ Others(q) /\ Fields(q)'
      /\ chan'[q].items = chan[q].items
      /\ chan'[q].finished = chan[q].finished
      /\ chan'[q].quit = TRUE
  BY <1>1, QuitEffect DEF Queue
<1>3. chan'[q].finished => at'[Owner(q)] = "done"
  BY <1>1, <1>2, OwnersUnfolded DEF Queue, Lasting
<1>4. Queue(q)'
  BY <1>1, <1>2, <1>3 DEF Queue
<1> QED BY <1>2, <1>4, QueuingOthers

-----------------------------------------------------------------------------
(* Every step keeps Control and Queuing.                                   *)

LEMMA QuitKept ==
    ASSUME Queuing, NEW q \in Queues, NEW x,
           Push(q, x) \/ Pop(q) \/ Finish(q)
    PROVE  chan'["frames"].quit = chan["frames"].quit
<1>1. DOMAIN chan = Queues /\ Fields(q) /\ "frames" \in Queues
  BY FieldsUnprimed DEF Queues
<1>2. Others(q) /\ chan'[q].quit = chan[q].quit
  BY <1>1, PushEffect, PopEffect, FinishEffect
<1> QED BY <1>1, <1>2 DEF Others

LEMMA FilePackets ==
    ASSUME Data, NEW n \in 1..Len(file)
    PROVE  file[n] \in Packets /\ file \in Seq(Packets) /\ Len(file) \in Nat
<1>1. file \in Seq(Packets)
  BY PipelineAssumption DEF Data, FileData, Packets
<1> QED BY <1>1, ElementOfSeq

LEMMA DemultiplexControl ==
    ASSUME Control, Queuing, Data, DemultiplexPush \/ DemultiplexEnd
    PROVE  Control' /\ Lasting /\ Queuing'
<1> DEFINE m == "demultiplex"
<1>0. /\ at[m] = "read" /\ "done" \in AllPlaces /\ "done" \in Places(m)
      /\ m \in Stages /\ "packets" \in Queues /\ "frames" \in Queues
  BY PlacesUnfolded DEF DemultiplexPush, DemultiplexEnd, AllPlaces, Stages,
     Queues
<1>1. CASE /\ DemultiplexPush /\ UNCHANGED stageVars
           /\ CanPush("packets") /\ Push("packets", file[position + 1])
  <2>1. file[position + 1] \in Content("packets")
    <3>1. position + 1 \in 1..Len(file)
      <4>1. position < Len(file) /\ position \in 0..Len(file)
            /\ file \in Seq(Packets)
        BY <1>1, PipelineAssumption
           DEF DemultiplexPush, Data, FileData, Packets
      <4> QED BY <4>1
    <3> QED BY <3>1, FilePackets, ContentsUnfolded
  <2>2. Control' /\ Lasting
    BY <1>0, <1>1, QuitKept, ControlSame
  <2> QED BY <1>0, <1>1, <2>1, <2>2, QueuingPush
<1>2. CASE Goto(m, "done") /\ UNCHANGED chan
  <2>1. Control' /\ Lasting
    BY <1>0, <1>2, ControlGoto
  <2> QED BY <1>2, <2>1, QueuingSame
<1>3. CASE Goto(m, "done") /\ Finish("packets")
  <2>1. Control' /\ Lasting
    BY <1>0, <1>3, QuitKept, ControlGoto
  <2>2. at'[m] = "done"
    BY <1>0, <1>3, GotoEffect DEF Control
  <2> QED BY <1>0, <1>3, <2>1, <2>2, OwnersUnfolded, QueuingFinish
<1> QED BY <1>1, <1>2, <1>3 DEF DemultiplexPush, DemultiplexEnd

LEMMA DecodeControl ==
    ASSUME Control, Queuing, Data,
           DecodePop \/ DecodeAudio \/ DecodeEnd \/ DecodeSend
           \/ DecodeReceive \/ DecodeDrained
    PROVE  Control' /\ Lasting /\ Queuing'
<1> DEFINE d == "decode"
<1>0. /\ at[d] \in {"pop", "send", "receive"} /\ d \in Stages
      /\ "packets" \in Queues /\ "frames" \in Queues
      /\ \A p \in {"pop", "send", "receive", "done"} :
            p \in AllPlaces /\ p \in Places(d) /\ p # "catch"
  BY PlacesUnfolded DEF DecodePop, DecodeAudio, DecodeEnd, DecodeSend,
     DecodeReceive, DecodeDrained, AllPlaces, Stages, Queues
<1>1. CASE /\ CanPop("packets") /\ Pop("packets")
           /\ \/ UNCHANGED stageVars
              \/ Goto(d, "send")
              \/ Goto(d, "done")
  <2>1. Control' /\ Lasting
    BY <1>0, <1>1, QuitKept, ControlSame, ControlGoto
  <2> QED BY <1>0, <1>1, <2>1, QueuingPop
<1>2. CASE DecodeEnd
  <2>0. Finish("frames") /\ Goto(d, "done")
    BY <1>2 DEF DecodeEnd
  <2>1. Control' /\ Lasting
    BY <1>0, <2>0, QuitKept, ControlGoto
  <2>2. at'[d] = "done"
    BY <1>0, <2>0, GotoEffect DEF Control
  <2> QED BY <1>0, <2>0, <2>1, <2>2, OwnersUnfolded, QueuingFinish
<1>3. CASE /\ chan' = chan
           /\ Goto(d, "receive") \/ Goto(d, "pop") \/ Goto(d, "send")
  <2>1. Control' /\ Lasting
    BY <1>0, <1>3, ControlGoto
  <2> QED BY <1>3, <2>1, QueuingSame
<1>4. CASE DecodeReceive
  <2> DEFINE frame == [pts |-> Head(decoder), dts |-> None, child |-> None]
  <2>1. frame \in Content("frames")
    <3>1. decoder \in Seq(Nat) /\ Len(decoder) > DecoderDelay
          /\ DecoderDelay \in Nat
      BY <1>4, PipelineAssumption DEF DecodeReceive, Data, DecodeData
    <3>2. Head(decoder) \in Nat
      BY <3>1
    <3> QED BY <3>2, ContentsUnfolded DEF Decoded
  <2> HIDE DEF frame
  <2>2. CASE CanPush("frames") /\ Push("frames", frame) /\ UNCHANGED stageVars
    <3>1. Control' /\ Lasting
      BY <1>0, <2>2, QuitKept, ControlSame
    <3> QED BY <1>0, <2>1, <2>2, <3>1, QueuingPush
  <2>3. CASE AfterReceive /\ UNCHANGED chan
    BY <1>3, <2>3 DEF AfterReceive
  <2> QED BY <1>4, <2>2, <2>3 DEF DecodeReceive, frame
<1>5. CASE DecodeSend \/ DecodeDrained
  BY <1>3, <1>5 DEF DecodeSend, DecodeDrained, AfterReceive
<1>6. CASE DecodePop \/ DecodeAudio
  <2>1. CASE DecodePop
    BY <1>1, <2>1 DEF DecodePop
  <2>2. CASE DecodeAudio
    BY <1>1, <2>2 DEF DecodeAudio
  <2> QED BY <1>6, <2>1, <2>2
<1> QED BY <1>2, <1>4, <1>5, <1>6

LEMMA ProcessControl ==
    ASSUME Control, Queuing, Data, Shape,
           ProcessPop \/ ProcessEnd \/ ProcessKeep \/ ProcessDrop
           \/ ProcessIndex \/ ProcessPush
    PROVE  Control' /\ Lasting /\ Queuing'
<1> DEFINE p == "processFrames"
<1>0. /\ at[p] \in {"pop", "decide", "index", "push"} /\ p \in Stages
      /\ "processed" \in Queues /\ "frames" \in Queues
      /\ \A l \in {"pop", "decide", "index", "push", "done"} :
            l \in AllPlaces /\ l \in Places(p) /\ l # "catch"
  BY PlacesUnfolded DEF ProcessPop, ProcessEnd, ProcessKeep, ProcessDrop,
     ProcessIndex, ProcessPush, AllPlaces, Stages, Queues
<1>1. CASE /\ CanPop("frames") /\ Pop("frames")
           /\ Goto(p, "decide") \/ Goto(p, "pop")
  <2>1. Control' /\ Lasting
    BY <1>0, <1>1, QuitKept, ControlGoto
  <2> QED BY <1>0, <1>1, <2>1, QueuingPop
<1>2. CASE ProcessEnd
  <2>0. Finish("processed") /\ Goto(p, "done")
    BY <1>2 DEF ProcessEnd
  <2>1. Control' /\ Lasting
    BY <1>0, <2>0, QuitKept, ControlGoto
  <2>2. at'[p] = "done"
    BY <1>0, <2>0, GotoEffect DEF Control
  <2> QED BY <1>0, <2>0, <2>1, <2>2, OwnersUnfolded, QueuingFinish
<1>3. CASE chan' = chan /\ (Goto(p, "index") \/ Goto(p, "push")
                            \/ Goto(p, "pop"))
  <2>1. Control' /\ Lasting
    BY <1>0, <1>3, ControlGoto
  <2> QED BY <1>3, <2>1, QueuingSame
<1>4. CASE ProcessKeep
  BY <1>3, <1>4 DEF ProcessKeep
<1>5. CASE ProcessDrop
  BY <1>3, <1>5 DEF ProcessDrop
<1>6. CASE ProcessIndex
  BY <1>3, <1>6 DEF ProcessIndex
<1>7. CASE ProcessPop
  BY <1>1, <1>7 DEF ProcessPop
<1>8. CASE ProcessPush /\ chan' = chan
  BY <1>3, <1>8 DEF ProcessPush
<1>9. CASE /\ CanPush("processed") /\ Push("processed", Head(ready))
           /\ Goto(p, "pop") \/ Goto(p, "index")
           /\ Head(ready) \in Picture
  <2>1. Control' /\ Lasting
    BY <1>0, <1>9, QuitKept, ControlGoto
  <2>2. Head(ready) \in Content("processed")
    BY <1>9, ContentsUnfolded
  <2> QED BY <1>0, <1>9, <2>1, <2>2, QueuingPush
<1>10. CASE ProcessPush /\ chan' # chan
  <2>1. /\ CanPush("processed") /\ Push("processed", Head(ready))
        /\ Goto(p, "pop") \/ Goto(p, "index")
    BY <1>10 DEF ProcessPush
  <2>2. ready # <<>> /\ ready \in Seq(Picture)
    BY <1>10 DEF ProcessPush, Shape, Data, ProcessData, P
  <2>3. Head(ready) \in Picture
    BY <2>2, HeadTailProperties
  <2> QED BY <1>9, <2>1, <2>3
<1> QED BY <1>2, <1>4, <1>5, <1>6, <1>7, <1>8, <1>10

LEMMA EncodeControl ==
    ASSUME Control, Queuing, Data,
           EncodeFrame \/ EncodeNull \/ EncodeReceive \/ EncodeDrained
    PROVE  Control' /\ Lasting /\ Queuing'
<1> DEFINE e == "encode"
           places == {"pop", "drain", "flush pop", "flush drain", "done"}
<1>0. /\ at[e] \in {"pop", "drain", "flush pop", "flush drain"}
      /\ e \in Stages /\ "processed" \in Queues
      /\ \A l \in places : l \in AllPlaces /\ l \in Places(e) /\ l # "catch"
  BY PlacesUnfolded DEF EncodeFrame, EncodeNull, EncodeReceive, EncodeDrained,
     AllPlaces, Stages, Queues
<1>1. CASE EncodeFrame
  <2>1. CanPop("processed") /\ Pop("processed")
        /\ (Goto(e, "drain") \/ Goto(e, "flush drain"))
    BY <1>1 DEF EncodeFrame
  <2>2. Control' /\ Lasting
    BY <1>0, <2>1, QuitKept, ControlGoto
  <2> QED BY <1>0, <2>1, <2>2, QueuingPop
<1>2. CASE chan' = chan /\ \E l \in places : Goto(e, l)
  <2>1. Control' /\ Lasting
    BY <1>0, <1>2, ControlGoto
  <2> QED BY <1>2, <2>1, QueuingSame
<1>3. CASE chan' = chan /\ UNCHANGED stageVars
  <2>1. Control' /\ Lasting
    BY <1>3, ControlSame
  <2> QED BY <1>3, <2>1, QueuingSame
<1>4. AfterDrain => \E l \in places : Goto(e, l)
  BY DEF AfterDrain
<1>5. CASE EncodeNull
  <2>1. chan' = chan /\ Goto(e, "flush drain")
    BY <1>5 DEF EncodeNull
  <2> QED BY <1>2, <2>1
<1>6. CASE EncodeReceive \/ EncodeDrained
  <2>1. chan' = chan /\ (AfterDrain \/ UNCHANGED stageVars)
    BY <1>6 DEF EncodeReceive, EncodeDrained
  <2> QED BY <1>2, <1>3, <1>4, <2>1
<1> QED BY <1>1, <1>5, <1>6

LEMMA StageStep ==
    ASSUME Control, Queuing, Data, Shape, [Next]_vars
    PROVE  Control' /\ Lasting /\ Queuing'
<1>1. ASSUME NEW s \in Stages, Throw(s)
      PROVE  Control' /\ Lasting /\ Queuing'
  BY <1>1, ControlThrow, QueuingSame DEF Throw
<1>2. ASSUME NEW s \in Stages, CatchQuit(s)
      PROVE  Control' /\ Lasting /\ Queuing'
  BY <1>2, ControlCatch, QueuingCatch
<1>3. CASE UNCHANGED vars
  BY <1>3, ControlSame, QueuingSame DEF vars
<1>4. \A s \in {"demultiplex", "decode", "processFrames", "encode"} :
         s \in Stages
  BY DEF Stages
<1>5. CASE Demultiplex
  BY <1>2, <1>4, <1>5, DemultiplexControl DEF Demultiplex
<1>6. CASE Decode
  BY <1>2, <1>4, <1>6, DecodeControl DEF Decode
<1>7. CASE ProcessFrames
  BY <1>2, <1>4, <1>7, ProcessControl DEF ProcessFrames
<1>8. CASE Encode
  BY <1>2, <1>4, <1>8, EncodeControl DEF Encode
<1> QED BY <1>1, <1>3, <1>5, <1>6, <1>7, <1>8 DEF Next, RunSkippingReturns

-----------------------------------------------------------------------------
(* Whose step it is, and what it leaves alone.                             *)

DemultiplexStep == DemultiplexPush \/ DemultiplexEnd
DecodeStep == DecodePop \/ DecodeAudio \/ DecodeEnd \/ DecodeSend
              \/ DecodeReceive \/ DecodeDrained
ProcessStep == ProcessPop \/ ProcessEnd \/ ProcessKeep \/ ProcessDrop
               \/ ProcessIndex \/ ProcessPush
EncodeStep == EncodeFrame \/ EncodeNull \/ EncodeReceive \/ EncodeDrained
HandlerStep == \E s \in Stages : Throw(s) \/ CatchQuit(s)

LEMMA NextCases ==
    [Next]_vars => \/ DemultiplexStep \/ DecodeStep \/ ProcessStep
                   \/ EncodeStep \/ HandlerStep \/ UNCHANGED vars
<1>1. \A s \in {"demultiplex", "decode", "processFrames", "encode"} :
         CatchQuit(s) => HandlerStep
  BY DEF Stages, HandlerStep
<1>2. \A s \in Stages : Throw(s) => HandlerStep
  BY DEF HandlerStep
<1>3. Demultiplex => DemultiplexStep \/ HandlerStep
  BY <1>1 DEF Demultiplex, DemultiplexStep
<1>4. Decode => DecodeStep \/ HandlerStep
  BY <1>1 DEF Decode, DecodeStep
<1>5. ProcessFrames => ProcessStep \/ HandlerStep
  BY <1>1 DEF ProcessFrames, ProcessStep
<1>6. Encode => EncodeStep \/ HandlerStep
  BY <1>1 DEF Encode, EncodeStep
<1> QED BY <1>2, <1>3, <1>4, <1>5, <1>6 DEF Next, RunSkippingReturns

(* The stage s moves on by itself, or its exception handler does, or it    *)
(* stays where it is.                                                      *)
Only(s) == \A t \in Stages : t # s => at'[t] = at[t]
Stays(s) == at'[s] = at[s] \/ at'[s] \in {"catch", "done"}

LEMMA OnlyGoto ==
    ASSUME Control, NEW s \in Stages,
           UNCHANGED stageVars \/ \E place : Goto(s, place)
    PROVE  Only(s)
<1>1. DOMAIN at = Stages
  BY DEF Control
<1>2. CASE UNCHANGED stageVars
  BY <1>2 DEF stageVars, Only
<1>3. ASSUME NEW place, Goto(s, place) PROVE Only(s)
  BY <1>1, <1>3, GotoEffect DEF Only
<1> QED BY <1>2, <1>3

LEMMA DemultiplexMoves ==
    ASSUME Control, DemultiplexStep
    PROVE  /\ Only("demultiplex")
           /\ UNCHANGED <<file, decodeVars, processVars, encodeVars>>
<1>1. /\ UNCHANGED stageVars \/ \E place : Goto("demultiplex", place)
      /\ UNCHANGED <<file, decodeVars, processVars, encodeVars>>
  BY DEF DemultiplexStep, DemultiplexPush, DemultiplexEnd, fileVars
<1> QED BY <1>1, OnlyGoto DEF Stages

LEMMA DecodeMoves ==
    ASSUME Control, DecodeStep
    PROVE  Only("decode") /\ UNCHANGED <<fileVars, processVars, encodeVars>>
<1>1. /\ UNCHANGED stageVars \/ \E place : Goto("decode", place)
      /\ UNCHANGED <<fileVars, processVars, encodeVars>>
  BY DEF DecodeStep, DecodePop, DecodeAudio, DecodeEnd, DecodeSend,
     DecodeReceive, DecodeDrained, AfterReceive
<1> QED BY <1>1, OnlyGoto DEF Stages

LEMMA ProcessMoves ==
    ASSUME Control, ProcessStep
    PROVE  /\ Only("processFrames")
           /\ UNCHANGED <<fileVars, decodeVars, encodeVars>>
<1>1. /\ UNCHANGED stageVars \/ \E place : Goto("processFrames", place)
      /\ UNCHANGED <<fileVars, decodeVars, encodeVars>>
  BY DEF ProcessStep, ProcessPop, ProcessEnd, ProcessKeep, ProcessDrop,
     ProcessIndex, ProcessPush
<1> QED BY <1>1, OnlyGoto DEF Stages

LEMMA EncodeMoves ==
    ASSUME Control, EncodeStep
    PROVE  Only("encode") /\ UNCHANGED <<fileVars, decodeVars, processVars>>
<1>1. /\ UNCHANGED stageVars \/ \E place : Goto("encode", place)
      /\ UNCHANGED <<fileVars, decodeVars, processVars>>
  BY DEF EncodeStep, EncodeFrame, EncodeNull, EncodeReceive, EncodeDrained,
     AfterDrain
<1> QED BY <1>1, OnlyGoto DEF Stages

LEMMA HandlerMoves ==
    ASSUME Control, HandlerStep
    PROVE  /\ \A s \in Stages : Stays(s)
           /\ UNCHANGED <<fileVars, decodeVars, processVars, encodeVars>>
<1>1. PICK s \in Stages : Throw(s) \/ CatchQuit(s)
  BY DEF HandlerStep
<1>2. DOMAIN at = Stages
  BY DEF Control
<1>3. /\ \E place \in {"catch", "done"} : at' = [at EXCEPT ![s] = place]
      /\ UNCHANGED <<fileVars, decodeVars, processVars, encodeVars>>
  BY <1>1 DEF Throw, CatchQuit
<1> QED BY <1>2, <1>3 DEF Stays

(* What a stage keeps while others move.                                   *)
LEMMA FileQuiet ==
    ASSUME Control, [Next]_vars, ~DemultiplexStep
    PROVE  UNCHANGED fileVars /\ Stays("demultiplex")
<1>1. CASE DecodeStep \/ ProcessStep \/ EncodeStep
  BY <1>1, DecodeMoves, ProcessMoves, EncodeMoves DEF Only, Stages, Stays
<1>2. CASE HandlerStep
  BY <1>2, HandlerMoves DEF Stages
<1>3. CASE UNCHANGED vars
  BY <1>3 DEF vars, stageVars, Stays
<1> QED BY <1>1, <1>2, <1>3, NextCases

LEMMA DecodeQuiet ==
    ASSUME Control, [Next]_vars, ~DecodeStep
    PROVE  UNCHANGED decodeVars /\ Stays("decode")
<1>1. CASE DemultiplexStep \/ ProcessStep \/ EncodeStep
  BY <1>1, DemultiplexMoves, ProcessMoves, EncodeMoves DEF Only, Stages, Stays
<1>2. CASE HandlerStep
  BY <1>2, HandlerMoves DEF Stages
<1>3. CASE UNCHANGED vars
  BY <1>3 DEF vars, stageVars, Stays
<1> QED BY <1>1, <1>2, <1>3, NextCases

LEMMA ProcessQuiet ==
    ASSUME Control, [Next]_vars, ~ProcessStep
    PROVE  UNCHANGED processVars /\ Stays("processFrames")
<1>1. CASE DemultiplexStep \/ DecodeStep \/ EncodeStep
  BY <1>1, DemultiplexMoves, DecodeMoves, EncodeMoves DEF Only, Stages, Stays
<1>2. CASE HandlerStep
  BY <1>2, HandlerMoves DEF Stages
<1>3. CASE UNCHANGED vars
  BY <1>3 DEF vars, stageVars, Stays
<1> QED BY <1>1, <1>2, <1>3, NextCases

LEMMA EncodeQuiet ==
    ASSUME Control, [Next]_vars, ~EncodeStep
    PROVE  UNCHANGED encodeVars /\ Stays("encode")
<1>1. CASE DemultiplexStep \/ DecodeStep \/ ProcessStep
  BY <1>1, DemultiplexMoves, DecodeMoves, ProcessMoves DEF Only, Stages, Stays
<1>2. CASE HandlerStep
  BY <1>2, HandlerMoves DEF Stages
<1>3. CASE UNCHANGED vars
  BY <1>3 DEF vars, stageVars, Stays
<1> QED BY <1>1, <1>2, <1>3, NextCases

LEMMA FileConstant ==
    ASSUME Control, [Next]_vars
    PROVE  file' = file
<1>1. CASE DemultiplexStep
  BY <1>1, DemultiplexMoves
<1>2. CASE ~DemultiplexStep
  BY <1>2, FileQuiet DEF fileVars
<1> QED BY <1>1, <1>2

-----------------------------------------------------------------------------
(* Every step keeps Data and Shape.                                        *)

LEMMA FileStep ==
    ASSUME Control, FileData, [Next]_vars
    PROVE  FileData'
<1>1. CASE DemultiplexStep
  <2>1. file \in Seq(Packets) /\ position \in 0..Len(file)
    BY PipelineAssumption DEF FileData, Packets
  <2>2. /\ file' = file
        /\ \/ position' = position
           \/ position' = position + 1 /\ position < Len(file)
    BY <1>1, FileConstant
    DEF DemultiplexStep, DemultiplexPush, DemultiplexEnd, fileVars
  <2> QED BY <2>1, <2>2 DEF FileData
<1>2. CASE ~DemultiplexStep
  BY <1>2, FileQuiet DEF FileData, fileVars
<1> QED BY <1>1, <1>2

LEMMA DecodeDataStep ==
    ASSUME Control, Queuing, DecodeData, [Next]_vars
    PROVE  DecodeData'
<1>0. /\ "decode" \in Stages /\ DOMAIN at = Stages
      /\ DecoderDelay \in Nat /\ Len(decoder) \in Nat
  BY PipelineAssumption, LenProperties DEF Stages, Control, DecodeData
<1>1. CASE DecodePop
  <2>1. Head(chan["packets"].items) \in Packets
    <3>1. /\ "packets" \in Queues /\ chan["packets"].items \in Seq(Packets)
          /\ chan["packets"].items # <<>>
      BY <1>1 DEF DecodePop, CanPop, Queuing, Queues
    <3> QED BY <3>1, HeadTailProperties
  <2>2. /\ \/ packet' = packet /\ sent' = sent /\ UNCHANGED stageVars
           \/ /\ packet' \in Packets /\ sent' = FALSE
              /\ at'["decode"] = "send"
        /\ at["decode"] = "pop"
        /\ UNCHANGED <<decoder, decoded>>
    BY <1>0, <1>1, <2>1, GotoEffect DEF DecodePop
  <2> QED BY <2>2 DEF DecodeData, D, stageVars
<1>2. CASE DecodeAudio \/ DecodeEnd
  <2>1. /\ UNCHANGED decodeVars
        /\ UNCHANGED stageVars \/ at'["decode"] = "done"
    BY <1>0, <1>2, GotoEffect DEF DecodeAudio, DecodeEnd
  <2> QED BY <2>1 DEF DecodeData, D, stageVars, decodeVars
<1>3. CASE DecodeSend
  <2>1. /\ at["decode"] = "send" /\ at'["decode"] = "receive"
        /\ packet' = packet /\ decoded' = decoded
        /\ \/ sent' = TRUE /\ decoder' = Append(decoder, packet.pts)
           \/ sent' = sent /\ decoder' = decoder
    BY <1>0, <1>3, GotoEffect DEF DecodeSend
  <2>2. packet.pts \in Nat /\ packet \in Packets /\ decoder \in Seq(Nat)
        /\ Len(decoder) <= DecoderDelay
    BY <2>1 DEF DecodeData, D, Packets
  <2>3. decoder' \in Seq(Nat) /\ Len(decoder') <= DecoderDelay + 1
    <3>1. CASE decoder' = Append(decoder, packet.pts)
      <4>1. decoder' \in Seq(Nat) /\ Len(decoder') = Len(decoder) + 1
        BY <2>2, <3>1, AppendProperties
      <4> QED BY <1>0, <2>2, <4>1
    <3>2. CASE decoder' = decoder
      BY <1>0, <2>2, <3>2
    <3> QED BY <2>1, <3>1, <3>2
  <2> QED BY <2>1, <2>2, <2>3 DEF DecodeData, D
<1>4. CASE DecodeReceive
  <2>1. /\ at["decode"] = "receive" /\ Len(decoder) > DecoderDelay
        /\ decoder' = Tail(decoder) /\ packet' = packet /\ sent' = sent
        /\ \/ decoded' = Append(decoded, Head(decoder)) /\ UNCHANGED stageVars
           \/ decoded' = decoded /\ at'["decode"] \in {"pop", "send"}
    BY <1>0, <1>4, GotoEffect DEF DecodeReceive, AfterReceive
  <2>2. decoder \in Seq(Nat) /\ decoder # <<>> /\ decoded \in Seq(Nat)
    BY <1>0, <2>1 DEF DecodeData
  <2>3. /\ decoder' \in Seq(Nat) /\ Head(decoder) \in Nat
        /\ Len(decoder') = Len(decoder) - 1
    BY <2>1, <2>2, HeadTailProperties
  <2>4. decoded' \in Seq(Nat)
    <3>1. CASE decoded' = Append(decoded, Head(decoder))
      BY <2>2, <2>3, <3>1, AppendProperties
    <3>2. CASE decoded' = decoded
      BY <2>2, <3>2
    <3> QED BY <2>1, <3>1, <3>2
  <2>5. Len(decoder') <= DecoderDelay
    BY <1>0, <2>3 DEF DecodeData
  <2> QED BY <1>0, <2>1, <2>3, <2>4, <2>5 DEF DecodeData, D, stageVars
<1>5. CASE DecodeDrained
  <2>1. /\ at["decode"] = "receive" /\ Len(decoder) <= DecoderDelay
        /\ UNCHANGED decodeVars
    BY <1>5 DEF DecodeDrained
  <2> QED BY <2>1 DEF DecodeData, D, decodeVars
<1>6. CASE ~DecodeStep
  <2>1. UNCHANGED decodeVars /\ Stays("decode")
    BY <1>6, DecodeQuiet
  <2> QED BY <2>1 DEF DecodeData, D, decodeVars, Stays
<1> QED BY <1>1, <1>2, <1>3, <1>4, <1>5, <1>6 DEF DecodeStep

LEMMA EncodeDataStep ==
    ASSUME Control, Queuing, EncodeData, [Next]_vars
    PROVE  EncodeData'
<1>0. /\ "encode" \in Stages /\ DOMAIN at = Stages
      /\ EncoderDelay \in Nat /\ Len(encoder) \in Nat /\ encoder \in Seq(Int)
  BY PipelineAssumption, LenProperties DEF Stages, Control, EncodeData
<1>1. CASE EncodeFrame
  <2>1. Head(chan["processed"].items) \in Picture
    <3>1. /\ chan["processed"].items \in Seq(Picture)
          /\ chan["processed"].items # <<>>
      BY <1>1 DEF EncodeFrame, CanPop, Queuing
    <3> QED BY <3>1, HeadTailProperties
  <2>2. at'["encode"] = "drain" \/ at'["encode"] = "flush drain"
    BY <1>0, <1>1, GotoEffect DEF EncodeFrame
  <2>3. at'["encode"] # "pop"
    BY <2>2, Zenon
  <2>4. /\ \/ /\ encoder' = Append(encoder, Head(chan["processed"].items).pts)
              /\ flushed' = flushed
           \/ encoder' = encoder /\ flushed' = 0
        /\ at["encode"] = "pop"
    BY <1>1 DEF EncodeFrame
  <2>5. Head(chan["processed"].items).pts \in Int
    BY <2>1 DEF Picture
  <2>6. /\ encoder' \in Seq(Int)
        /\ Len(encoder') <= Len(encoder) + 1
    BY <1>0, <2>4, <2>5, AppendProperties
  <2> QED BY <1>0, <2>3, <2>4, <2>6 DEF EncodeData
<1>2. CASE EncodeNull
  <2>1. at'["encode"] = "flush drain"
    BY <1>0, <1>2, GotoEffect DEF EncodeNull
  <2>2. at'["encode"] # "pop"
    BY <2>1, Zenon
  <2>3. encoder' = encoder /\ flushed' \in {0, flushed}
    BY <1>2 DEF EncodeNull
  <2> QED BY <2>2, <2>3 DEF EncodeData
<1>3. CASE EncodeReceive
  <2>1. /\ PacketReady /\ encoder' = Tail(encoder) /\ flushed' = flushed
        /\ at["encode"] # "pop"
        /\ UNCHANGED stageVars \/ AfterDrain
    BY <1>3 DEF EncodeReceive
  <2>2. encoder # <<>>
    BY <1>0, <2>1 DEF PacketReady
  <2>3. encoder' \in Seq(Int) /\ Len(encoder') = Len(encoder) - 1
    BY <1>0, <2>1, <2>2, HeadTailProperties
  <2> QED BY <1>0, <2>1, <2>3 DEF EncodeData, stageVars
<1>4. CASE EncodeDrained
  <2>1. ~PacketReady /\ UNCHANGED encodeVars /\ AfterDrain
    BY <1>4 DEF EncodeDrained
  <2>2. CASE FlushStarted
    <3>1. at'["encode"] = "done" \/ at'["encode"] = "flush pop"
      BY <1>0, <2>1, <2>2, GotoEffect DEF AfterDrain
    <3>2. at'["encode"] # "pop"
      BY <3>1, Zenon
    <3> QED BY <2>1, <3>2 DEF EncodeData, encodeVars
  <2>3. CASE ~FlushStarted
    BY <1>0, <2>1, <2>3 DEF EncodeData, encodeVars, PacketReady
  <2> QED BY <2>2, <2>3
<1>5. CASE ~EncodeStep
  <2>1. UNCHANGED encodeVars /\ Stays("encode")
    BY <1>5, EncodeQuiet
  <2> QED BY <2>1 DEF EncodeData, encodeVars, Stays
<1> QED BY <1>1, <1>2, <1>3, <1>4, <1>5 DEF EncodeStep

(* What each step of processFrames does to the frames in its hands.        *)

Restamped(r, dts, pts) == [r EXCEPT !.dts = dts, !.pts = pts]
Adopted(r, pts, child) == [r EXCEPT !.pts = pts, !.child = child]

LEMMA TwoFields ==
    ASSUME NEW r, NEW a, NEW b, NEW c, NEW u, NEW v,
           r = [pts |-> a, dts |-> b, child |-> c]
    PROVE  /\ Adopted(r, u, v) = [pts |-> u, dts |-> b, child |-> v]
           /\ Restamped(r, u, v) = [pts |-> v, dts |-> u, child |-> c]
<1> DEFINE s == [r EXCEPT !.pts = u]
           t == [r EXCEPT !.dts = u]
<1>1. s = [pts |-> u, dts |-> b, child |-> c]
  OBVIOUS
<1>2. t = [pts |-> a, dts |-> u, child |-> c]
  OBVIOUS
<1> HIDE DEF s, t
<1>3. [s EXCEPT !.child = v] = [pts |-> u, dts |-> b, child |-> v]
  BY <1>1
<1>4. [t EXCEPT !.pts = v] = [pts |-> v, dts |-> u, child |-> c]
  BY <1>2
<1>5. [r EXCEPT !.pts = u, !.child = v]
         = [pts |-> u, dts |-> b, child |-> v]
  BY <1>3 DEF s
<1>6. [r EXCEPT !.dts = u, !.pts = v]
         = [pts |-> v, dts |-> u, child |-> c]
  BY <1>4 DEF t
<1> QED BY <1>5, <1>6 DEF Adopted, Restamped

Popped(frame) ==
    [pts |-> IF nextPts # None /\ deltaPts # None THEN nextPts ELSE frame.pts,
     dts |-> frame.pts, child |-> None]

LEMMA PopEffects ==
    ASSUME Control, Queuing, ProcessData, Shape, ProcessPop
    PROVE  LET items == chan["frames"].items IN
           /\ P = "pop" /\ ~chan["frames"].quit /\ ~chan'["frames"].quit
           /\ items # <<>> /\ Head(items) = items[1] /\ items[1] \in Decoded
           /\ chan'["frames"].items = Tail(items)
           /\ Len(chan'["frames"].items) = Len(items) - 1
           /\ \A j \in 1..(Len(items) - 1) :
                 chan'["frames"].items[j] = items[j + 1]
           /\ ready' \in Seq(Picture) /\ Len(ready') = Len(ready) + 1
           /\ \A k \in 1..Len(ready) : ready'[k] = ready[k]
           /\ ready'[Len(ready) + 1] = Popped(items[1])
           /\ P' = IF Len(ready') = 3 THEN "decide" ELSE "pop"
           /\ nextPts' = IF nextPts # None /\ deltaPts # None
                         THEN nextPts + deltaPts ELSE nextPts
           /\ UNCHANGED <<deltaPts, skippedCount, index, handed>>
<1> DEFINE items == chan["frames"].items
           p == IF nextPts # None /\ deltaPts # None THEN nextPts
                ELSE items[1].pts
<1>1. /\ P = "pop" /\ items # <<>> /\ ~chan["frames"].quit
      /\ ready' = Append(ready, Renumbered(Head(items)))
      /\ nextPts' = IF nextPts # None /\ deltaPts # None
                    THEN nextPts + deltaPts ELSE nextPts
      /\ Pop("frames")
      /\ Goto("processFrames", IF Len(ready') = 3 THEN "decide" ELSE "pop")
      /\ UNCHANGED <<deltaPts, skippedCount, index, handed>>
  BY DEF ProcessPop, CanPop, P
<1>2. items \in Seq(Decoded) /\ ready \in Seq(Picture)
  BY DEF Queuing, ProcessData
<1>3. /\ Head(items) = items[1] /\ items[1] \in Decoded
      /\ Len(Tail(items)) = Len(items) - 1
      /\ \A j \in 1..(Len(items) - 1) : Tail(items)[j] = items[j + 1]
  <2>1. Len(items) \in Nat /\ Len(items) > 0 /\ Head(items) = items[1]
    BY <1>1, <1>2
  <2>2. items[1] \in Decoded
    BY <1>2, <2>1, ElementOfSeq
  <2> QED BY <1>1, <1>2, <2>1, <2>2, HeadTailProperties
<1>4. chan'["frames"].items = Tail(items) /\ ~chan'["frames"].quit
  <2>1. DOMAIN chan = Queues /\ Fields("frames") /\ "frames" \in Queues
    BY FieldsUnprimed DEF Queues
  <2> QED BY <1>1, <2>1, PopEffect
<1>5. Renumbered(items[1]) = Popped(items[1]) /\ Popped(items[1]) \in Picture
  <2>1. items[1] = [pts |-> items[1].pts, dts |-> None, child |-> None]
        /\ items[1].pts \in Nat
    BY <1>3 DEF Decoded
  <2>2. Renumbered(items[1]) = [pts |-> p, dts |-> items[1].pts,
                                child |-> None]
    <3> DEFINE x == items[1].pts
               f == items[1]
    <3>1. f = [pts |-> x, dts |-> None, child |-> None]
      BY <2>1
    <3>2. Restamped(f, x, p) = [pts |-> p, dts |-> x, child |-> None]
      BY <3>1, TwoFields
    <3>3. Renumbered(f) = Restamped(f, x, p)
      BY <3>1 DEF Renumbered, Restamped
    <3> QED BY <3>2, <3>3
  <2>3. p \in Int
    BY <2>1 DEF ProcessData
  <2>4. Popped(items[1]) \in Picture
    BY <2>1, <2>3 DEF Popped, Picture
  <2> QED BY <2>2, <2>4 DEF Popped
<1>6. /\ ready' \in Seq(Picture) /\ Len(ready') = Len(ready) + 1
      /\ \A k \in 1..Len(ready) : ready'[k] = ready[k]
      /\ ready'[Len(ready) + 1] = Popped(items[1])
  BY <1>1, <1>2, <1>3, <1>5, AppendProperties
<1>7. P' = IF Len(ready') = 3 THEN "decide" ELSE "pop"
  <2>1. DOMAIN at = Stages /\ "processFrames" \in Stages
    BY DEF Control, Stages
  <2> QED BY <1>1, <2>1, GotoEffect DEF P
<1> QED BY <1>1, <1>3, <1>4, <1>6, <1>7

LEMMA KeepEffects ==
    ASSUME Control, ProcessKeep
    PROVE  P = "decide" /\ P' = "index" /\ UNCHANGED <<chan, processVars>>
<1>1. DOMAIN at = Stages /\ "processFrames" \in Stages
  BY DEF Control, Stages
<1> QED BY <1>1, GotoEffect DEF P, ProcessKeep

LEMMA DropEffects ==
    ASSUME Control, ProcessData, Shape, ProcessDrop
    PROVE  /\ P = "decide" /\ P' = "index"
           /\ Len(ready) = 3 /\ \A k \in 1..3 : ready[k] \in Picture
           /\ ready' \in Seq(Picture) /\ Len(ready') = 2
           /\ ready'[1] = ready[1]
           /\ ready'[2] = [pts |-> ready[2].pts, dts |-> ready[3].dts,
                           child |-> ready[2].dts]
           /\ nextPts' = ready[3].pts
           /\ deltaPts' = ready[3].pts - ready[2].pts
           /\ skippedCount' = skippedCount + 1
           /\ UNCHANGED <<chan, index, handed>>
<1> DEFINE parent == [ready[3] EXCEPT !.pts = ready[2].pts,
                                      !.child = ready[2].dts]
           merged == [pts |-> ready[2].pts, dts |-> ready[3].dts,
                      child |-> ready[2].dts]
<1>1. /\ P = "decide"
      /\ ready' = <<ready[1], parent>>
      /\ nextPts' = ready[3].pts
      /\ deltaPts' = ready[3].pts - ready[2].pts
      /\ skippedCount' = skippedCount + 1
      /\ Goto("processFrames", "index")
      /\ UNCHANGED <<chan, index, handed>>
  BY DEF ProcessDrop, P
<1>2. Len(ready) = 3 /\ ready \in Seq(Picture)
  BY <1>1 DEF Shape, ProcessData
<1>3. \A k \in 1..3 : ready[k] \in Picture
  BY <1>2, ElementOfSeq
<1>4. parent = merged /\ merged \in Picture
  <2>1. /\ ready[3] = [pts |-> ready[3].pts, dts |-> ready[3].dts,
                       child |-> ready[3].child]
        /\ ready[3].dts \in Nat
        /\ ready[2].pts \in Int /\ ready[2].dts \in Nat
    BY <1>3 DEF Picture
  <2> DEFINE a == ready[3].pts
             b == ready[3].dts
             c == ready[3].child
             u == ready[2].pts
             v == ready[2].dts
  <2>2. Adopted(ready[3], u, v) = [pts |-> u, dts |-> b, child |-> v]
    BY <2>1, TwoFields
  <2>3. parent = merged
    BY <2>2 DEF Adopted
  <2>4. merged \in Picture
    BY <2>1 DEF Picture
  <2> QED BY <2>3, <2>4
<1> HIDE DEF parent, merged
<1>5. /\ ready' \in Seq(Picture) /\ Len(ready') = 2
      /\ ready'[1] = ready[1] /\ ready'[2] = merged
  <2>1. ready[1] \in Picture
    BY <1>3
  <2> QED BY <1>1, <1>4, <2>1
<1>6. P' = "index"
  <2>1. DOMAIN at = Stages /\ "processFrames" \in Stages
    BY DEF Control, Stages
  <2> QED BY <1>1, <2>1, GotoEffect DEF P
<1> QED BY <1>1, <1>2, <1>3, <1>5, <1>6 DEF merged

LEMMA AppendTwo ==
    ASSUME NEW S, NEW s \in Seq(S), NEW a \in S, NEW b \in S
    PROVE  s \o <<a>> \o <<b>> = Append(Append(s, a), b)
<1>1. Append(s, a) = s \o <<a>> /\ Append(s, a) \in Seq(S)
  BY AppendIsConcat, AppendProperties
<1>2. Append(Append(s, a), b) = Append(s, a) \o <<b>>
  BY <1>1, AppendIsConcat
<1> QED BY <1>1, <1>2

LEMMA AppendOne ==
    ASSUME NEW S, NEW s \in Seq(S), NEW b \in S
    PROVE  s \o <<>> \o <<b>> = Append(s, b)
  BY ConcatEmptySeq, AppendIsConcat

LEMMA IndexEffects ==
    ASSUME Control, ProcessData, Shape, ProcessIndex
    PROVE  /\ P = "index" /\ P' = "push"
           /\ Len(ready) \in Nat /\ Len(ready) > 0 /\ ready[1] \in Picture
           /\ Width(ready[1]) \in {1, 2}
           /\ index' \in Seq(Lines)
           /\ Len(index') = Len(index) + Width(ready[1])
           /\ \A i \in 1..Len(index) : index'[i] = index[i]
           /\ index'[Len(index')] = Line(ready[1].dts, TRUE)
           /\ ready[1].child # None =>
                 index'[Len(index') - 1] = Line(ready[1].child, FALSE)
           /\ UNCHANGED <<chan, ready, nextPts, deltaPts, skippedCount,
                          handed>>
<1> DEFINE frame == ready[1]
           last == Line(frame.dts, TRUE)
           child == Line(frame.child, FALSE)
<1>1. /\ P = "index"
      /\ index' = index
            \o (IF Head(ready).child # None
                THEN <<Line(Head(ready).child, FALSE)>> ELSE <<>>)
            \o <<Line(Head(ready).dts, TRUE)>>
      /\ Goto("processFrames", "push")
      /\ UNCHANGED <<chan, ready, nextPts, deltaPts, skippedCount, handed>>
  BY DEF ProcessIndex, P
<1>2. /\ ready \in Seq(Picture) /\ ready # <<>> /\ Len(ready) \in Nat
      /\ Len(ready) > 0 /\ Head(ready) = frame
  BY <1>1 DEF Shape, ProcessData
<1>3. frame \in Picture
  BY <1>2, ElementOfSeq
<1>4. last \in Lines /\ (frame.child # None => child \in Lines)
  BY <1>3 DEF Picture, Lines, Line
<1>5. index \in Seq(Lines) /\ Len(index) \in Nat
  BY DEF ProcessData
<1>6. /\ index' \in Seq(Lines) /\ Width(frame) \in {1, 2}
      /\ Len(index') = Len(index) + Width(frame)
      /\ \A i \in 1..Len(index) : index'[i] = index[i]
      /\ index'[Len(index')] = last
      /\ frame.child # None => index'[Len(index') - 1] = child
  <2>1. CASE frame.child # None
    <3>1. index' = index \o <<child>> \o <<last>> /\ Width(frame) = 2
      BY <1>1, <1>2, <2>1 DEF Width
    <3> HIDE DEF child, last, frame
    <3> DEFINE front == Append(index, child)
    <3>2. index' = Append(front, last)
      <4>1. child \in Lines /\ last \in Lines /\ index \in Seq(Lines)
        BY <1>4, <1>5, <2>1
      <4>2. index \o <<child>> \o <<last>> = Append(Append(index, child), last)
        BY <4>1, AppendTwo
      <4> QED BY <3>1, <4>2
    <3>3. /\ front \in Seq(Lines) /\ Len(front) = Len(index) + 1
          /\ \A i \in 1..Len(index) : front[i] = index[i]
          /\ front[Len(index) + 1] = child
      BY <1>4, <1>5, <2>1, AppendProperties
    <3> HIDE DEF front
    <3>4. /\ index' \in Seq(Lines) /\ Len(index') = Len(front) + 1
          /\ \A i \in 1..Len(front) : index'[i] = front[i]
          /\ index'[Len(front) + 1] = last
      BY <1>4, <3>2, <3>3, AppendProperties
    <3> QED BY <1>5, <3>1, <3>3, <3>4
  <2>2. CASE frame.child = None
    <3>1. index' = index \o <<>> \o <<last>> /\ Width(frame) = 1
      BY <1>1, <1>2, <2>2 DEF Width
    <3> HIDE DEF child, last, frame
    <3>2. index' = Append(index, last)
      BY <1>4, <1>5, <3>1, AppendOne
    <3>3. /\ index' \in Seq(Lines) /\ Len(index') = Len(index) + 1
          /\ \A i \in 1..Len(index) : index'[i] = index[i]
          /\ index'[Len(index) + 1] = last
      BY <1>4, <1>5, <3>2, AppendProperties
    <3> QED BY <1>5, <2>2, <3>1, <3>3
  <2> QED BY <2>1, <2>2
<1>7. P' = "push"
  <2>1. DOMAIN at = Stages /\ "processFrames" \in Stages
    BY DEF Control, Stages
  <2> QED BY <1>1, <2>1, GotoEffect DEF P
<1> QED BY <1>1, <1>2, <1>3, <1>6, <1>7

LEMMA PushEffects ==
    ASSUME Control, Queuing, ProcessData, Shape, ProcessPush
    PROVE  /\ P = "push" /\ ready \in Seq(Picture)
           /\ Len(ready) \in Nat /\ Len(ready) > 0 /\ ready[1] \in Picture
           /\ UNCHANGED <<index, nextPts, deltaPts, skippedCount>>
           /\ chan'["frames"] = chan["frames"]
           /\ \/ /\ ready' \in Seq(Picture) /\ Len(ready') = Len(ready) - 1
                 /\ \A k \in 1..(Len(ready) - 1) : ready'[k] = ready[k + 1]
                 /\ handed' \in Seq(Picture) /\ Len(handed') = Len(handed) + 1
                 /\ \A n \in 1..Len(handed) : handed'[n] = handed[n]
                 /\ handed'[Len(handed) + 1] = ready[1]
                 /\ P' = IF Len(ready) = 1 THEN "pop" ELSE "index"
              \/ /\ ready' = <<>> /\ handed' = handed
                 /\ P' = "pop" /\ chan["frames"].quit
<1>1. /\ P = "push" /\ UNCHANGED <<index, nextPts, deltaPts, skippedCount>>
      /\ \/ /\ Push("processed", Head(ready))
            /\ handed' = Append(handed, Head(ready))
            /\ ready' = Tail(ready)
            /\ Goto("processFrames", IF ready' = <<>> THEN "pop" ELSE "index")
         \/ /\ PushFails("processed") /\ ready' = <<>> /\ handed' = handed
            /\ Goto("processFrames", "pop") /\ chan' = chan
  BY DEF ProcessPush, P
<1>2. /\ DOMAIN at = Stages /\ "processFrames" \in Stages
      /\ DOMAIN chan = Queues /\ Fields("processed")
      /\ "processed" \in Queues /\ "frames" \in Queues
  BY FieldsUnprimed DEF Control, Stages, Queues
<1>3. /\ ready \in Seq(Picture) /\ ready # <<>> /\ Len(ready) \in Nat
      /\ Len(ready) > 0 /\ handed \in Seq(Picture)
  BY <1>1 DEF Shape, ProcessData
<1>4. /\ ready[1] \in Picture /\ Head(ready) = ready[1]
      /\ Tail(ready) \in Seq(Picture) /\ Len(Tail(ready)) = Len(ready) - 1
      /\ \A k \in 1..(Len(ready) - 1) : Tail(ready)[k] = ready[k + 1]
  <2>1. Head(ready) = ready[1]
    BY <1>3
  <2> QED BY <1>3, <2>1, HeadTailProperties
<1>5. CASE /\ Push("processed", Head(ready))
           /\ handed' = Append(handed, Head(ready))
           /\ ready' = Tail(ready)
           /\ Goto("processFrames", IF ready' = <<>> THEN "pop" ELSE "index")
  <2>1. chan'["frames"] = chan["frames"]
    BY <1>2, <1>5, PushEffect DEF Others
  <2>2. /\ handed' \in Seq(Picture) /\ Len(handed') = Len(handed) + 1
        /\ \A n \in 1..Len(handed) : handed'[n] = handed[n]
        /\ handed'[Len(handed) + 1] = ready[1]
    BY <1>3, <1>4, <1>5, AppendProperties
  <2>3. (ready' = <<>>) <=> (Len(ready) = 1)
    <3>1. ready' \in Seq(Picture) /\ Len(ready') = Len(ready) - 1
      BY <1>4, <1>5
    <3>2. (ready' = <<>>) <=> (Len(ready') = 0)
      BY <3>1, EmptySeq
    <3> QED BY <1>3, <3>1, <3>2
  <2>4. P' = IF ready' = <<>> THEN "pop" ELSE "index"
    BY <1>2, <1>5, GotoEffect DEF P
  <2>5. P' = IF Len(ready) = 1 THEN "pop" ELSE "index"
    BY <2>3, <2>4
  <2> QED BY <1>1, <1>3, <1>4, <1>5, <2>1, <2>2, <2>5
<1>6. CASE /\ PushFails("processed") /\ ready' = <<>> /\ handed' = handed
           /\ Goto("processFrames", "pop") /\ chan' = chan
  <2>1. P' = "pop"
    BY <1>2, <1>6, GotoEffect DEF P
  <2>2. chan["frames"].quit
    BY <1>1, <1>2, <1>6 DEF PushFails, Queuing
  <2> QED BY <1>1, <1>3, <1>4, <1>6, <2>1, <2>2
<1> QED BY <1>1, <1>5, <1>6

LEMMA EndEffects ==
    ASSUME Control, Queuing, ProcessEnd
    PROVE  /\ P = "pop" /\ P' = "done" /\ ready' = <<>>
           /\ UNCHANGED <<index, handed, nextPts, deltaPts, skippedCount>>
<1>1. DOMAIN at = Stages /\ "processFrames" \in Stages
  BY DEF Control, Stages
<1> QED BY <1>1, GotoEffect DEF P, ProcessEnd

LEMMA ProcessDataStep ==
    ASSUME Control, Queuing, ProcessData, Shape, [Next]_vars
    PROVE  ProcessData' /\ Shape'
<1>0. /\ Len(ready) \in Nat /\ Len(handed) \in Nat
      /\ ready \in Seq(Picture) /\ handed \in Seq(Picture)
  BY LenProperties DEF ProcessData
<1>1. CASE ProcessPop
  <2> DEFINE f == chan["frames"].items[1]
  <2>1. /\ P = "pop" /\ f \in Decoded
        /\ ready' \in Seq(Picture) /\ Len(ready') = Len(ready) + 1
        /\ \A k \in 1..Len(ready) : ready'[k] = ready[k]
        /\ ready'[Len(ready) + 1] = Popped(f)
        /\ P' = IF Len(ready') = 3 THEN "decide" ELSE "pop"
        /\ nextPts' = nextPts \/ nextPts' = nextPts + deltaPts
        /\ UNCHANGED <<deltaPts, skippedCount, index, handed>>
    BY <1>1, PopEffects
  <2> HIDE DEF f
  <2>2. Popped(f).child = None
    BY DEF Popped
  <2>3. ProcessData'
    BY <2>1 DEF ProcessData
  <2>4. Len(ready) <= 2 /\ \A k \in 1..Len(ready) : ready[k].child = None
    BY <2>1 DEF Shape
  <2>5. \A k \in 1..Len(ready') : ready'[k].child = None
    BY <1>0, <2>1, <2>2, <2>4
  <2>6. Shape'
    BY <1>0, <2>1, <2>4, <2>5 DEF Shape
  <2> QED BY <2>3, <2>6
<1>2. CASE ProcessEnd
  <2>1. P' = "done" /\ ready' = <<>>
        /\ UNCHANGED <<index, handed, nextPts, deltaPts, skippedCount>>
    BY <1>2, EndEffects
  <2> QED BY <2>1 DEF ProcessData, Shape
<1>3. CASE ProcessKeep
  <2>1. P = "decide" /\ P' = "index" /\ UNCHANGED processVars
    BY <1>3, KeepEffects
  <2>2. Len(ready) = 3 /\ \A k \in 1..Len(ready) : ready[k].child = None
    BY <2>1 DEF Shape
  <2>3. ProcessData'
    BY <2>1 DEF ProcessData, processVars
  <2>4. ready' = ready /\ ready # <<>>
    BY <2>1, <2>2 DEF processVars
  <2>5. Shape'
    BY <2>1, <2>2, <2>4 DEF Shape
  <2> QED BY <2>3, <2>5
<1>4. CASE ProcessDrop
  <2>1. /\ P = "decide" /\ P' = "index"
        /\ Len(ready) = 3 /\ \A k \in 1..3 : ready[k] \in Picture
        /\ ready' \in Seq(Picture) /\ Len(ready') = 2
        /\ ready'[1] = ready[1]
        /\ nextPts' = ready[3].pts
        /\ deltaPts' = ready[3].pts - ready[2].pts
        /\ skippedCount' = skippedCount + 1
        /\ UNCHANGED <<chan, index, handed>>
    BY <1>4, DropEffects
  <2>2. ready[3].pts \in Int /\ ready[2].pts \in Int
    BY <2>1 DEF Picture
  <2>3. ready[1].child = None
    BY <2>1 DEF Shape
  <2>4. ProcessData'
    BY <2>1, <2>2 DEF ProcessData
  <2>5. ready' # <<>> /\ \A k \in 1..2 : ready'[k].child # None => k = 2
    BY <2>1, <2>3
  <2>6. Shape'
    BY <2>1, <2>5 DEF Shape
  <2> QED BY <2>4, <2>6
<1>5. CASE ProcessIndex
  <2>1. /\ P = "index" /\ P' = "push" /\ Len(ready) > 0
        /\ index' \in Seq(Lines)
        /\ UNCHANGED <<ready, nextPts, deltaPts, skippedCount, handed>>
    BY <1>5, IndexEffects
  <2> QED BY <2>1 DEF ProcessData, Shape
<1>6. CASE ProcessPush
  <2>1. /\ P = "push"
        /\ UNCHANGED <<index, nextPts, deltaPts, skippedCount>>
        /\ \/ /\ ready' \in Seq(Picture) /\ Len(ready') = Len(ready) - 1
              /\ \A k \in 1..(Len(ready) - 1) : ready'[k] = ready[k + 1]
              /\ handed' \in Seq(Picture)
              /\ P' = IF Len(ready) = 1 THEN "pop" ELSE "index"
           \/ ready' = <<>> /\ handed' = handed /\ P' = "pop"
    BY <1>6, PushEffects
  <2>2. CASE ready' = <<>> /\ handed' = handed /\ P' = "pop"
    BY <2>1, <2>2 DEF ProcessData, Shape
  <2>3. CASE /\ ready' \in Seq(Picture) /\ Len(ready') = Len(ready) - 1
             /\ \A k \in 1..(Len(ready) - 1) : ready'[k] = ready[k + 1]
             /\ handed' \in Seq(Picture)
             /\ P' = IF Len(ready) = 1 THEN "pop" ELSE "index"
    <3>1. ProcessData'
      BY <2>1, <2>3 DEF ProcessData
    <3>2. \A k \in 1..Len(ready') : ready'[k].child # None =>
             k = Len(ready') /\ P' \notin {"pop", "decide"}
      <4> SUFFICES ASSUME NEW k \in 1..Len(ready'), ready'[k].child # None
                   PROVE  k = Len(ready') /\ P' \notin {"pop", "decide"}
        OBVIOUS
      <4>1. k \in 1..(Len(ready) - 1) /\ k + 1 \in 1..Len(ready)
            /\ Len(ready) # 1
        <5>1. Len(ready') = Len(ready) - 1
          BY <2>3
        <5> QED BY <1>0, <5>1
      <4>2. ready[k + 1].child # None
        BY <2>3, <4>1
      <4>3. k + 1 = Len(ready)
        BY <4>1, <4>2 DEF Shape
      <4> QED BY <1>0, <2>3, <4>1, <4>3
    <3>3. Len(ready) <= 3 /\ Len(ready) > 0
      BY <1>0, <2>1 DEF Shape
    <3>4. Len(ready) # 1 => ready' # <<>>
      BY <1>0, <2>3, <3>3
    <3> QED BY <1>0, <2>3, <3>1, <3>2, <3>3, <3>4 DEF Shape
  <2> QED BY <2>1, <2>2, <2>3
<1>7. CASE ~ProcessStep
  <2>1. UNCHANGED processVars /\ Stays("processFrames")
    BY <1>7, ProcessQuiet
  <2> QED BY <2>1 DEF ProcessData, Shape, P, processVars, Stays
<1> QED BY <1>1, <1>2, <1>3, <1>4, <1>5, <1>6, <1>7 DEF ProcessStep

LEMMA DataStep ==
    ASSUME Control, Queuing, Data, Shape, [Next]_vars
    PROVE  Data' /\ Shape'
  BY FileStep, DecodeDataStep, ProcessDataStep, EncodeDataStep DEF Data

-----------------------------------------------------------------------------
(* The frames in hand are those that follow the index.                     *)

LEMMA FramesQuiet ==
    ASSUME Queuing, [Next]_vars, ~DecodeReceive, ~ProcessPop
    PROVE  chan'["frames"].items = chan["frames"].items
<1> DEFINE same == chan'["frames"].items = chan["frames"].items
<1>0. /\ DOMAIN chan = Queues /\ \A q \in Queues : Fields(q)
      /\ "frames" \in Queues /\ "packets" \in Queues
      /\ "processed" \in Queues
  BY FieldsUnprimed DEF Queues
<1>1. ASSUME NEW q \in Queues, NEW x,
             Finish(q) \/ (q # "frames" /\ (Push(q, x) \/ Pop(q)))
      PROVE  same
  BY <1>0, <1>1, PushEffect, PopEffect, FinishEffect DEF Others
<1>2. CASE DemultiplexStep
  BY <1>0, <1>1, <1>2
  DEF DemultiplexStep, DemultiplexPush, DemultiplexEnd
<1>3. CASE DecodeStep
  BY <1>0, <1>1, <1>3
  DEF DecodeStep, DecodePop, DecodeAudio, DecodeEnd, DecodeSend, DecodeDrained
<1>4. CASE ProcessStep
  BY <1>0, <1>1, <1>4
  DEF ProcessStep, ProcessEnd, ProcessKeep, ProcessDrop, ProcessIndex,
      ProcessPush
<1>5. CASE EncodeStep
  BY <1>0, <1>1, <1>5
  DEF EncodeStep, EncodeFrame, EncodeNull, EncodeReceive, EncodeDrained
<1>6. CASE HandlerStep
  <2>1. \/ chan' = chan
        \/ \E q : chan' = [chan EXCEPT ![q].quit = TRUE]
    BY <1>6 DEF HandlerStep, Throw, CatchQuit
  <2>2. ASSUME NEW q, chan' = [chan EXCEPT ![q].quit = TRUE]
        PROVE  chan'["frames"].items = chan["frames"].items
    <3>1. CASE q = "frames"
      BY <1>0, <2>2, <3>1, QuitEffect
    <3>2. CASE q # "frames"
      BY <1>0, <2>2, <3>2
    <3> QED BY <3>1, <3>2
  <2> QED BY <2>1, <2>2
<1>7. CASE UNCHANGED vars
  BY <1>7 DEF vars
<1> QED BY <1>2, <1>3, <1>4, <1>5, <1>6, <1>7, NextCases

(* A step that leaves the frames in hand alone, or ends the stage.         *)
LEMMA OrderedQuiet ==
    ASSUME Ordered, Lasting, UNCHANGED <<processVars, decoded>>,
           Stays("processFrames"),
           chan'["frames"].items = chan["frames"].items
    PROVE  Ordered'
<1>1. /\ UNCHANGED <<index, ready, decoded>>
      /\ chan["frames"].quit => chan'["frames"].quit
  BY DEF processVars, Lasting
<1>2. CASE P' = P
  <2>1. Base' = Base /\ (Whole' => Whole) /\ Parent' = Parent
    BY <1>1, <1>2 DEF Base, Whole, Parent
  <2>2. Taken' = Taken /\ \A k : InHand(k) => InHand(k)'
    BY <1>1, <2>1 DEF Taken, InHand
  <2> HIDE DEF Base, Taken, InHand, Whole
  <2> QED BY <1>1, <2>1, <2>2 DEF Ordered
<1>3. CASE P' \in {"catch", "done"}
  <2>1. ~Whole'
    BY <1>3 DEF Whole
  <2> QED BY <1>1, <2>1 DEF Ordered
<1> QED BY <1>2, <1>3 DEF Stays, P

LEMMA OrderedReceive ==
    ASSUME Control, Queuing, Lasting, DecodeData, ProcessData, Shape,
           Ordered, DecodeReceive
    PROVE  Ordered'
<1> DEFINE items == chan["frames"].items
           frame == [pts |-> Head(decoder), dts |-> None, child |-> None]
<1>1. /\ UNCHANGED processVars /\ P' = P /\ Len(decoder) > DecoderDelay
      /\ \/ Push("frames", frame) /\ decoded' = Append(decoded, frame.pts)
         \/ UNCHANGED <<chan, decoded>>
  <2>1. DecodeStep
    BY DEF DecodeStep
  <2>2. Only("decode") /\ UNCHANGED processVars
    BY <2>1, DecodeMoves
  <2>3. P' = P
    BY <2>2 DEF Only, Stages, P
  <2> QED BY <2>2, <2>3 DEF DecodeReceive
<1>2. CASE UNCHANGED <<chan, decoded>>
  BY <1>1, <1>2, OrderedQuiet DEF Stays, P
<1>3. CASE Push("frames", frame) /\ decoded' = Append(decoded, frame.pts)
  <2> DEFINE d == Head(decoder)
  <2>1. d \in Nat /\ decoded \in Seq(Nat) /\ items \in Seq(Decoded)
        /\ Len(decoded) \in Nat /\ Len(items) \in Nat
    <3>1. decoder \in Seq(Nat) /\ decoder # <<>>
      BY <1>1, PipelineAssumption DEF DecodeData
    <3> QED BY <3>1, HeadTailProperties, LenProperties DEF DecodeData, Queuing
  <2>2. frame \in Decoded /\ frame.pts = d
    BY <2>1 DEF Decoded
  <2>3. /\ chan'["frames"].items = Append(items, frame)
        /\ chan'["frames"].quit = chan["frames"].quit
    <3>1. DOMAIN chan = Queues /\ Fields("frames") /\ "frames" \in Queues
      BY FieldsUnprimed DEF Queues
    <3> QED BY <1>3, <3>1, PushEffect
  <2>4. /\ Len(decoded') = Len(decoded) + 1 /\ decoded'[Len(decoded) + 1] = d
        /\ \A i \in 1..Len(decoded) : decoded'[i] = decoded[i]
    BY <1>3, <2>1, <2>2, AppendProperties
  <2>5. /\ Len(chan'["frames"].items) = Len(items) + 1
        /\ chan'["frames"].items[Len(items) + 1]
              = [pts |-> d, dts |-> None, child |-> None]
        /\ \A i \in 1..Len(items) : chan'["frames"].items[i] = items[i]
    BY <2>1, <2>2, <2>3, AppendProperties
  <2> HIDE DEF items, d
  <2>6. UNCHANGED <<index, ready>>
    BY <1>1 DEF processVars
  <2>7. /\ Base' = Base /\ (Whole' <=> Whole) /\ Taken' = Taken
    <3>1. Base' = Base /\ Parent' = Parent
      BY <1>1, <2>6 DEF Base, Parent
    <3>2. Whole' <=> Whole
      BY <1>1, <2>3 DEF Whole
    <3> QED BY <2>6, <3>1, <3>2 DEF Taken
  <2>8. /\ Len(index') <= Len(decoded')
        /\ \A i \in 1..Len(index') : index'[i].pts = decoded'[i]
    <3>1. Len(index) \in Nat
      BY DEF ProcessData
    <3> QED BY <2>1, <2>4, <2>6, <3>1 DEF Ordered
  <2>9. ASSUME Whole
        PROVE  /\ Base' \in Nat /\ Taken' <= Len(decoded')
               /\ \A k \in 1..Len(ready') : InHand(k)'
    <3>1. /\ Base \in Nat /\ Taken <= Len(decoded) /\ Taken \in Nat
          /\ Taken >= Base + Len(ready) /\ Len(ready) \in Nat
          /\ Parent => Taken = Base + Len(ready) + 1
          /\ \A k \in 1..Len(ready) : InHand(k)
      BY <2>9 DEF Ordered, Taken, ProcessData
    <3>2. ASSUME NEW k \in 1..Len(ready) PROVE InHand(k)'
      <4>1. InHand(k) /\ k \in Nat /\ Base + k \in 1..Len(decoded)
        BY <2>1, <3>1
      <4>2. CASE ready[k].child = None
        BY <2>4, <2>6, <2>7, <4>1, <4>2 DEF InHand
      <4>3. CASE ready[k].child # None /\ Base + k + 1 \in 1..Len(decoded)
        BY <2>4, <2>6, <2>7, <4>1, <4>3 DEF InHand
      <4>4. ready[k].child # None => Base + k + 1 \in 1..Len(decoded)
        <5>1. ASSUME ready[k].child # None PROVE k = Len(ready) /\ Parent
          BY <3>1, <5>1 DEF Shape, Parent
        <5> QED BY <2>1, <3>1, <4>1, <5>1
      <4> QED BY <4>2, <4>3, <4>4
    <3> QED BY <2>1, <2>4, <2>6, <2>7, <3>1, <3>2
  <2>10. ASSUME Whole, ~chan["frames"].quit
         PROVE  /\ Len(decoded') = Taken' + Len(chan'["frames"].items)
                /\ \A j \in 1..Len(chan'["frames"].items) :
                      chan'["frames"].items[j] =
                         [pts |-> decoded'[Taken' + j], dts |-> None,
                          child |-> None]
    <3>1. /\ Len(decoded) = Taken + Len(items) /\ Taken \in Nat
          /\ \A j \in 1..Len(items) :
                items[j] = [pts |-> decoded[Taken + j], dts |-> None,
                            child |-> None]
      BY <2>10 DEF Ordered, items, Taken, ProcessData
    <3>2. ASSUME NEW j \in 1..(Len(items) + 1)
          PROVE  chan'["frames"].items[j]
                    = [pts |-> decoded'[Taken + j], dts |-> None,
                       child |-> None]
      <4>1. CASE j = Len(items) + 1
        <5>1. Taken + j = Len(decoded) + 1
          BY <2>1, <3>1, <4>1
        <5> QED BY <2>4, <2>5, <4>1, <5>1
      <4>2. CASE j # Len(items) + 1
        <5>1. j \in 1..Len(items) /\ Taken + j \in 1..Len(decoded)
          BY <2>1, <3>1, <4>2
        <5> QED BY <2>4, <2>5, <3>1, <5>1
      <4> QED BY <4>1, <4>2
    <3> QED BY <2>1, <2>4, <2>5, <2>7, <3>1, <3>2
  <2> QED BY <2>3, <2>7, <2>8, <2>9, <2>10 DEF Ordered
<1> QED BY <1>1, <1>2, <1>3

(* The numbers in Ordered, for the frames in hand.                         *)
LEMMA HandFacts ==
    ASSUME ProcessData, DecodeData, Shape, Ordered
    PROVE  /\ Len(index) \in Nat /\ Len(ready) \in Nat /\ Len(ready) <= 3
           /\ Len(decoded) \in Nat
           /\ Taken = IF Parent THEN Base + Len(ready) + 1
                      ELSE Base + Len(ready)
           /\ Whole => Base \in Nat /\ Taken \in Nat /\ Taken <= Len(decoded)
           /\ \A k \in 1..Len(ready) : ready[k] \in Picture
           /\ \A k \in 1..Len(ready) : ready[k].child # None =>
                 k = Len(ready) /\ Parent
<1>1. /\ ready \in Seq(Picture) /\ index \in Seq(Lines) /\ decoded \in Seq(Nat)
  BY DEF ProcessData, DecodeData
<1>2. /\ Len(index) \in Nat /\ Len(ready) \in Nat /\ Len(decoded) \in Nat
      /\ \A k \in 1..Len(ready) : ready[k] \in Picture
      /\ Len(ready) <= 3
  BY <1>1, LenProperties, ElementOfSeq DEF Shape
<1>3. Base \in Int
  <2>1. Width(ready[1]) \in Int
    BY DEF Width
  <2> QED BY <1>2, <2>1 DEF Base
<1>4. Taken = IF Parent THEN Base + Len(ready) + 1 ELSE Base + Len(ready)
  BY <1>2, <1>3 DEF Taken
<1>5. Whole => Base \in Nat /\ Taken <= Len(decoded)
  BY DEF Ordered
<1>6. Whole => Taken \in Nat
  BY <1>2, <1>4, <1>5
<1>7. \A k \in 1..Len(ready) : ready[k].child # None =>
         k = Len(ready) /\ Parent
  BY <1>2 DEF Shape, Parent
<1> QED BY <1>2, <1>4, <1>5, <1>6, <1>7

LEMMA OrderedPop ==
    ASSUME Control, Queuing, DecodeData, ProcessData, Shape, Shape',
           Ordered, ProcessPop
    PROVE  Ordered'
<1> DEFINE items == chan["frames"].items
           new == chan'["frames"].items
<1>1. /\ P = "pop" /\ ~chan["frames"].quit /\ items # <<>>
      /\ items[1] \in Decoded /\ items \in Seq(Decoded)
      /\ Len(new) = Len(items) - 1
      /\ \A j \in 1..(Len(items) - 1) : new[j] = items[j + 1]
      /\ ready' \in Seq(Picture) /\ Len(ready') = Len(ready) + 1
      /\ \A k \in 1..Len(ready) : ready'[k] = ready[k]
      /\ ready'[Len(ready) + 1] = Popped(items[1])
      /\ P' # "push" /\ index' = index
  BY PopEffects DEF Queuing
<1>2. decoded' = decoded
  BY DEF ProcessPop, decodeVars
<1> HIDE DEF items, new
<1>3. Len(items) \in Nat /\ Len(items) > 0
  BY <1>1, LenProperties, EmptySeq
<1>4. /\ Whole /\ ~Parent /\ Base = Len(index) /\ Base' = Base
  BY <1>1 DEF Whole, Parent, Base, Shape
<1>5. /\ Taken = Base + Len(ready) /\ Len(ready) \in Nat /\ Base \in Nat
      /\ Len(decoded) = Taken + Len(items)
      /\ \A j \in 1..Len(items) :
            items[j] = [pts |-> decoded[Taken + j], dts |-> None,
                        child |-> None]
      /\ \A k \in 1..Len(ready) : InHand(k)
  BY <1>1, <1>4, HandFacts DEF Ordered, items
<1>6. \A k \in 1..Len(ready) : ready[k].child = None
  BY <1>1 DEF Shape
<1>7. items[1].pts = decoded[Base + Len(ready) + 1]
  <2>1. 1 \in 1..Len(items) /\ Taken + 1 = Base + Len(ready) + 1
    BY <1>3, <1>5
  <2>2. items[1] = [pts |-> decoded[Taken + 1], dts |-> None, child |-> None]
    BY <1>5, <2>1
  <2> QED BY <2>1, <2>2
<1>8. ASSUME NEW k \in 1..(Len(ready) + 1)
      PROVE  ready'[k].child = None /\ ready'[k].dts = decoded[Base + k]
  <2>1. CASE k = Len(ready) + 1
    BY <1>1, <1>5, <1>7, <2>1 DEF Popped
  <2>2. CASE k # Len(ready) + 1
    <3>1. k \in 1..Len(ready) /\ ready'[k] = ready[k]
      BY <1>1, <1>5, <2>2
    <3>2. InHand(k) /\ ready[k].child = None
      BY <1>5, <1>6, <3>1
    <3> QED BY <3>1, <3>2 DEF InHand
  <2> QED BY <2>1, <2>2
<1>9. /\ ~Parent' /\ Taken' = Base + Len(ready) + 1
      /\ \A k \in 1..Len(ready') : InHand(k)'
  <2>1. ~Parent'
    BY <1>1, <1>5, <1>8 DEF Parent
  <2>2. Taken' = Base + Len(ready) + 1
    BY <1>1, <1>4, <1>5, <2>1 DEF Taken
  <2>3. \A k \in 1..Len(ready') : InHand(k)'
    BY <1>1, <1>2, <1>4, <1>8 DEF InHand
  <2> QED BY <2>1, <2>2, <2>3
<1>10. /\ Base' \in Nat /\ Taken' <= Len(decoded')
       /\ Len(decoded') = Taken' + Len(new)
  BY <1>1, <1>2, <1>3, <1>4, <1>5, <1>9
<1>11. ASSUME NEW j \in 1..Len(new)
       PROVE  new[j] = [pts |-> decoded'[Taken' + j], dts |-> None,
                        child |-> None]
  <2>1. j \in 1..(Len(items) - 1) /\ j + 1 \in 1..Len(items)
        /\ Taken' + j = Taken + (j + 1)
    BY <1>1, <1>3, <1>5, <1>9
  <2> QED BY <1>1, <1>2, <1>5, <2>1
<1>12. /\ Len(index') <= Len(decoded')
       /\ \A i \in 1..Len(index') : index'[i].pts = decoded'[i]
  BY <1>1, <1>2 DEF Ordered
<1> QED BY <1>9, <1>10, <1>11, <1>12 DEF Ordered, new

(* A step that moves frames within the hands of processFrames.             *)
LEMMA OrderedByHand ==
    ASSUME Queuing, Ordered, Whole, chan'["frames"] = chan["frames"],
           decoded' = decoded,
           Len(index') <= Len(decoded),
           \A i \in 1..Len(index') : index'[i].pts = decoded[i],
           Whole' => /\ Base' \in Nat /\ Taken' = Taken
                     /\ \A k \in 1..Len(ready') : InHand(k)'
    PROVE  Ordered'
<1>1. CASE Whole'
  <2>1. /\ Base' \in Nat /\ Taken' = Taken
        /\ \A k \in 1..Len(ready') : InHand(k)'
    BY <1>1
  <2> HIDE DEF Taken, InHand, Base, Whole
  <2> QED BY <2>1 DEF Ordered
<1>2. CASE ~Whole'
  BY <1>2 DEF Ordered
<1> QED BY <1>1, <1>2

(* The frames in hand when the first gets its line, and when it is handed  *)
(* on: what was taken from the frame queue stays the same.                 *)
LEMMA HandIndex ==
    ASSUME Control, ProcessData, Shape, ProcessIndex
    PROVE  /\ Whole /\ Base = Len(index) /\ Base' = Base /\ Taken' = Taken
           /\ \A k : InHand(k) => InHand(k)'
<1>1. /\ P = "index" /\ P' = "push"
      /\ Len(index') = Len(index) + Width(ready[1])
      /\ ready' = ready
  BY IndexEffects
<1>2. Width(ready[1]) \in {1, 2} /\ Len(index) \in Nat
  BY LenProperties DEF Width, ProcessData
<1>3. Whole /\ Base = Len(index)
  BY <1>1 DEF Whole, Base
<1>4. Base' = Base
  <2> DEFINE w == Width(ready[1])
             n == Len(index)
  <2>1. Base' = (n + w) - w
    BY <1>1 DEF Base
  <2>2. n \in Nat /\ w \in {1, 2}
    BY <1>2
  <2> HIDE DEF n, w
  <2> QED BY <1>3, <2>1, <2>2 DEF n
<1>5. Parent' = Parent
  BY <1>1 DEF Parent
<1>6. decoded' = decoded
  BY DEF ProcessIndex, decodeVars
<1> QED BY <1>1, <1>3, <1>4, <1>5, <1>6 DEF Taken, InHand

LEMMA HandPush ==
    ASSUME Control, Queuing, DecodeData, ProcessData, Shape, Ordered,
           ProcessPush
    PROVE  /\ Whole
           /\ Whole' => /\ Base' \in Nat /\ Taken' = Taken
                        /\ \A k \in 1..Len(ready') : InHand(k)'
<1>0. Whole
  BY DEF ProcessPush, Whole, P
<1>1. /\ P = "push" /\ index' = index
      /\ Len(ready) \in Nat /\ Len(ready) > 0
      /\ chan'["frames"] = chan["frames"]
      /\ \/ /\ ready' \in Seq(Picture) /\ Len(ready') = Len(ready) - 1
            /\ \A k \in 1..(Len(ready) - 1) : ready'[k] = ready[k + 1]
            /\ P' = IF Len(ready) = 1 THEN "pop" ELSE "index"
         \/ P' = "pop" /\ chan["frames"].quit
  BY PushEffects
<1>2. decoded' = decoded
  BY DEF ProcessPush, decodeVars
<1>5. Len(ready) \in Nat /\ Len(ready) > 0
  BY <1>1
<1>3. CASE P' = "pop" /\ chan["frames"].quit
  <2>1. ~Whole'
    BY <1>1, <1>3 DEF Whole
  <2> QED BY <1>1, <2>1 DEF Whole
<1>4. CASE /\ ready' \in Seq(Picture) /\ Len(ready') = Len(ready) - 1
           /\ \A k \in 1..(Len(ready) - 1) : ready'[k] = ready[k + 1]
           /\ P' = IF Len(ready) = 1 THEN "pop" ELSE "index"
  <2> DEFINE w == Width(ready[1])
  <2>1. w = IF ready[1].child = None THEN 1 ELSE 2
    BY DEF Width
  <2>2. Whole /\ Base = Len(index) - w /\ Base' = Len(index)
    BY <1>1, <1>4 DEF Whole, Base
  <2> HIDE DEF w
  <2>3. /\ Base \in Nat /\ Base' = Base + w /\ Len(index) \in Nat
        /\ \A k \in 1..Len(ready) : InHand(k)
    BY <2>1, <2>2, HandFacts DEF Ordered
  <2>4. CASE ready[1].child # None
    <3>1. Len(ready) = 1 /\ Parent /\ w = 2
      <4>1. 1 \in 1..Len(ready)
        BY <1>1
      <4>2. 1 = Len(ready) /\ Parent
        BY <2>4, <4>1, HandFacts
      <4> QED BY <2>1, <2>4, <4>2
    <3>2. Len(ready') = 0 /\ ~Parent' /\ ready' = <<>>
      BY <1>4, <3>1, EmptySeq DEF Parent
    <3>3. Taken' = Taken
      BY <2>3, <3>1, <3>2 DEF Taken
    <3>4. \A k \in 1..Len(ready') : InHand(k)'
      BY <3>2
    <3> QED BY <2>2, <2>3, <3>1, <3>3, <3>4
  <2>5. CASE ready[1].child = None
    <3>1. w = 1
      BY <2>1, <2>5
    <3>2. Parent' <=> Parent
      <4>1. CASE Len(ready) = 1
        <5>1. ready' = <<>>
          BY <1>4, <4>1, EmptySeq
        <5> QED BY <2>5, <4>1, <5>1 DEF Parent
      <4>2. CASE Len(ready) # 1
        <5>1. /\ ready' # <<>> /\ ready # <<>>
              /\ ready'[Len(ready')] = ready[Len(ready)]
          <6>1. Len(ready) - 1 \in 1..(Len(ready) - 1)
                /\ Len(ready) - 1 + 1 = Len(ready)
            <7> DEFINE r == Len(ready)
            <7>1. r \in Nat /\ r > 0 /\ r # 1
              BY <1>5, <4>2
            <7> HIDE DEF r
            <7>2. r - 1 \in 1..(r - 1) /\ r - 1 + 1 = r
              BY <7>1
            <7> QED BY <7>2 DEF r
          <6> QED BY <1>4, <6>1, EmptySeq DEF Shape
        <5> QED BY <5>1 DEF Parent
      <4> QED BY <4>1, <4>2
    <3>3. Taken' = Taken
      <4>1. Len(ready') = Len(ready) - 1 /\ Base' = Base + 1
        BY <1>4, <2>3, <3>1
      <4> QED BY <1>1, <2>3, <3>2, <4>1 DEF Taken
    <3>4. ASSUME NEW k \in 1..Len(ready') PROVE InHand(k)'
      <4>1. /\ ready'[k] = ready[k + 1] /\ InHand(k + 1)
            /\ Base + (k + 1) = Base' + k /\ Base + (k + 1) + 1 = Base' + k + 1
        <5>1. k \in 1..(Len(ready) - 1) /\ k + 1 \in 1..Len(ready)
          <6>1. Len(ready') = Len(ready) - 1
            BY <1>4
          <6> QED BY <1>1, <6>1
        <5>2. ready'[k] = ready[k + 1] /\ InHand(k + 1)
          BY <1>4, <2>3, <5>1
        <5> QED BY <2>3, <3>1, <5>1, <5>2
      <4> QED BY <1>2, <4>1 DEF InHand
    <3> QED BY <2>2, <2>3, <3>1, <3>3, <3>4
  <2> QED BY <2>4, <2>5
<1> QED BY <1>1, <1>3, <1>4

LEMMA HandDrop ==
    ASSUME Control, ProcessData, Shape, Ordered, ProcessDrop
    PROVE  /\ Whole /\ Base' = Base /\ Base = Len(index) /\ Base \in Nat
           /\ Taken = Base + 3 /\ Taken' = Taken
           /\ \A k \in 1..3 : ready[k].dts = decoded[Base + k]
           /\ \A k \in 1..3 : ready[k].child = None
           /\ ready[2].dts # None
<1>1. /\ P = "decide" /\ P' = "index" /\ Len(ready) = 3
      /\ Len(ready') = 2
      /\ ready'[2] = [pts |-> ready[2].pts, dts |-> ready[3].dts,
                      child |-> ready[2].dts]
      /\ \A k \in 1..3 : ready[k] \in Picture
      /\ ready' \in Seq(Picture) /\ index' = index
  BY DropEffects
<1>2. Whole /\ Base' = Base /\ Base = Len(index)
  BY <1>1 DEF Whole, Base
<1>3. /\ \A k \in 1..3 : ready[k].child = None
      /\ \A k \in 1..3 : ready[k].dts = decoded[Base + k]
      /\ ~Parent /\ Base \in Nat
  BY <1>1, <1>2 DEF Shape, Ordered, InHand, Parent
<1>4. ready[2].dts # None
  BY <1>1 DEF Picture, None
<1>5. Parent'
  <2>1. Len(ready') # 0 /\ ready'[Len(ready')] = ready'[2]
    BY <1>1
  <2>2. ready' # <<>>
    BY <2>1, EmptySeq
  <2>3. ready'[2].child = ready[2].dts
    BY <1>1
  <2> QED BY <1>4, <2>1, <2>2, <2>3 DEF Parent
<1>6. Taken' = Base + 3 /\ Taken = Base + 3
  BY <1>1, <1>2, <1>3, <1>5 DEF Taken
<1> QED BY <1>2, <1>3, <1>4, <1>6

LEMMA OrderedProcess ==
    ASSUME Control, Queuing, Lasting, DecodeData, ProcessData, Shape, Shape',
           Ordered, ProcessStep
    PROVE  Ordered'
<1>0. decoded' = decoded
  BY ProcessMoves DEF decodeVars
<1>1. CASE ProcessPop
  BY <1>1, OrderedPop
<1>2. CASE ProcessEnd
  <2>1. P' = "done" /\ index' = index
    BY <1>2, EndEffects
  <2>2. ~Whole'
    BY <2>1 DEF Whole
  <2> QED BY <1>0, <2>1, <2>2 DEF Ordered
<1>3. CASE ProcessKeep
  <2>1. /\ P = "decide" /\ P' = "index" /\ chan' = chan
        /\ UNCHANGED <<index, ready>>
    BY <1>3, KeepEffects DEF processVars
  <2>2. Whole /\ Base' = Base /\ Parent' = Parent
    BY <2>1 DEF Whole, Base, Parent
  <2>3. Taken' = Taken /\ \A k : InHand(k) => InHand(k)'
    BY <1>0, <2>1, <2>2 DEF Taken, InHand
  <2>4. /\ Base \in Nat /\ \A k \in 1..Len(ready) : InHand(k)
        /\ Len(index) <= Len(decoded)
        /\ \A i \in 1..Len(index) : index[i].pts = decoded[i]
    BY <2>2 DEF Ordered
  <2> QED BY <1>0, <2>1, <2>2, <2>3, <2>4, OrderedByHand
<1>4. CASE ProcessDrop
  <2>1. /\ P = "decide" /\ P' = "index" /\ Len(ready) = 3
        /\ Len(ready') = 2 /\ ready'[1] = ready[1]
        /\ ready'[2] = [pts |-> ready[2].pts, dts |-> ready[3].dts,
                        child |-> ready[2].dts]
        /\ \A k \in 1..3 : ready[k] \in Picture
        /\ UNCHANGED <<chan, index>>
        /\ ready' \in Seq(Picture)
    BY <1>4, DropEffects
  <2>2. /\ Whole /\ Base' = Base /\ Base \in Nat /\ Taken' = Taken
        /\ \A k \in 1..3 : ready[k].dts = decoded[Base + k]
        /\ \A k \in 1..3 : ready[k].child = None
        /\ ready[2].dts # None
    BY <1>4, HandDrop
  <2>3. \A k \in 1..Len(ready') : InHand(k)'
    <3>1. InHand(1)'
      BY <1>0, <2>1, <2>2 DEF InHand
    <3>2. InHand(2)'
      <4>1. /\ ready'[2].child = decoded[Base + 2]
            /\ ready'[2].dts = decoded[Base + 3]
            /\ ready'[2].child # None
            /\ Base + 2 + 1 = Base + 3
        BY <2>1, <2>2
      <4> QED BY <1>0, <2>2, <4>1 DEF InHand
    <3>3. \A k \in 1..2 : k = 1 \/ k = 2
      OBVIOUS
    <3> QED BY <2>1, <3>1, <3>2, <3>3
  <2>4. /\ Len(index) <= Len(decoded)
        /\ \A i \in 1..Len(index) : index[i].pts = decoded[i]
    BY DEF Ordered
  <2> QED BY <1>0, <2>1, <2>2, <2>3, <2>4, OrderedByHand
<1>5. CASE ProcessIndex
  <2> DEFINE w == Width(ready[1])
  <2>1. /\ P = "index" /\ P' = "push"
        /\ Len(ready) \in Nat /\ Len(ready) > 0
        /\ w \in {1, 2}
        /\ Len(index') = Len(index) + w
        /\ \A i \in 1..Len(index) : index'[i] = index[i]
        /\ index'[Len(index')] = Line(ready[1].dts, TRUE)
        /\ ready[1].child # None =>
              index'[Len(index') - 1] = Line(ready[1].child, FALSE)
        /\ UNCHANGED <<chan, ready>>
    BY <1>5, IndexEffects
  <2>2. w = IF ready[1].child = None THEN 1 ELSE 2
    BY DEF Width
  <2> HIDE DEF w
  <2>3. /\ Whole /\ Base = Len(index) /\ Len(index) \in Nat
        /\ Base' = Base /\ Taken' = Taken
        /\ \A k : InHand(k) => InHand(k)'
    BY <1>5, HandIndex, LenProperties DEF ProcessData
  <2>6. /\ Base \in Nat /\ \A k \in 1..Len(ready) : InHand(k)
        /\ Len(decoded) \in Nat /\ Taken \in Nat /\ Taken <= Len(decoded)
        /\ \A i \in 1..Len(index) : index[i].pts = decoded[i]
    BY <2>3, HandFacts DEF Ordered
  <2>7. Len(index') <= Taken
    BY <2>1, <2>2, <2>3, HandFacts
  <2>8. ASSUME NEW i \in 1..Len(index') PROVE index'[i].pts = decoded[i]
    <3>1. /\ Line(ready[1].dts, TRUE).pts = ready[1].dts
          /\ Line(ready[1].child, FALSE).pts = ready[1].child
          /\ ready[1].child = None => ready[1].dts = decoded[Base + 1]
          /\ ready[1].child # None =>
                /\ ready[1].child = decoded[Base + 1]
                /\ ready[1].dts = decoded[Base + 1 + 1]
      <4>1. 1 \in 1..Len(ready)
        BY <2>1
      <4>2. InHand(1)
        BY <2>6, <4>1
      <4> QED BY <4>2 DEF Line, InHand
    <3>2. CASE i \in 1..Len(index)
      BY <2>1, <2>6, <3>2
    <3>3. CASE i = Len(index')
      <4>1. CASE ready[1].child = None
        <5>1. i = Base + 1
          BY <2>1, <2>2, <2>3, <3>3, <4>1
        <5> QED BY <2>1, <3>1, <3>3, <4>1, <5>1
      <4>2. CASE ready[1].child # None
        <5>1. i = Base + 1 + 1
          BY <2>1, <2>2, <2>3, <3>3, <4>2
        <5> QED BY <2>1, <3>1, <3>3, <4>2, <5>1
      <4> QED BY <4>1, <4>2
    <3>4. CASE i \notin 1..Len(index) /\ i # Len(index')
      <4>1. ready[1].child # None /\ i = Base + 1 /\ i = Len(index') - 1
        BY <2>1, <2>2, <2>3, <3>4
      <4> QED BY <2>1, <3>1, <4>1
    <3> QED BY <3>2, <3>3, <3>4
  <2>9. Len(index') <= Len(decoded)
    BY <2>1, <2>3, <2>6, <2>7
  <2> QED BY <1>0, <2>1, <2>3, <2>6, <2>8, <2>9, OrderedByHand
<1>6. CASE ProcessPush
  <2>1. index' = index /\ chan'["frames"] = chan["frames"]
    BY <1>6, PushEffects
  <2>2. /\ Len(index) <= Len(decoded)
        /\ \A i \in 1..Len(index) : index[i].pts = decoded[i]
    BY DEF Ordered
  <2>3. /\ Whole
        /\ Whole' => /\ Base' \in Nat /\ Taken' = Taken
                     /\ \A k \in 1..Len(ready') : InHand(k)'
    BY <1>6, HandPush
  <2> QED BY <1>0, <2>1, <2>2, <2>3, OrderedByHand
<1> QED BY <1>1, <1>2, <1>3, <1>4, <1>5, <1>6 DEF ProcessStep

LEMMA OrderedStep ==
    ASSUME Control, Queuing, Lasting, DecodeData, ProcessData, Shape, Shape',
           Ordered, [Next]_vars
    PROVE  Ordered'
<1>1. CASE ProcessStep
  BY <1>1, OrderedProcess
<1>2. CASE DecodeReceive
  BY <1>2, OrderedReceive
<1>3. CASE ~ProcessStep /\ ~DecodeReceive
  <2>1. decoded' = decoded
    <3>1. CASE DecodeStep
      BY <1>3, <3>1
      DEF DecodeStep, DecodePop, DecodeAudio, DecodeEnd, DecodeSend,
          DecodeDrained, decodeVars
    <3>2. CASE ~DecodeStep
      BY <3>2, DecodeQuiet DEF decodeVars
    <3> QED BY <3>1, <3>2
  <2>2. chan'["frames"].items = chan["frames"].items
    BY <1>3, FramesQuiet DEF ProcessStep
  <2>3. UNCHANGED processVars /\ Stays("processFrames")
    BY <1>3, ProcessQuiet
  <2> QED BY <2>1, <2>2, <2>3, OrderedQuiet
<1> QED BY <1>1, <1>2, <1>3

-----------------------------------------------------------------------------
(* The lines of the index and the frames given to the encoder.             *)

LEMMA LinedQuiet ==
    ASSUME Lasting, UNCHANGED processVars, Stays("processFrames"),
           NEW line, Lined(line)
    PROVE  Lined(line)'
<1>1. UNCHANGED <<index, handed, ready>>
      /\ (chan["frames"].quit => chan'["frames"].quit)
  BY DEF processVars, Lasting
<1>2. CASE P' = P
  <2>1. Base' = Base /\ (Whole' => Whole)
    BY <1>1, <1>2 DEF Base, Whole
  <2> HIDE DEF Base, Whole
  <2> QED BY <1>1, <1>2, <2>1 DEF Lined
<1>3. CASE P' \in {"catch", "done"}
  <2>1. ~Whole' /\ P' # "push"
    BY <1>3 DEF Whole
  <2> QED BY <1>1, <2>1 DEF Lined
<1> QED BY <1>2, <1>3 DEF Stays, P

(* The steps that only change the frames in hand.                          *)
LEMMA LinedSame ==
    ASSUME UNCHANGED <<index, handed>>, P' # "push",
           Whole' => Whole /\ Base' = Base, NEW line, Lined(line)
    PROVE  Lined(line)'
<1> USE DEF Lined
<1>1. Whole' => line[Len(handed')] = Base'
  <2> HIDE DEF Whole, Base
  <2> QED OBVIOUS
<1> QED BY <1>1

LEMMA LinedIndex ==
    ASSUME Control, ProcessData, DecodeData, Shape, Ordered, ProcessIndex,
           NEW line, Lined(line)
    PROVE  Lined(line)'
<1> DEFINE w == Width(ready[1])
           m == line[Len(handed)]
<1>1. /\ P = "index" /\ P' = "push"
      /\ w \in {1, 2}
      /\ Len(index') = Len(index) + w
      /\ \A i \in 1..Len(index) : index'[i] = index[i]
      /\ index'[Len(index')] = Line(ready[1].dts, TRUE)
      /\ ready[1].child # None =>
            index'[Len(index') - 1] = Line(ready[1].child, FALSE)
      /\ UNCHANGED <<ready, handed>>
  BY IndexEffects
<1>2. w = 2 => ready[1].child # None
  BY DEF Width
<1>3. /\ Whole /\ Base = Len(index) /\ Len(index) \in Nat
  BY <1>1 DEF Whole, Base, ProcessData
<1>4. Base' = Len(index)
  <2>1. Base' = Len(index') - w
    BY <1>1 DEF Base
  <2> HIDE DEF w
  <2> QED BY <1>1, <1>3, <2>1
<1>5. m = Len(index)
  BY <1>3 DEF Lined
<1> HIDE DEF w
<1>6. ASSUME NEW n \in 1..Len(handed)
      PROVE  /\ line[n] \in 1..Len(index')
             /\ index'[line[n]] = Line(handed[n].dts, TRUE)
             /\ handed[n].child # None =>
                   /\ line[n] - 1 \in 1..Len(index')
                   /\ index'[line[n] - 1] = Line(handed[n].child, FALSE)
  <2>1. /\ line[n] \in 1..Len(index)
        /\ index[line[n]] = Line(handed[n].dts, TRUE)
        /\ handed[n].child # None =>
              /\ line[n] - 1 \in 1..Len(index)
              /\ index[line[n] - 1] = Line(handed[n].child, FALSE)
    BY DEF Lined
  <2>2. \A i \in 1..Len(index) : i \in 1..Len(index')
    BY <1>1, <1>3
  <2> QED BY <1>1, <2>1, <2>2
<1>7. m \in 0..Len(index')
  BY <1>1, <1>3, <1>5
<1>8. ASSUME NEW i \in (m + 1)..Len(index'), index'[i].kept
      PROVE  i = Len(index')
  <2>1. CASE w = 1
    BY <1>1, <1>3, <1>5, <2>1
  <2>2. CASE w = 2 /\ i # Len(index')
    <3>1. i = Len(index') - 1
      BY <1>1, <1>3, <1>5, <2>2
    <3>2. index'[i] = Line(ready[1].child, FALSE)
      BY <1>1, <1>2, <2>2, <3>1
    <3> QED BY <1>8, <3>2 DEF Line
  <2> QED BY <1>1, <2>1, <2>2
<1> QED BY <1>1, <1>4, <1>5, <1>6, <1>7, <1>8 DEF Lined

LEMMA LinedPush ==
    ASSUME Control, Queuing, ProcessData, DecodeData, Shape, Ordered,
           ProcessPush, NEW line, Lined(line), Counts(line)'
    PROVE  Lined(line)'
<1>1. /\ P = "push" /\ index' = index
      /\ ready \in Seq(Picture) /\ Len(ready) \in Nat /\ Len(ready) > 0
      /\ chan'["frames"] = chan["frames"]
      /\ \/ /\ Len(handed') = Len(handed) + 1
            /\ \A n \in 1..Len(handed) : handed'[n] = handed[n]
            /\ handed'[Len(handed) + 1] = ready[1]
            /\ P' = IF Len(ready) = 1 THEN "pop" ELSE "index"
         \/ handed' = handed /\ P' = "pop" /\ chan["frames"].quit
  BY PushEffects
<1>2. CASE handed' = handed /\ P' = "pop" /\ chan["frames"].quit
  <2>1. ~Whole'
    BY <1>1, <1>2 DEF Whole
  <2> QED BY <1>1, <1>2, <2>1, LinedSame
<1>3. CASE /\ Len(handed') = Len(handed) + 1
           /\ \A n \in 1..Len(handed) : handed'[n] = handed[n]
           /\ handed'[Len(handed) + 1] = ready[1]
           /\ P' = IF Len(ready) = 1 THEN "pop" ELSE "index"
  <2> DEFINE w == Width(ready[1])
             h == Len(handed)
  <2>1. h \in Nat /\ Len(index) \in Nat
    BY DEF ProcessData
  <2>2. /\ Whole /\ Base = Len(index) - w /\ Base' = Len(index) /\ P' # "push"
    BY <1>1, <1>3 DEF Whole, Base
  <2>3. w = IF ready[1].child = None THEN 1 ELSE 2
    BY DEF Width
  <2>4. line[h + 1] = line[h] + w
    <3>1. h + 1 \in 1..Len(handed') /\ h + 1 - 1 = h
      BY <1>3, <2>1
    <3>2. line[h + 1] = line[h + 1 - 1] + Width(handed'[h + 1])
      BY <3>1 DEF Counts
    <3> QED BY <1>3, <3>1, <3>2
  <2> HIDE DEF w
  <2>5. line[h] = Base /\ Base \in Nat
    BY <2>2, HandFacts DEF Lined
  <2>6. line[h + 1] = Len(index) /\ Len(index) >= 1
        /\ (ready[1].child # None => Len(index) - 1 >= 1)
    BY <2>1, <2>2, <2>3, <2>4, <2>5
  <2>7. /\ index[Len(index)] = Line(ready[1].dts, TRUE)
        /\ ready[1].child # None =>
              index[Len(index) - 1] = Line(ready[1].child, FALSE)
    BY <1>1 DEF Lined
  <2>8. ASSUME NEW n \in 1..Len(handed')
        PROVE  /\ line[n] \in 1..Len(index')
               /\ index'[line[n]] = Line(handed'[n].dts, TRUE)
               /\ handed'[n].child # None =>
                     /\ line[n] - 1 \in 1..Len(index')
                     /\ index'[line[n] - 1] = Line(handed'[n].child, FALSE)
    <3>1. CASE n = h + 1
      <4>1. /\ Len(index) \in 1..Len(index)
            /\ ready[1].child # None => Len(index) - 1 \in 1..Len(index)
        BY <2>1, <2>6
      <4> QED BY <1>1, <1>3, <2>6, <2>7, <3>1, <4>1
    <3>2. CASE n # h + 1
      <4>1. n \in 1..h
        BY <1>3, <2>1, <3>2
      <4> QED BY <1>1, <1>3, <4>1 DEF Lined
    <3> QED BY <3>1, <3>2
  <2>9. /\ line[Len(handed')] \in 0..Len(index')
        /\ Whole' => line[Len(handed')] = Base'
        /\ \A i \in (line[Len(handed')] + 1)..Len(index') :
              index'[i].kept => i = Len(index')
    <3>1. line[Len(handed')] = Len(index')
      BY <1>1, <1>3, <2>6
    <3>2. Len(index') \in Nat /\ Base' = Len(index')
      BY <1>1, <2>1, <2>2
    <3> QED BY <3>1, <3>2
  <2> QED BY <2>2, <2>8, <2>9 DEF Lined
<1> QED BY <1>1, <1>2, <1>3

LEMMA LinedStep ==
    ASSUME Control, Queuing, Lasting, ProcessData, DecodeData, Shape, Ordered,
           [Next]_vars, NEW line, Lined(line), Counts(line)'
    PROVE  Lined(line)'
<1>1. CASE ProcessPop
  <2>1. /\ P = "pop" /\ ~chan["frames"].quit /\ P' \in {"decide", "pop"}
        /\ UNCHANGED <<index, handed>>
    BY <1>1, PopEffects
  <2>2. Whole /\ Base' = Base /\ P' # "push"
    BY <2>1 DEF Whole, Base
  <2> QED BY <2>1, <2>2, LinedSame
<1>2. CASE ProcessEnd
  <2>1. P' = "done" /\ UNCHANGED <<index, handed>>
    BY <1>2, EndEffects
  <2>2. ~Whole' /\ P' # "push"
    BY <2>1 DEF Whole
  <2> QED BY <2>1, <2>2, LinedSame
<1>3. CASE ProcessKeep
  <2>1. P = "decide" /\ P' = "index" /\ UNCHANGED <<index, handed>>
    BY <1>3, KeepEffects DEF processVars
  <2>2. Whole /\ Base' = Base /\ P' # "push"
    BY <2>1 DEF Whole, Base
  <2> QED BY <2>1, <2>2, LinedSame
<1>4. CASE ProcessDrop
  <2>1. P = "decide" /\ P' = "index" /\ UNCHANGED <<index, handed>>
    BY <1>4, DropEffects
  <2>2. Whole /\ Base' = Base /\ P' # "push"
    BY <2>1 DEF Whole, Base
  <2> QED BY <2>1, <2>2, LinedSame
<1>5. CASE ProcessIndex
  BY <1>5, LinedIndex
<1>6. CASE ProcessPush
  BY <1>6, LinedPush
<1>7. CASE ~ProcessStep
  BY <1>7, ProcessQuiet, LinedQuiet
<1> QED BY <1>1, <1>2, <1>3, <1>4, <1>5, <1>6, <1>7 DEF ProcessStep

(* The frames given to the encoder only grow in number.                    *)
LEMMA HandedGrows ==
    ASSUME Control, Queuing, ProcessData, Shape, [Next]_vars
    PROVE  \/ handed' = handed
           \/ /\ Len(handed') = Len(handed) + 1
              /\ \A n \in 1..Len(handed) : handed'[n] = handed[n]
<1>1. CASE ProcessPush
  BY <1>1, PushEffects
<1>2. CASE ProcessStep /\ ~ProcessPush
  BY <1>2 DEF ProcessStep, ProcessPop, ProcessEnd, ProcessKeep, ProcessDrop,
     ProcessIndex, processVars
<1>3. CASE ~ProcessStep
  BY <1>3, ProcessQuiet DEF processVars
<1> QED BY <1>1, <1>2, <1>3

LEMMA AlignedStep ==
    ASSUME Control, Queuing, Lasting, ProcessData, DecodeData, Shape, Ordered,
           Aligned, [Next]_vars
    PROVE  Aligned'
<1> DEFINE h == Len(handed)
<1>0. h \in Nat
  BY DEF ProcessData
<1>1. \/ handed' = handed
      \/ /\ Len(handed') = h + 1
         /\ \A n \in 1..h : handed'[n] = handed[n]
  BY HandedGrows
<1>2. ASSUME NEW line, Counts(line)' PROVE Counts(line)
  <2>1. CASE handed' = handed
    BY <1>2, <2>1 DEF Counts
  <2>2. CASE Len(handed') = h + 1 /\ \A n \in 1..h : handed'[n] = handed[n]
    BY <1>0, <1>2, <2>2 DEF Counts
  <2> QED BY <1>1, <2>1, <2>2
<1>3. ASSUME NEW line, Counts(line)' PROVE Lined(line)'
  BY <1>2, <1>3, LinedStep DEF Aligned
<1>4. PICK f : Counts(f)
  BY DEF Aligned
<1>5. \E g : Counts(g)'
  <2>1. CASE handed' = handed
    BY <1>4, <2>1 DEF Counts
  <2>2. CASE Len(handed') = h + 1 /\ \A n \in 1..h : handed'[n] = handed[n]
    <3>0. PICK g : g = [n \in 0..(h + 1) |-> IF n <= h THEN f[n]
                                             ELSE f[h] + Width(handed'[h + 1])]
      OBVIOUS
    <3>1. g[0] = 0
      BY <1>0, <1>4, <3>0 DEF Counts
    <3>2. ASSUME NEW n \in 1..(h + 1)
          PROVE  g[n] = g[n - 1] + Width(handed'[n])
      <4>1. CASE n = h + 1
        <5>1. g[n] = f[h] + Width(handed'[h + 1])
          BY <1>0, <3>0, <4>1
        <5>2. g[n - 1] = f[h]
          BY <1>0, <3>0, <4>1
        <5> QED BY <4>1, <5>1, <5>2
      <4>2. CASE n # h + 1
        <5>1. n \in 1..h /\ n - 1 \in 0..h
          BY <1>0, <4>2
        <5>2. g[n] = f[n] /\ g[n - 1] = f[n - 1] /\ handed'[n] = handed[n]
          BY <1>0, <2>2, <3>0, <5>1
        <5>3. f[n] = f[n - 1] + Width(handed[n])
          BY <1>4, <5>1 DEF Counts
        <5> QED BY <5>2, <5>3
      <4> QED BY <4>1, <4>2
    <3>3. Counts(g)'
      BY <2>2, <3>1, <3>2 DEF Counts
    <3> QED BY <3>3
  <2> QED BY <1>1, <2>1, <2>2
<1> QED BY <1>3, <1>5 DEF Aligned

(* What LineOf is.                                                         *)
LEMMA LineOfCounts ==
    ASSUME Aligned, ProcessData
    PROVE  Counts(LineOf)
<1> DEFINE h == Len(handed)
           step(f) == [n \in 0..h |->
                         IF n = 0 THEN 0 ELSE f[n - 1] + Width(handed[n])]
<1>0. h \in Nat
  BY DEF ProcessData
<1>1. PICK f : Counts(f)
  BY DEF Aligned
<1> DEFINE g == [n \in 0..h |-> f[n]]
<1>2. g = step(g)
  <2>1. ASSUME NEW n \in 0..h PROVE g[n] = step(g)[n]
    <3>1. CASE n = 0
      BY <1>0, <1>1, <3>1 DEF Counts
    <3>2. CASE n # 0
      <4>1. n \in 1..h /\ n - 1 \in 0..h
        BY <1>0, <3>2
      <4>2. g[n] = f[n] /\ g[n - 1] = f[n - 1]
        BY <4>1
      <4>3. f[n] = f[n - 1] + Width(handed[n])
        BY <1>1, <4>1 DEF Counts
      <4>4. step(g)[n] = g[n - 1] + Width(handed[n])
        BY <3>2, <4>1
      <4> QED BY <4>2, <4>3, <4>4
    <3> QED BY <3>1, <3>2
  <2> QED BY <2>1
<1>3. LineOf = CHOOSE line : line = step(line)
  BY DEF LineOf
<1> HIDE DEF g, h, step
<1>4. LineOf = step(LineOf)
  BY <1>2, <1>3, Zenon
<1> DEFINE lines == LineOf
<1>5. lines = step(lines)
  BY <1>4
<1> HIDE DEF lines
<1>6. lines[0] = 0
  BY <1>0, <1>5 DEF step
<1>7. ASSUME NEW n \in 1..h PROVE lines[n] = lines[n - 1] + Width(handed[n])
  <2>1. n \in 0..h /\ n # 0
    BY <1>0
  <2> QED BY <1>5, <2>1 DEF step
<1> QED BY <1>6, <1>7 DEF Counts, lines, h

-----------------------------------------------------------------------------
(* The index and the output agree, in every run.                           *)

Safe == Control /\ Queuing /\ Data /\ Shape /\ Ordered /\ Aligned

LEMMA SafeInit == Init => Safe
<1> SUFFICES ASSUME Init PROVE Safe
  OBVIOUS
<1>0. /\ at = [demultiplex |-> "read", decode |-> "pop",
               processFrames |-> "pop", encode |-> "pop"]
      /\ P = "pop" /\ D = "pop"
      /\ ready = <<>> /\ handed = <<>> /\ index = <<>> /\ decoded = <<>>
      /\ decoder = <<>> /\ encoder = <<>>
  BY DEF Init, P, D
<1>1. Control
  <2>1. at \in [Stages -> AllPlaces]
    <3>1. DOMAIN at = {"demultiplex", "decode", "processFrames", "encode"}
      BY <1>0
    <3>2. at = [s \in Stages |-> at[s]]
      BY <1>0 DEF Stages
    <3>3. \A s \in Stages : at[s] \in AllPlaces
      <4>1. "read" \in AllPlaces /\ "pop" \in AllPlaces
        BY DEF AllPlaces
      <4>2. \A s \in Stages : at[s] = "read" \/ at[s] = "pop"
        BY <1>0 DEF Stages
      <4> QED BY <4>1, <4>2
    <3> QED BY <3>2, <3>3
  <2>2. quitting \in [Stages -> Quits \cup {<<>>}]
    BY DEF Init
  <2>3. /\ at["demultiplex"] = "read" /\ at["encode"] = "pop"
        /\ \A s \in Stages : at[s] # "catch"
    BY <1>0 DEF Stages
  <2> QED BY <1>0, <2>1, <2>2, <2>3 DEF Control
<1>2. Queuing
  <2>1. /\ DOMAIN chan = Queues
        /\ \A q \in Queues : chan[q] = [items |-> <<>>, finished |-> FALSE,
                                        quit |-> FALSE]
    BY DEF Init
  <2>2. QueueMax \in Nat
    BY PipelineAssumption
  <2>3. ASSUME NEW q \in Queues PROVE Queue(q)
    <3>1. /\ chan[q] = [items |-> <<>>, finished |-> FALSE, quit |-> FALSE]
          /\ chan[q].items = <<>> /\ ~chan[q].finished /\ ~chan[q].quit
      BY <2>1
    <3>2. chan[q].items \in Seq(Content(q)) /\ Len(chan[q].items) = 0
      BY <3>1
    <3>3. Fields(q)
      BY <3>1 DEF Fields
    <3> QED BY <2>2, <3>1, <3>2, <3>3 DEF Queue
  <2> QED BY <2>1, <2>3, QueuingIs DEF AllQueues
<1>3. Data
  <2>1. FileData
    <3>1. file \in Seq(Packets) /\ file \in Files /\ position = 0
      BY PipelineAssumption DEF Init, Packets
    <3> QED BY <3>1, LenProperties DEF FileData
  <2>2. DecodeData
    <3>1. D \notin {"send", "receive"} /\ sent \in BOOLEAN
      BY <1>0 DEF Init
    <3>2. /\ decoder \in Seq(Nat) /\ Len(decoder) = 0 /\ decoded \in Seq(Nat)
          /\ DecoderDelay \in Nat
      BY <1>0, PipelineAssumption
    <3> QED BY <3>1, <3>2 DEF DecodeData
  <2>3. ProcessData
    BY <1>0 DEF Init, ProcessData, None
  <2>4. EncodeData
    BY <1>0, PipelineAssumption DEF Init, EncodeData
  <2> QED BY <2>1, <2>2, <2>3, <2>4 DEF Data
<1>4. Shape
  BY <1>0 DEF Shape
<1>5. /\ Base = 0 /\ ~Parent /\ Taken = 0
  BY <1>0 DEF Base, Parent, Taken
<1>6. Ordered
  <2>1. chan["frames"].items = <<>>
    BY DEF Init, Queues
  <2> QED BY <1>0, <1>5, <2>1 DEF Ordered
<1>7. Aligned
  <2> DEFINE zero == [n \in {0} |-> 0]
  <2>1. Counts(zero)
    BY <1>0 DEF Counts
  <2>2. ASSUME NEW line, Counts(line) PROVE Lined(line)
    BY <1>0, <1>5, <2>2 DEF Counts, Lined
  <2> QED BY <2>1, <2>2 DEF Aligned
<1> QED BY <1>1, <1>2, <1>3, <1>4, <1>6, <1>7 DEF Safe

LEMMA SafeStep == Safe /\ [Next]_vars => Safe' /\ Lasting
<1> SUFFICES ASSUME Safe, [Next]_vars PROVE Safe' /\ Lasting
  OBVIOUS
<1>1. /\ Control /\ Queuing /\ Data /\ Shape /\ Ordered /\ Aligned
      /\ ProcessData /\ DecodeData
  BY DEF Safe, Data
<1>2. Control' /\ Lasting /\ Queuing'
  BY <1>1, StageStep
<1>3. Data' /\ Shape'
  BY <1>1, DataStep
<1>4. Ordered'
  BY <1>1, <1>2, <1>3, OrderedStep
<1>5. Aligned'
  BY <1>1, <1>2, AlignedStep
<1> QED BY <1>2, <1>3, <1>4, <1>5 DEF Safe

LEMMA SafeCorrect == Spec => []Safe
  BY SafeInit, SafeStep, PTL DEF Spec

LEMMA SafeAligned == Safe => IndexAligned
<1> SUFFICES ASSUME Safe PROVE IndexAligned
  OBVIOUS
<1>1. Aligned /\ ProcessData
  BY DEF Safe, Data
<1>2. Lined(LineOf)
  BY <1>1, LineOfCounts DEF Aligned
<1>3. DOMAIN handed = 1..Len(handed) /\ DOMAIN index = 1..Len(index)
  BY <1>1 DEF ProcessData
<1> QED BY <1>2, <1>3 DEF Lined, IndexAligned

(* In every state of every run, with any file, queues and codecs, and      *)
(* whichever stage throws: the n-th line that processFrames marks as kept  *)
(* in the index file is that of the n-th frame it gave to the encoder.     *)
THEOREM AlignmentCorrect == Spec => []IndexAligned
  BY SafeCorrect, SafeAligned, PTL

(* Only stages miss a notification.                                        *)
Sleepers == deaf \subseteq Stages

LEMMA MissTyped ==
    ASSUME Sleepers, NEW q, MayMiss(q)
    PROVE  Sleepers'
  BY DEF Sleepers, MayMiss, Waiting

LEMMA SleepersStep ==
    ASSUME Sleepers, [Next]_vars
    PROVE  Sleepers'
<1>1. ASSUME NEW q, Finish(q) PROVE Sleepers'
  BY <1>1, MissTyped DEF Finish
<1>2. CASE DemultiplexStep
  BY <1>1, <1>2
  DEF DemultiplexStep, DemultiplexPush, DemultiplexEnd, Sleepers
<1>3. CASE DecodeStep
  BY <1>1, <1>3
  DEF DecodeStep, DecodePop, DecodeAudio, DecodeEnd, DecodeSend,
      DecodeReceive, DecodeDrained, Sleepers
<1>4. CASE ProcessStep
  BY <1>1, <1>4
  DEF ProcessStep, ProcessPop, ProcessEnd, ProcessKeep, ProcessDrop,
      ProcessIndex, ProcessPush, Sleepers
<1>5. CASE EncodeStep
  BY <1>5
  DEF EncodeStep, EncodeFrame, EncodeNull, EncodeReceive, EncodeDrained,
      Sleepers
<1>6. CASE HandlerStep
  BY <1>6, MissTyped DEF HandlerStep, Throw, CatchQuit, Sleepers
<1>7. CASE UNCHANGED vars
  BY <1>7 DEF vars, Sleepers
<1> QED BY <1>2, <1>3, <1>4, <1>5, <1>6, <1>7, NextCases

LEMMA SafeTyped == Safe /\ Sleepers => TypeOK
<1> SUFFICES ASSUME Safe, Sleepers PROVE TypeOK
  OBVIOUS
<1>1. Control /\ Queuing /\ Data /\ Shape
  BY DEF Safe
<1>2. \A i \in DOMAIN ready : ready[i] \in Frames
  <2>1. /\ DOMAIN ready = 1..Len(ready)
        /\ \A i \in 1..Len(ready) : ready[i] \in Picture
    BY <1>1, ElementOfSeq, LenProperties DEF Data, ProcessData
  <2>2. \A f \in Picture : f \in Frames
    BY DEF Picture, Frames, None
  <2> QED BY <2>1, <2>2
<1>3. /\ at["demultiplex"] \in {"read", "catch", "done"}
      /\ at["decode"] \in {"pop", "send", "receive", "catch", "done"}
      /\ at["processFrames"] \in {"pop", "decide", "index", "push", "catch",
                                  "done"}
      /\ at["encode"] \in {"pop", "drain", "flush pop", "flush drain",
                           "catch", "done"}
  BY <1>1 DEF Control, P, D
<1>4. \A q \in Queues : Len(chan[q].items) <= QueueMax
  BY <1>1 DEF Queuing
<1> QED BY <1>1, <1>2, <1>3, <1>4
        DEF TypeOK, Data, FileData, DecodeData, ProcessData, EncodeData, Shape,
            Sleepers

LEMMA PrefixPointwise ==
    ASSUME NEW S, NEW s \in Seq(S), NEW t \in Seq(S), Len(s) <= Len(t),
           \A i \in 1..Len(s) : s[i] = t[i]
    PROVE  IsPrefix(s, t)
<1> DEFINE n == Len(s)
           a == SubSeq(s, 1, n)
           b == SubSeq(t, 1, n)
<1>1. n \in Nat /\ Len(t) \in Nat
  OBVIOUS
<1>2. \A i \in 1..n : s[i] \in S /\ t[i] \in S
  BY <1>1, ElementOfSeq
<1>3. a \in Seq(S) /\ b \in Seq(S) /\ Len(a) = n /\ Len(b) = n
      /\ \A i \in 1..n : a[i] = s[i] /\ b[i] = t[i]
  BY <1>1, <1>2, SubSeqProperties
<1>4. a = b
  <2> HIDE DEF a, b, n
  <2>1. \A i \in 1..Len(a) : a[i] = b[i]
    BY <1>3 DEF n
  <2> QED BY <1>3, <2>1, SeqEqual
<1> QED BY <1>4 DEF IsPrefix

LEMMA SafeListed == Safe => IsPrefix(PtsOf(index), decoded)
<1> SUFFICES ASSUME Safe PROVE IsPrefix(PtsOf(index), decoded)
  OBVIOUS
<1>1. /\ index \in Seq(Lines) /\ decoded \in Seq(Nat) /\ Len(index) \in Nat
      /\ Len(index) <= Len(decoded) /\ DOMAIN index = 1..Len(index)
      /\ \A i \in 1..Len(index) : index[i].pts = decoded[i]
  BY LenProperties DEF Safe, Data, ProcessData, DecodeData, Ordered
<1>2. \A i \in 1..Len(index) : index[i].pts \in Nat
  <2> TAKE i \in 1..Len(index)
  <2>1. index[i] \in Lines
    BY <1>1, ElementOfSeq
  <2> QED BY <2>1 DEF Lines
<1>3. PtsOf(index) = [i \in 1..Len(index) |-> index[i].pts]
  BY <1>1 DEF PtsOf
<1>4. PtsOf(index) \in Seq(Nat) /\ Len(PtsOf(index)) = Len(index)
      /\ \A i \in 1..Len(index) : PtsOf(index)[i] = decoded[i]
  BY <1>1, <1>2, <1>3, IsASeq
<1> QED BY <1>1, <1>4, PrefixPointwise

-----------------------------------------------------------------------------
(* The pictures of a file.                                                 *)

LEMMA HasMin ==
    ASSUME NEW S \in SUBSET Nat, S # {}
    PROVE  \E m \in S : \A n \in S : m <= n
<1>1. PICK x \in S : \A y \in S : ~(<<y, x>> \in OpToRel(<, Nat))
  BY NatLessThanWellFounded, WFMin, Zenon
<1>2. ASSUME NEW y \in S PROVE ~(y < x)
  BY <1>1, <1>2, Zenon DEF OpToRel
<1> QED BY <1>2, SMT

(* Induction up to N, for a set.                                           *)
LEMMA CountingUp ==
    ASSUME NEW N \in Nat, NEW S, 0 \in S,
           \A n \in 1..N : n - 1 \in S => n \in S
    PROVE  \A n \in 0..N : n \in S
<1> DEFINE T == {n \in 0..N : n \notin S}
<1> SUFFICES ASSUME T # {} PROVE FALSE
  OBVIOUS
<1>1. T \in SUBSET Nat
  OBVIOUS
<1> HIDE DEF T
<1>2. PICK m \in T : \A n \in T : m <= n
  BY <1>1, HasMin, Zenon
<1>3. m \in 0..N /\ m \notin S
  BY <1>2 DEF T
<1>4. m \in 1..N /\ m - 1 \in 0..N /\ ~(m <= m - 1)
  BY <1>3
<1>5. m - 1 \in S
  BY <1>2, <1>4 DEF T
<1> QED BY <1>3, <1>4, <1>5

LEMMA PacketPts ==
    ASSUME NEW f \in Seq(Packets), NEW k \in 1..Len(f)
    PROVE  f[k] \in Packets /\ f[k].pts \in Nat
<1>1. f[k] \in Packets
  BY ElementOfSeq
<1> QED BY <1>1 DEF Packets

After(list, p) == IF IsPicture(p) THEN Append(list, p.pts) ELSE list

ListsTo(lists, f, k) ==
    /\ lists[0] = <<>>
    /\ \A n \in 1..k : lists[n] = After(lists[n - 1], f[n])

LEMMA PicturesUnfolded ==
    ASSUME NEW f \in Seq(Packets)
    PROVE  ListsTo(PicturesUpTo(f), f, Len(f))
<1> DEFINE N == Len(f)
           step(g) == [n \in 0..N |-> IF n = 0 THEN <<>>
                                      ELSE IF IsPicture(f[n])
                                           THEN Append(g[n - 1], f[n].pts)
                                           ELSE g[n - 1]]
           S == {k \in 0..N : \E g : ListsTo(g, f, k)}
<1>0. N \in Nat
  BY LenProperties
<1>1. 0 \in S
  <2> DEFINE g == [n \in {0} |-> <<>>]
  <2>1. ListsTo(g, f, 0)
    BY DEF ListsTo
  <2> QED BY <1>0, <2>1
<1>2. ASSUME NEW k \in 1..N, k - 1 \in S PROVE k \in S
  <2>1. PICK g : ListsTo(g, f, k - 1)
    BY <1>2
  <2> DEFINE h == [n \in 0..k |-> IF n = k THEN After(g[k - 1], f[k])
                                  ELSE g[n]]
  <2>2. h[0] = <<>>
    BY <1>0, <2>1 DEF ListsTo
  <2>3. ASSUME NEW n \in 1..k PROVE h[n] = After(h[n - 1], f[n])
    <3>1. h[n - 1] = g[n - 1]
      BY <1>0
    <3>2. CASE n = k
      BY <1>0, <3>1, <3>2
    <3>3. CASE n # k
      <4>1. n \in 1..(k - 1)
        BY <1>0, <3>3
      <4>2. h[n] = g[n]
        BY <1>0, <3>3
      <4> QED BY <2>1, <3>1, <4>1, <4>2 DEF ListsTo
    <3> QED BY <3>2, <3>3
  <2> HIDE DEF h
  <2>4. ListsTo(h, f, k)
    BY <2>2, <2>3 DEF ListsTo
  <2> QED BY <1>0, <2>4
<1>3. \A n \in 0..N : n \in S
  <2> HIDE DEF S, N
  <2> QED BY <1>0, <1>1, <1>2, CountingUp
<1>4. PICK g : ListsTo(g, f, N)
  BY <1>0, <1>3
<1> DEFINE h == [n \in 0..N |-> g[n]]
<1>5. h = step(h)
  <2>1. ASSUME NEW n \in 0..N PROVE h[n] = step(h)[n]
    <3>1. CASE n = 0
      BY <1>0, <1>4, <3>1 DEF ListsTo
    <3>2. CASE n # 0
      <4>1. n \in 1..N /\ n - 1 \in 0..N
        BY <1>0, <3>2
      <4>2. h[n] = g[n] /\ h[n - 1] = g[n - 1]
        BY <4>1
      <4>3. g[n] = After(g[n - 1], f[n])
        BY <1>4, <4>1 DEF ListsTo
      <4> QED BY <3>2, <4>1, <4>2, <4>3 DEF After
    <3> QED BY <3>1, <3>2
  <2> QED BY <2>1
<1>6. PicturesUpTo(f) = CHOOSE upTo : upTo = step(upTo)
  BY DEF PicturesUpTo
<1> HIDE DEF h, step, N
<1>7. PicturesUpTo(f) = step(PicturesUpTo(f))
  BY <1>5, <1>6, Zenon
<1> DEFINE lists == PicturesUpTo(f)
<1>8. lists = step(lists)
  BY <1>7
<1> HIDE DEF lists
<1>9. lists[0] = <<>>
  BY <1>0, <1>8 DEF step
<1>10. ASSUME NEW n \in 1..N PROVE lists[n] = After(lists[n - 1], f[n])
  <2>1. n \in 0..N /\ n # 0
    BY <1>0
  <2> QED BY <1>8, <2>1 DEF step, After
<1> QED BY <1>9, <1>10 DEF ListsTo, lists, N

(* The lists are sequences of pts, each a prefix of the next one, and in   *)
(* increasing order.                                                       *)
LEMMA PicturesTyped ==
    ASSUME NEW f \in Seq(Packets), NEW n \in 0..Len(f)
    PROVE  PicturesUpTo(f)[n] \in Seq(Nat)
<1> DEFINE lists == PicturesUpTo(f)
           S == {k \in 0..Len(f) : lists[k] \in Seq(Nat)}
<1>0. Len(f) \in Nat /\ ListsTo(lists, f, Len(f))
  BY PicturesUnfolded, LenProperties
<1> HIDE DEF lists
<1>1. 0 \in S
  <2>1. lists[0] \in Seq(Nat) /\ 0 \in 0..Len(f)
    BY <1>0 DEF ListsTo
  <2> QED BY <2>1
<1>2. ASSUME NEW k \in 1..Len(f), k - 1 \in S PROVE k \in S
  <2>1. lists[k] = After(lists[k - 1], f[k]) /\ lists[k - 1] \in Seq(Nat)
    BY <1>0, <1>2 DEF ListsTo
  <2>2. f[k].pts \in Nat
    BY PacketPts
  <2>3. lists[k] \in Seq(Nat)
    BY <2>1, <2>2, AppendProperties DEF After
  <2> QED BY <1>0, <2>3
<1>3. \A k \in 0..Len(f) : k \in S
  <2> HIDE DEF S
  <2> QED BY <1>0, <1>1, <1>2, CountingUp
<1> QED BY <1>3 DEF lists

Extends(s, t) == Len(s) <= Len(t) /\ \A i \in 1..Len(s) : s[i] = t[i]

LEMMA ExtendsTransitive ==
    ASSUME NEW s \in Seq(Nat), NEW t \in Seq(Nat), NEW u \in Seq(Nat),
           Extends(s, t), Extends(t, u)
    PROVE  Extends(s, u)
<1>1. Len(s) \in Nat /\ Len(t) \in Nat /\ Len(u) \in Nat
  BY LenProperties
<1>2. Len(s) <= Len(u)
  BY <1>1 DEF Extends
<1>3. ASSUME NEW i \in 1..Len(s) PROVE s[i] = u[i]
  <2>1. i \in 1..Len(t)
    BY <1>1 DEF Extends
  <2> QED BY <2>1 DEF Extends
<1> QED BY <1>2, <1>3 DEF Extends

LEMMA PicturesGrow ==
    ASSUME NEW f \in Seq(Packets), NEW m \in 0..Len(f), NEW n \in m..Len(f)
    PROVE  Extends(PicturesUpTo(f)[m], PicturesUpTo(f)[n])
<1> DEFINE lists == PicturesUpTo(f)
           N == Len(f) - m
           S == {d \in 0..N : Extends(lists[m], lists[m + d])}
<1>0. /\ Len(f) \in Nat /\ ListsTo(lists, f, Len(f)) /\ N \in Nat /\ m \in Nat
      /\ \A k \in 0..Len(f) : lists[k] \in Seq(Nat)
      /\ n - m \in 0..N /\ m + (n - m) = n
  BY PicturesUnfolded, PicturesTyped, LenProperties
<1> HIDE DEF lists
<1>1. 0 \in S
  <2>1. m + 0 = m /\ Len(lists[m]) \in Nat
    BY <1>0
  <2> QED BY <1>0, <2>1 DEF Extends
<1>2. ASSUME NEW d \in 1..N, d - 1 \in S PROVE d \in S
  <2> DEFINE k == m + d
  <2>1. k \in 1..Len(f) /\ k - 1 = m + (d - 1) /\ k - 1 \in 0..Len(f)
    BY <1>0
  <2>2. /\ Extends(lists[m], lists[k - 1]) /\ lists[k - 1] \in Seq(Nat)
        /\ lists[k] = After(lists[k - 1], f[k]) /\ lists[m] \in Seq(Nat)
    BY <1>0, <1>2, <2>1 DEF ListsTo
  <2>3. f[k].pts \in Nat
    BY <2>1, PacketPts
  <2> HIDE DEF k
  <2>4. Extends(lists[k - 1], lists[k])
    <3> DEFINE s == lists[k - 1]
    <3>1. CASE IsPicture(f[k])
      <4>1. s \in Seq(Nat) /\ lists[k] = Append(s, f[k].pts)
        BY <2>2, <3>1 DEF After
      <4> HIDE DEF s
      <4>2. Len(Append(s, f[k].pts)) = Len(s) + 1 /\ Len(s) \in Nat
            /\ \A i \in 1..Len(s) : Append(s, f[k].pts)[i] = s[i]
        BY <2>3, <4>1, AppendProperties, LenProperties
      <4>3. Extends(s, lists[k])
        BY <4>1, <4>2 DEF Extends
      <4> QED BY <4>3 DEF s
    <3>2. CASE ~IsPicture(f[k])
      <4>1. lists[k] = s /\ Len(s) \in Nat
        BY <2>2, <3>2 DEF After
      <4> QED BY <4>1 DEF Extends
    <3> QED BY <3>1, <3>2
  <2>5. lists[k] \in Seq(Nat)
    BY <1>0, <2>1
  <2>6. Extends(lists[m], lists[k])
    BY <2>2, <2>4, <2>5, ExtendsTransitive
  <2> QED BY <1>0, <2>6 DEF k
<1>3. \A d \in 0..N : d \in S
  <2> HIDE DEF S, N
  <2> QED BY <1>0, <1>1, <1>2, CountingUp
<1>4. n - m \in S
  BY <1>0, <1>3
<1> QED BY <1>0, <1>4 DEF lists

LEMMA PicturesIncrease ==
    ASSUME NEW f \in Files
    PROVE  LET pictures == PicturesUpTo(f)[Len(f)] IN
           \A i, j \in 1..Len(pictures) : i < j => pictures[i] < pictures[j]
<1> DEFINE lists == PicturesUpTo(f)
           From(x, k) == \E m \in 1..k : IsPicture(f[m]) /\ x = f[m].pts
           Good(k) == /\ \A i \in 1..Len(lists[k]) : From(lists[k][i], k)
                      /\ \A i, j \in 1..Len(lists[k]) :
                            i < j => lists[k][i] < lists[k][j]
           S == {k \in 0..Len(f) : Good(k)}
<1>0. f \in Seq(Packets)
  BY PipelineAssumption DEF Packets
<1>1. /\ Len(f) \in Nat /\ ListsTo(lists, f, Len(f)) /\ DOMAIN f = 1..Len(f)
      /\ \A k \in 0..Len(f) : lists[k] \in Seq(Nat)
  BY <1>0, PicturesUnfolded, PicturesTyped, LenProperties
<1> HIDE DEF lists
<1>2. 0 \in S
  <2>1. Len(lists[0]) = 0
    BY <1>1 DEF ListsTo
  <2> QED BY <1>1, <2>1
<1>3. ASSUME NEW k \in 1..Len(f), k - 1 \in S PROVE k \in S
  <2> DEFINE s == lists[k - 1]
             x == f[k].pts
  <2>1. /\ s \in Seq(Nat) /\ lists[k] = After(s, f[k]) /\ Len(s) \in Nat
        /\ \A i \in 1..Len(s) : From(s[i], k - 1)
        /\ \A i, j \in 1..Len(s) : i < j => s[i] < s[j]
    BY <1>1, <1>3, LenProperties DEF ListsTo
  <2>2. x \in Nat
    BY <1>0, PacketPts
  <2>3. k \in Nat /\ k \in DOMAIN f
    BY <1>1
  <2>4. \A y : From(y, k - 1) => From(y, k)
    BY <2>3
  <2>5. IsPicture(f[k]) => From(x, k) /\ \A y : From(y, k - 1) => y < x
    <3>1. ASSUME IsPicture(f[k]), NEW m \in 1..(k - 1), IsPicture(f[m])
          PROVE  f[m].pts < x
      <4>1. m \in DOMAIN f /\ m < k
        BY <1>1
      <4> QED BY <2>3, <3>1, <4>1, PipelineAssumption
    <3> QED BY <2>3, <3>1
  <2> HIDE DEF s, x, From
  <2>6. CASE ~IsPicture(f[k])
    <3>1. lists[k] = s
      BY <2>1, <2>6 DEF After
    <3>2. Good(k)
      BY <2>1, <2>4, <3>1
    <3> HIDE DEF Good
    <3> QED BY <1>1, <3>2
  <2>7. CASE IsPicture(f[k])
    <3>1. lists[k] = Append(s, x)
      BY <2>1, <2>7 DEF After, x
    <3>2. /\ Len(lists[k]) = Len(s) + 1 /\ lists[k][Len(s) + 1] = x
          /\ \A i \in 1..Len(s) : lists[k][i] = s[i]
      BY <2>1, <2>2, <3>1, AppendProperties
    <3>3. ASSUME NEW i \in 1..Len(lists[k]) PROVE From(lists[k][i], k)
      <4>1. i = Len(s) + 1 \/ i \in 1..Len(s)
        BY <2>1, <3>2
      <4> QED BY <2>1, <2>4, <2>5, <2>7, <3>2, <4>1
    <3>4. ASSUME NEW i \in 1..Len(lists[k]), NEW j \in 1..Len(lists[k]), i < j
          PROVE  lists[k][i] < lists[k][j]
      <4>1. i \in 1..Len(s) /\ (j = Len(s) + 1 \/ j \in 1..Len(s))
        BY <2>1, <3>2, <3>4
      <4> QED BY <2>1, <2>5, <2>7, <3>2, <3>4, <4>1
    <3>5. Good(k)
      BY <3>3, <3>4
    <3> QED BY <1>1, <3>5
  <2> QED BY <2>6, <2>7
<1>4. \A k \in 0..Len(f) : k \in S
  <2> HIDE DEF S
  <2> QED BY <1>1, <1>2, <1>3, CountingUp
<1> QED BY <1>1, <1>4 DEF lists

-----------------------------------------------------------------------------
(* What decode hands on are the pictures of the file.                      *)

(* The audio stream is not the video stream, and the test with ! that      *)
(* decode makes ignores the packets of all streams but these two and no    *)
(* packet of the video stream.                                             *)
StreamsTold ==
    /\ AudioStream # VideoStream
    /\ \A f \in Files : \A i \in DOMAIN f : f[i].stream # AudioStream =>
          (Ignored(f[i]) <=> f[i].stream # VideoStream)

(* So it is when the files have two streams and the video is the first.    *)
LEMMA TwoStreams ==
    ASSUME VideoStream = 0, AudioStream = 1,
           \A f \in Files : \A i \in DOMAIN f : f[i].stream \in {0, 1}
    PROVE  StreamsTold
  BY DEF StreamsTold, Ignored, Not

LEMMA PacketsQuiet ==
    ASSUME Queuing, [Next]_vars, ~DemultiplexPush, ~DecodePop, ~DecodeAudio
    PROVE  chan'["packets"].items = chan["packets"].items
<1> DEFINE same == chan'["packets"].items = chan["packets"].items
<1>0. /\ DOMAIN chan = Queues /\ \A q \in Queues : Fields(q)
      /\ "frames" \in Queues /\ "packets" \in Queues
      /\ "processed" \in Queues
  BY FieldsUnprimed DEF Queues
<1>1. ASSUME NEW q \in Queues, NEW x,
             Finish(q) \/ (q # "packets" /\ (Push(q, x) \/ Pop(q)))
      PROVE  same
  BY <1>0, <1>1, PushEffect, PopEffect, FinishEffect DEF Others
<1>2. CASE DemultiplexStep
  BY <1>0, <1>1, <1>2 DEF DemultiplexStep, DemultiplexEnd
<1>3. CASE DecodeStep
  BY <1>0, <1>1, <1>3
  DEF DecodeStep, DecodeEnd, DecodeSend, DecodeReceive, DecodeDrained
<1>4. CASE ProcessStep
  BY <1>0, <1>1, <1>4
  DEF ProcessStep, ProcessPop, ProcessEnd, ProcessKeep, ProcessDrop,
      ProcessIndex, ProcessPush
<1>5. CASE EncodeStep
  BY <1>0, <1>1, <1>5
  DEF EncodeStep, EncodeFrame, EncodeNull, EncodeReceive, EncodeDrained
<1>6. CASE HandlerStep
  <2>1. \/ chan' = chan
        \/ \E q : chan' = [chan EXCEPT ![q].quit = TRUE]
    BY <1>6 DEF HandlerStep, Throw, CatchQuit
  <2>2. ASSUME NEW q, chan' = [chan EXCEPT ![q].quit = TRUE]
        PROVE  chan'["packets"].items = chan["packets"].items
    <3>1. CASE q = "packets"
      BY <1>0, <2>2, <3>1, QuitEffect
    <3>2. CASE q # "packets"
      BY <1>0, <2>2, <3>2
    <3> QED BY <3>1, <3>2
  <2> QED BY <2>1, <2>2
<1>7. CASE UNCHANGED vars
  BY <1>7 DEF vars
<1> QED BY <1>2, <1>3, <1>4, <1>5, <1>6, <1>7, NextCases

(* The packet queue, as demultiplex and decode leave it.                   *)
LEMMA QueuedDemultiplex ==
    ASSUME Control, Queuing, FileData, DemultiplexStep,
           ~chan["frames"].quit, NEW n \in 0..Len(file), Queued(n)
    PROVE  Queued(n)'
<1> DEFINE items == chan["packets"].items
<1>0. /\ DOMAIN at = Stages /\ "demultiplex" \in Stages
      /\ DOMAIN chan = Queues /\ Fields("packets") /\ "packets" \in Queues
      /\ file \in Seq(Packets) /\ Len(file) \in Nat /\ position \in Nat
      /\ items \in Seq(Packets) /\ Len(items) \in Nat /\ n \in Nat
  <2>1. file \in Seq(Packets) /\ items \in Seq(Packets)
    BY PipelineAssumption DEF FileData, Packets, Queuing
  <2>2. Len(file) \in Nat /\ Len(items) \in Nat /\ position \in 0..Len(file)
    BY <2>1, LenProperties DEF FileData
  <2>3. n \in Nat /\ position \in Nat
    BY <2>2
  <2>4. DOMAIN chan = Queues /\ Fields("packets")
    BY FieldsUnprimed DEF Queues
  <2> QED BY <2>1, <2>2, <2>3, <2>4 DEF Control, Stages, Queues
<1>1. /\ n + Len(items) = position
      /\ \A j \in 1..Len(items) : items[j] = file[n + j]
  BY DEF Queued
<1>2. CASE DemultiplexPush
  <2> DEFINE x == file[position + 1]
  <2>1. /\ at["demultiplex"] = "read" /\ position < Len(file)
        /\ position' = position + 1 /\ file' = file
        /\ Push("packets", x) \/ PushFails("packets")
    BY <1>2 DEF DemultiplexPush
  <2>2. ~PushFails("packets")
    BY <1>0, <2>1 DEF PushFails, Queuing
  <2>3. x \in Packets /\ chan'["packets"].items = Append(items, x)
    <3>1. position + 1 \in 1..Len(file)
      BY <1>0, <2>1
    <3> QED BY <1>0, <2>1, <2>2, <3>1, PacketPts, PushEffect
  <2>4. /\ Len(chan'["packets"].items) = Len(items) + 1
        /\ chan'["packets"].items[Len(items) + 1] = x
        /\ \A j \in 1..Len(items) : chan'["packets"].items[j] = items[j]
    BY <1>0, <2>3, AppendProperties
  <2> HIDE DEF items
  <2>5. ASSUME NEW j \in 1..(Len(items) + 1)
        PROVE  chan'["packets"].items[j] = file[n + j]
    <3>1. CASE j = Len(items) + 1
      <4>1. n \in Nat /\ Len(items) \in Nat /\ n + Len(items) = position
        BY <1>0, <1>1
      <4>2. n + j = position + 1
        BY <3>1, <4>1
      <4> QED BY <2>4, <3>1, <4>2
    <3>2. CASE j # Len(items) + 1
      <4>1. j \in 1..Len(items)
        BY <1>0, <3>2
      <4> QED BY <1>1, <2>4, <4>1
    <3> QED BY <3>1, <3>2
  <2>6. n + Len(chan'["packets"].items) = position'
    BY <1>0, <1>1, <2>1, <2>4
  <2> QED BY <2>1, <2>4, <2>5, <2>6 DEF Queued
<1>3. CASE DemultiplexEnd
  <2>1. file' = file /\ position' = position /\ Finish("packets")
    BY <1>3 DEF DemultiplexEnd, fileVars
  <2>2. chan'["packets"].items = items
    BY <1>0, <2>1, FinishEffect
  <2> HIDE DEF items
  <2> QED BY <1>1, <2>1, <2>2 DEF Queued
<1> QED BY <1>2, <1>3 DEF DemultiplexStep

LEMMA QueuedPop ==
    ASSUME Control, Queuing, FileData, CanPop("packets"), Pop("packets"),
           UNCHANGED fileVars, NEW n \in 0..Len(file), Queued(n)
    PROVE  /\ n + 1 \in 0..Len(file) /\ Queued(n + 1)'
           /\ Head(chan["packets"].items) = file[n + 1]
<1> DEFINE items == chan["packets"].items
           new == chan'["packets"].items
<1>0. /\ DOMAIN chan = Queues /\ Fields("packets") /\ "packets" \in Queues
      /\ Len(file) \in Nat /\ position \in 0..Len(file) /\ n \in Nat
      /\ items \in Seq(Packets) /\ items # <<>>
  <2>1. file \in Seq(Packets) /\ items \in Seq(Packets)
    BY PipelineAssumption DEF FileData, Packets, Queuing
  <2> QED BY <2>1, FieldsUnprimed DEF Queues, FileData, CanPop
<1>1. /\ new = Tail(items) /\ Len(items) \in Nat /\ Len(items) >= 1
      /\ Len(new) = Len(items) - 1 /\ Head(items) = items[1]
      /\ \A j \in 1..(Len(items) - 1) : new[j] = items[j + 1]
  <2>1. new = Tail(items)
    BY <1>0, PopEffect
  <2>2. Len(items) \in Nat /\ Len(items) >= 1 /\ Head(items) = items[1]
    BY <1>0
  <2> QED BY <1>0, <2>1, <2>2, HeadTailProperties
<1>2. /\ n + Len(items) = position
      /\ \A j \in 1..Len(items) : items[j] = file[n + j]
  BY DEF Queued
<1>3. file' = file /\ position' = position
  BY DEF fileVars
<1> HIDE DEF items
<1>4. n + 1 \in 0..Len(file) /\ (n + 1) + Len(new) = n + Len(items)
  BY <1>0, <1>1, <1>2
<1>5. items[1] = file[n + 1]
  BY <1>1, <1>2
<1>6. ASSUME NEW j \in 1..Len(new) PROVE new[j] = file[(n + 1) + j]
  <2>1. j \in 1..(Len(items) - 1) /\ j + 1 \in 1..Len(items)
        /\ n + (j + 1) = (n + 1) + j
    BY <1>0, <1>1
  <2> QED BY <1>1, <1>2, <2>1
<1>7. Queued(n + 1)'
  BY <1>2, <1>3, <1>4, <1>6 DEF Queued
<1> QED BY <1>1, <1>4, <1>5, <1>7 DEF items

(* The file says of each packet that leaves the queue whether it makes a   *)
(* picture.                                                                *)
LEMMA InDecoderNext ==
    ASSUME FileData, NEW n \in 1..Len(file)
    PROVE  LET lists == PicturesUpTo(file) IN
           /\ lists[n - 1] \in Seq(Nat) /\ lists[n] \in Seq(Nat)
           /\ file[n] \in Packets
           /\ lists[n] = After(lists[n - 1], file[n])
<1>1. file \in Seq(Packets)
  BY PipelineAssumption DEF FileData, Packets
<1>2. Len(file) \in Nat
  BY <1>1, LenProperties
<1>3. n \in 0..Len(file) /\ n - 1 \in 0..Len(file)
  BY <1>2
<1>4. file[n] \in Packets
  BY <1>1, PacketPts
<1>5. ListsTo(PicturesUpTo(file), file, Len(file))
  BY <1>1, PicturesUnfolded
<1> QED BY <1>1, <1>3, <1>4, <1>5, PicturesTyped DEF ListsTo

(* A packet that makes no picture.                                         *)
LEMMA InDecoderSkip ==
    ASSUME FileData, NEW n \in 1..Len(file), ~IsPicture(file[n]),
           InDecoder(n - 1)
    PROVE  InDecoder(n)
<1>1. PicturesUpTo(file)[n] = PicturesUpTo(file)[n - 1]
  BY InDecoderNext DEF After
<1> QED BY <1>1 DEF InDecoder

(* A packet that the decoder takes.                                        *)
LEMMA InDecoderSend ==
    ASSUME FileData, DecodeData, NEW n \in 1..Len(file), IsPicture(file[n]),
           InDecoder(n - 1), file' = file, decoded' = decoded,
           decoder' = Append(decoder, file[n].pts)
    PROVE  InDecoder(n)'
<1> DEFINE s == PicturesUpTo(file)[n - 1]
           t == PicturesUpTo(file)[n]
           x == file[n].pts
<1>1. s \in Seq(Nat) /\ t = Append(s, x) /\ x \in Nat
  BY InDecoderNext DEF After, Packets
<1>2. /\ decoder \in Seq(Nat) /\ Len(decoder) \in Nat /\ Len(decoded) \in Nat
      /\ Len(s) \in Nat
  BY <1>1, LenProperties DEF DecodeData
<1>3. /\ Len(s) = Len(decoded) + Len(decoder)
      /\ \A i \in 1..Len(decoded) : s[i] = decoded[i]
      /\ \A i \in 1..Len(decoder) : s[Len(decoded) + i] = decoder[i]
  BY DEF InDecoder
<1> HIDE DEF s, t, x
<1>4. /\ Len(t) = Len(s) + 1 /\ t[Len(s) + 1] = x
      /\ \A i \in 1..Len(s) : t[i] = s[i]
  BY <1>1, AppendProperties
<1>5. /\ Len(decoder') = Len(decoder) + 1 /\ decoder'[Len(decoder) + 1] = x
      /\ \A i \in 1..Len(decoder) : decoder'[i] = decoder[i]
  BY <1>1, <1>2, AppendProperties DEF x
<1>6. Len(t) = Len(decoded) + Len(decoder')
  BY <1>2, <1>3, <1>4, <1>5
<1>7. ASSUME NEW i \in 1..Len(decoded) PROVE t[i] = decoded[i]
  <2>1. i \in 1..Len(s)
    BY <1>2, <1>3
  <2> QED BY <1>3, <1>4, <2>1
<1>8. ASSUME NEW i \in 1..Len(decoder')
      PROVE  t[Len(decoded) + i] = decoder'[i]
  <2>1. CASE i = Len(decoder) + 1
    <3>1. Len(decoded) + i = Len(s) + 1
      BY <1>2, <1>3, <2>1
    <3> QED BY <1>4, <1>5, <2>1, <3>1
  <2>2. CASE i # Len(decoder) + 1
    <3>1. i \in 1..Len(decoder) /\ Len(decoded) + i \in 1..Len(s)
      BY <1>2, <1>3, <1>5, <2>2
    <3> QED BY <1>3, <1>4, <1>5, <3>1
  <2> QED BY <2>1, <2>2
<1>9. t' = t
  BY DEF t
<1> QED BY <1>6, <1>7, <1>8, <1>9 DEF InDecoder, t

(* A picture that leaves the decoder for the frame queue.                  *)
LEMMA InDecoderReceive ==
    ASSUME FileData, DecodeData, NEW n \in 0..Len(file), InDecoder(n),
           decoder # <<>>, file' = file, decoder' = Tail(decoder),
           decoded' = Append(decoded, Head(decoder))
    PROVE  /\ InDecoder(n)'
           /\ Len(decoded') <= Len(PicturesUpTo(file)[n])
           /\ \A i \in 1..Len(decoded') :
                 decoded'[i] = PicturesUpTo(file)[n][i]
<1> DEFINE s == PicturesUpTo(file)[n]
           x == Head(decoder)
<1>1. /\ Len(s) = Len(decoded) + Len(decoder)
      /\ \A i \in 1..Len(decoded) : s[i] = decoded[i]
      /\ \A i \in 1..Len(decoder) : s[Len(decoded) + i] = decoder[i]
  BY DEF InDecoder
<1> HIDE DEF s
<1>2. /\ decoder \in Seq(Nat) /\ Len(decoder) \in Nat /\ Len(decoder) > 0
      /\ decoded \in Seq(Nat) /\ Len(decoded) \in Nat
      /\ x = decoder[1] /\ x \in Nat
  <2>1. decoder \in Seq(Nat) /\ decoded \in Seq(Nat) /\ decoder # <<>>
    BY DEF DecodeData
  <2>2. Len(decoder) \in Nat /\ Len(decoder) > 0 /\ x = decoder[1]
    BY <2>1
  <2> QED BY <2>1, <2>2, HeadTailProperties, LenProperties
<1>3. /\ Len(decoder') = Len(decoder) - 1
      /\ \A i \in 1..(Len(decoder) - 1) : decoder'[i] = decoder[i + 1]
  BY <1>2, HeadTailProperties
<1> HIDE DEF x
<1>4. /\ Len(decoded') = Len(decoded) + 1 /\ decoded'[Len(decoded) + 1] = x
      /\ \A i \in 1..Len(decoded) : decoded'[i] = decoded[i]
  BY <1>2, AppendProperties DEF x
<1>5. /\ Len(s) = Len(decoded') + Len(decoder')
      /\ Len(decoded') <= Len(s)
  BY <1>1, <1>2, <1>3, <1>4
<1>6. ASSUME NEW i \in 1..Len(decoded') PROVE s[i] = decoded'[i]
  <2>1. CASE i = Len(decoded) + 1
    <3>1. 1 \in 1..Len(decoder)
      BY <1>2
    <3> QED BY <1>1, <1>2, <1>4, <2>1, <3>1
  <2>2. CASE i # Len(decoded) + 1
    <3>1. i \in 1..Len(decoded)
      <4> DEFINE k == Len(decoded)
      <4>1. i \in 1..(k + 1) /\ k \in Nat /\ i # k + 1
        BY <1>2, <1>4, <2>2
      <4> HIDE DEF k
      <4>2. i \in 1..k
        BY <4>1
      <4> QED BY <4>2 DEF k
    <3>2. s[i] = decoded[i]
      BY <1>1, <3>1
    <3>3. decoded'[i] = decoded[i]
      BY <1>4, <3>1
    <3> QED BY <3>2, <3>3
  <2> QED BY <2>1, <2>2
<1>7. ASSUME NEW i \in 1..Len(decoder')
      PROVE  s[Len(decoded') + i] = decoder'[i]
  <2>1. /\ i \in 1..(Len(decoder) - 1) /\ i + 1 \in 1..Len(decoder)
        /\ Len(decoded') + i = Len(decoded) + (i + 1)
    BY <1>2, <1>3, <1>4
  <2> QED BY <1>1, <1>3, <2>1
<1>8. s' = s
  BY DEF s
<1> QED BY <1>5, <1>6, <1>7, <1>8 DEF InDecoder, s

(* What decode has handed on is a beginning of the list of all pictures.   *)
LEMMA PicturesBegin ==
    ASSUME FileData, NEW n \in 0..Len(file), NEW t \in Seq(Nat),
           Len(t) <= Len(PicturesUpTo(file)[n]),
           \A i \in 1..Len(t) : t[i] = PicturesUpTo(file)[n][i]
    PROVE  Len(t) <= Len(Pictures) /\ \A i \in 1..Len(t) : t[i] = Pictures[i]
<1> DEFINE s == PicturesUpTo(file)[n]
<1>1. file \in Seq(Packets)
  BY PipelineAssumption DEF FileData, Packets
<1>2. Len(file) \in Nat
  BY <1>1, LenProperties
<1>3. n \in Nat /\ Len(file) \in n..Len(file) /\ Len(file) \in 0..Len(file)
  BY <1>2
<1>4. Extends(s, Pictures)
  BY <1>1, <1>3, PicturesGrow DEF Pictures
<1>5. s \in Seq(Nat) /\ Pictures \in Seq(Nat)
  BY <1>1, <1>3, PicturesTyped DEF Pictures
<1>6. Extends(t, s)
  BY DEF Extends
<1> HIDE DEF s
<1>7. Extends(t, Pictures)
  BY <1>4, <1>5, <1>6, ExtendsTransitive
<1> QED BY <1>7 DEF Extends

(* While the frame queue lives and decode too.                             *)
Feeding == ~chan["frames"].quit /\ D \in {"pop", "send", "receive"}

LEMMA QueuedDecode ==
    ASSUME Control, Queuing, FileData, DecodeStep, ~DecodePop, ~DecodeAudio,
           NEW n, Queued(n)
    PROVE  Queued(n)'
<1>1. UNCHANGED fileVars
  BY DecodeMoves
<1>2. chan'["packets"].items = chan["packets"].items
  <2>1. [Next]_vars
    BY DEF DecodeStep, Next, Decode
  <2>2. ~DemultiplexPush
    <3>1. position \in Int /\ position' = position
      BY <1>1 DEF FileData, fileVars
    <3> QED BY <3>1 DEF DemultiplexPush
  <2> QED BY <2>1, <2>2, PacketsQuiet
<1> QED BY <1>1, <1>2 DEF Queued, fileVars

LEMMA FeedingStep ==
    ASSUME StreamsTold, Control, Queuing, Lasting, FileData, DecodeData,
           [Next]_vars, Feeding, Feeding',
           NEW n \in 0..Len(file), Queued(n), Consumed(n)
    PROVE  \E m \in 0..Len(file) : Queued(m)' /\ Consumed(m)'
<1>0. /\ file' = file /\ DOMAIN at = Stages /\ "decode" \in Stages
      /\ Len(file) \in Nat /\ file \in Seq(Packets)
      /\ DOMAIN file = 1..Len(file)
  <2>1. file \in Seq(Packets)
    BY PipelineAssumption DEF FileData, Packets
  <2> QED BY <2>1, FileConstant, LenProperties DEF Control, Stages
<1>1. CASE DemultiplexStep
  <2>1. Queued(n)'
    BY <1>1, QueuedDemultiplex DEF Feeding
  <2>2. UNCHANGED decodeVars /\ D' = D
    BY <1>1, DemultiplexMoves DEF Only, Stages, D
  <2>3. Consumed(n)'
    BY <1>0, <2>2 DEF Consumed, InDecoder, decodeVars
  <2> QED BY <2>1, <2>3
<1>2. CASE DecodePop \/ DecodeAudio
  <2> DEFINE p == file[n + 1]
  <2>1. CanPop("packets") /\ Pop("packets") /\ D = "pop"
    BY <1>2 DEF DecodePop, DecodeAudio, D
  <2>2. DecodeStep
    BY <1>2 DEF DecodeStep
  <2>3. UNCHANGED fileVars
    BY <2>2, DecodeMoves
  <2>4. /\ n + 1 \in 0..Len(file) /\ Queued(n + 1)'
        /\ Head(chan["packets"].items) = p
    BY <2>1, <2>3, QueuedPop
  <2>5. InDecoder(n) /\ n + 1 \in 1..Len(file) /\ n + 1 - 1 = n
    BY <1>0, <2>1, <2>4 DEF Consumed
  <2>6. /\ p.stream = VideoStream => p.stream # AudioStream
        /\ p.stream # AudioStream => (Ignored(p) <=> p.stream # VideoStream)
    BY <1>0, <2>5 DEF StreamsTold, FileData
  <2> HIDE DEF p
  <2>7. CASE DecodePop /\ ~Ignored(p)
    <3>1. /\ packet' = p /\ sent' = FALSE /\ Goto("decode", "send")
          /\ decoder' = decoder /\ decoded' = decoded
          /\ p.stream # AudioStream
      BY <2>4, <2>7 DEF DecodePop
    <3>2. D' = "send"
      BY <1>0, <3>1, GotoEffect DEF D
    <3>3. InDecoder(n + 1 - 1)'
      BY <1>0, <2>5, <3>1 DEF InDecoder
    <3>4. n + 1 > 0 /\ p.stream = VideoStream
      BY <2>5, <2>6, <2>7, <3>1
    <3>5. Consumed(n + 1)'
      BY <1>0, <3>1, <3>2, <3>3, <3>4 DEF Consumed, p
    <3> QED BY <2>4, <3>5
  <2>8. CASE DecodeAudio \/ (DecodePop /\ Ignored(p))
    <3>1. p.stream # VideoStream
      BY <2>4, <2>6, <2>8 DEF DecodeAudio, DecodePop
    <3>2. InDecoder(n + 1)
      BY <2>5, <3>1, InDecoderSkip DEF IsPicture, p
    <3>3. /\ decoder' = decoder /\ decoded' = decoded
          /\ UNCHANGED stageVars \/ Goto("decode", "done")
      BY <2>4, <2>8 DEF DecodeAudio, DecodePop, decodeVars
    <3>4. D' = "pop"
      <4>1. CASE UNCHANGED stageVars
        BY <2>1, <4>1 DEF stageVars, D
      <4>2. CASE Goto("decode", "done")
        BY <1>0, <4>2, GotoEffect DEF Feeding, D
      <4> QED BY <3>3, <4>1, <4>2
    <3>5. InDecoder(n + 1)'
      BY <1>0, <3>2, <3>3 DEF InDecoder
    <3>6. Consumed(n + 1)'
      BY <3>4, <3>5 DEF Consumed
    <3> QED BY <2>4, <3>6
  <2> QED BY <1>2, <2>7, <2>8
<1>3. CASE DecodeEnd
  <2>1. D' = "done"
    BY <1>0, <1>3, GotoEffect DEF DecodeEnd, D
  <2> QED BY <2>1 DEF Feeding
<1>4. CASE DecodeSend
  <2>1. Queued(n)'
    BY <1>4, QueuedDecode DEF DecodeStep, DecodeSend, DecodePop, DecodeAudio
  <2>2. /\ D = "send" /\ D' = "receive" /\ packet' = packet
        /\ decoded' = decoded
        /\ IF packet.good THEN /\ sent' = TRUE
                               /\ decoder' = Append(decoder, packet.pts)
           ELSE UNCHANGED <<sent, decoder>>
    BY <1>0, <1>4, GotoEffect DEF DecodeSend, D
  <2>3. /\ ~sent /\ n > 0 /\ InDecoder(n - 1) /\ packet = file[n]
        /\ packet.stream = VideoStream
    BY <2>2 DEF Consumed
  <2>4. n \in 1..Len(file)
    BY <1>0, <2>3
  <2>5. CASE packet.good
    <3>1. IsPicture(file[n])
      BY <2>3, <2>5 DEF IsPicture
    <3>2. InDecoder(n)'
      BY <1>0, <2>2, <2>3, <2>4, <2>5, <3>1, InDecoderSend
    <3>3. Consumed(n)'
      BY <2>2, <2>5, <3>2 DEF Consumed
    <3> QED BY <2>1, <3>3
  <2>6. CASE ~packet.good
    <3>1. InDecoder(n - 1)'
      BY <1>0, <2>2, <2>3, <2>6 DEF InDecoder
    <3>2. Consumed(n)'
      BY <1>0, <2>2, <2>3, <2>6, <3>1 DEF Consumed
    <3> QED BY <2>1, <3>2
  <2> QED BY <2>5, <2>6
<1>5. CASE DecodeReceive \/ DecodeDrained
  <2>1. Queued(n)'
    BY <1>5, QueuedDecode
    DEF DecodeStep, DecodeReceive, DecodeDrained, DecodePop, DecodeAudio
  <2>2. /\ D = "receive" /\ packet' = packet /\ sent' = sent
        /\ \/ D' = "receive"
           \/ D' = IF sent THEN "pop" ELSE "send"
    BY <1>0, <1>5, GotoEffect
    DEF DecodeReceive, DecodeDrained, AfterReceive, D, stageVars, decodeVars
  <2>3. ASSUME NEW m \in 0..Len(file), InDecoder(m) PROVE InDecoder(m)'
    <3>1. CASE DecodeDrained
      BY <1>0, <2>3, <3>1 DEF DecodeDrained, decodeVars, InDecoder
    <3>2. CASE DecodeReceive
      <4>1. /\ Len(decoder) > DecoderDelay /\ decoder' = Tail(decoder)
            /\ \/ decoded' = Append(decoded, Head(decoder))
               \/ PushFails("frames")
        BY <3>2 DEF DecodeReceive
      <4>2. decoder # <<>>
        BY <4>1, PipelineAssumption DEF DecodeData
      <4>3. ~PushFails("frames")
        BY <2>2 DEF PushFails, Queuing, Feeding
      <4> QED BY <1>0, <2>3, <4>1, <4>2, <4>3, InDecoderReceive
    <3> QED BY <1>5, <3>1, <3>2
  <2>4. CASE sent /\ InDecoder(n)
    <3>1. InDecoder(n)'
      BY <2>3, <2>4
    <3>2. Consumed(n)'
      BY <2>2, <2>4, <3>1 DEF Consumed
    <3> QED BY <2>1, <3>2
  <2>5. CASE /\ ~sent /\ n > 0 /\ InDecoder(n - 1) /\ packet = file[n]
             /\ packet.stream = VideoStream /\ ~packet.good
    <3>1. InDecoder(n - 1)'
      <4>1. n - 1 \in 0..Len(file)
        BY <1>0, <2>5
      <4> QED BY <2>3, <2>5, <4>1
    <3>2. Consumed(n)'
      BY <1>0, <2>2, <2>5, <3>1 DEF Consumed
    <3> QED BY <2>1, <3>2
  <2> QED BY <2>2, <2>4, <2>5 DEF Consumed
<1>6. CASE ~DemultiplexStep /\ ~DecodeStep
  <2>1. /\ UNCHANGED fileVars /\ Stays("demultiplex")
        /\ UNCHANGED decodeVars /\ Stays("decode")
    BY <1>6, FileQuiet, DecodeQuiet
  <2>2. chan'["packets"].items = chan["packets"].items
    BY <1>6, PacketsQuiet DEF DemultiplexStep, DecodeStep
  <2>3. Queued(n)'
    BY <2>1, <2>2 DEF Queued, fileVars, Stays
  <2>4. D' = D
    BY <2>1 DEF Stays, Feeding, D
  <2>5. Consumed(n)'
    BY <1>0, <2>1, <2>4 DEF Consumed, InDecoder, decodeVars
  <2> QED BY <2>3, <2>5
<1> QED BY <1>1, <1>2, <1>3, <1>4, <1>5, <1>6 DEF DecodeStep

LEMMA ReadingStep ==
    ASSUME StreamsTold, Safe, Reading, [Next]_vars
    PROVE  Reading'
<1>0. /\ Control /\ Queuing /\ FileData /\ DecodeData
      /\ Lasting /\ file' = file /\ Control' /\ Queuing' /\ DecodeData'
  BY SafeStep, FileConstant DEF Safe, Data
<1>1. ASSUME Feeding'
      PROVE  \E m \in 0..Len(file) : Queued(m)' /\ Consumed(m)'
  <2>1. Feeding
    <3>1. ~chan["frames"].quit
      BY <1>0, <1>1 DEF Feeding, Lasting
    <3>2. D \in {"pop", "send", "receive", "catch", "done"}
      BY <1>0 DEF Control
    <3>3. D \notin {"catch", "done"}
      <4>1. CASE DecodeStep
        BY <4>1 DEF DecodeStep, DecodePop, DecodeAudio, DecodeEnd, DecodeSend,
           DecodeReceive, DecodeDrained, D
      <4>2. CASE ~DecodeStep
        <5>1. Stays("decode")
          BY <1>0, <4>2, DecodeQuiet
        <5> QED BY <1>1, <5>1 DEF Stays, Feeding, D
      <4> QED BY <4>1, <4>2
    <3> QED BY <3>1, <3>2, <3>3 DEF Feeding
  <2>2. PICK n \in 0..Len(file) : Queued(n) /\ Consumed(n)
    BY <2>1 DEF Reading, Feeding
  <2> QED BY <1>0, <1>1, <2>1, <2>2, FeedingStep
<1>2. /\ Len(decoded') <= Len(Pictures)
      /\ \A i \in 1..Len(decoded') : decoded'[i] = Pictures[i]
  <2>1. CASE decoded' = decoded
    BY <2>1 DEF Reading
  <2>2. CASE decoded' # decoded
    <3>1. DecodeReceive
      <4>1. DecodeStep
        BY <1>0, <2>2, DecodeQuiet DEF decodeVars
      <4> QED BY <2>2, <4>1 DEF DecodeStep, DecodePop, DecodeAudio, DecodeEnd,
              DecodeSend, DecodeDrained, decodeVars
    <3>2. /\ D = "receive" /\ ~chan["frames"].quit
          /\ Len(decoder) > DecoderDelay /\ decoder' = Tail(decoder)
          /\ decoded' = Append(decoded, Head(decoder))
      BY <2>2, <3>1 DEF DecodeReceive, D, CanPush
    <3>3. PICK n \in 0..Len(file) : Consumed(n)
      BY <3>2 DEF Reading
    <3>4. decoder # <<>>
      BY <1>0, <3>2, PipelineAssumption DEF DecodeData
    <3>5. PICK m \in 0..Len(file) : InDecoder(m)
      <4>1. Len(file) \in Nat
        BY <1>0, PipelineAssumption, LenProperties DEF FileData
      <4>2. n > 0 => n - 1 \in 0..Len(file)
        BY <4>1
      <4> QED BY <3>3, <4>2 DEF Consumed
    <3>6. /\ Len(decoded') <= Len(PicturesUpTo(file)[m])
          /\ \A i \in 1..Len(decoded') :
                decoded'[i] = PicturesUpTo(file)[m][i]
      BY <1>0, <3>2, <3>4, <3>5, InDecoderReceive
    <3>7. decoded' \in Seq(Nat)
      BY <1>0 DEF DecodeData
    <3> QED BY <1>0, <3>6, <3>7, PicturesBegin
  <2> QED BY <2>1, <2>2
<1>3. Pictures' = Pictures
  BY <1>0 DEF Pictures
<1>4. Len(decoded') <= Len(Pictures')
      /\ \A i \in 1..Len(decoded') : decoded'[i] = Pictures'[i]
  BY <1>2, <1>3
<1> QED BY <1>0, <1>1, <1>4 DEF Reading, Feeding

LEMMA ReadingInit == Init => Reading
<1> SUFFICES ASSUME Init PROVE Reading
  OBVIOUS
<1>1. /\ file \in Files /\ position = 0 /\ decoder = <<>> /\ decoded = <<>>
      /\ chan["packets"].items = <<>> /\ D = "pop"
  BY DEF Init, Queues, D
<1>2. file \in Seq(Packets) /\ Len(file) \in Nat
  BY <1>1, PipelineAssumption, LenProperties DEF Packets
<1>3. PicturesUpTo(file)[0] = <<>>
  BY <1>2, PicturesUnfolded DEF ListsTo
<1>4. InDecoder(0)
  BY <1>1, <1>3 DEF InDecoder
<1>5. Consumed(0)
  BY <1>1, <1>4 DEF Consumed
<1>6. Queued(0)
  BY <1>1 DEF Queued
<1>7. 0 \in 0..Len(file) /\ Pictures \in Seq(Nat)
  BY <1>2, PicturesTyped DEF Pictures
<1>8. Len(decoded) <= Len(Pictures) /\ Len(decoded) = 0
  BY <1>1, <1>7, LenProperties
<1> QED BY <1>5, <1>6, <1>7, <1>8 DEF Reading

LEMMA SafeReadingFaithful ==
    ASSUME Safe, Reading
    PROVE  IndexFaithful
<1>1. IsPrefix(PtsOf(index), decoded)
  BY SafeListed
<1>2. file \in Seq(Packets) /\ decoded \in Seq(Nat)
  BY PipelineAssumption DEF Safe, Data, FileData, DecodeData, Packets
<1>3. Len(file) \in Nat
  BY <1>2, LenProperties
<1>4. Pictures \in Seq(Nat)
  BY <1>2, <1>3, PicturesTyped DEF Pictures
<1>5. IsPrefix(decoded, Pictures)
  BY <1>2, <1>4, PrefixPointwise DEF Reading
<1> QED BY <1>1, <1>5 DEF IndexFaithful

(* In every run with files whose streams decode tells apart: the lines of  *)
(* the index file are the first pictures of the input, each once and in    *)
(* order, whichever frames are dropped, and whichever stage stops.         *)
THEOREM IndexCorrect == StreamsTold => (Spec => []IndexFaithful)
<1>1. Init => Safe /\ Reading
  BY SafeInit, ReadingInit
<1>2. StreamsTold /\ Safe /\ Reading /\ [Next]_vars => (Safe /\ Reading)'
  BY SafeStep, ReadingStep
<1>3. Safe /\ Reading => IndexFaithful
  BY SafeReadingFaithful
<1>4. ASSUME StreamsTold PROVE Spec => []IndexFaithful
  BY <1>1, <1>2, <1>3, <1>4, PTL DEF Spec
<1> QED BY <1>4

-----------------------------------------------------------------------------
(* The frames get to the encoder without gaps.                             *)

LEMMA DecodedFollows ==
    ASSUME FileData, DecodeData, Reading,
           NEW n \in Nat, n > 0, n + 1 <= Len(decoded)
    PROVE  Follows(decoded[n], decoded[n + 1])
<1>1. /\ file \in Files /\ file \in Seq(Packets) /\ Len(file) \in Nat
      /\ Len(decoded) \in Nat
  BY PipelineAssumption, LenProperties DEF FileData, DecodeData, Packets
<1>2. Pictures \in Seq(Nat)
  BY <1>1, PicturesTyped DEF Pictures
<1>3. Len(Pictures) \in Nat /\ Len(decoded) <= Len(Pictures)
  BY <1>2, LenProperties DEF Reading
<1>4. /\ n \in 1..Len(Pictures) /\ n + 1 \in 1..Len(Pictures) /\ n < n + 1
      /\ n \in 1..(Len(Pictures) - 1)
      /\ n \in 1..Len(decoded) /\ n + 1 \in 1..Len(decoded)
  BY <1>1, <1>3
<1>5. decoded[n] = Pictures[n] /\ decoded[n + 1] = Pictures[n + 1]
  BY <1>4 DEF Reading
<1>6. Pictures[n] < Pictures[n + 1]
  BY <1>1, <1>4, PicturesIncrease DEF Pictures
<1>7. ConstantRate => Pictures[n + 1] - Pictures[n] = Gap
  BY <1>4 DEF ConstantRate, Gap
<1> QED BY <1>5, <1>6, <1>7 DEF Follows

LEMMA PassedTyped ==
    ASSUME ProcessData
    PROVE  /\ Gone \in Nat /\ Passed \in Nat /\ Gone <= Passed
           /\ Len(ready) \in Nat
           /\ \A n \in 1..Gone : handed[n] \in Picture
           /\ \A k \in 1..Len(ready) : ready[k] \in Picture
           /\ \A n \in 1..Passed : Nth(n) \in Picture
<1>1. ready \in Seq(Picture) /\ handed \in Seq(Picture)
  BY DEF ProcessData
<1>2. /\ Gone \in Nat /\ Len(ready) \in Nat
      /\ \A n \in 1..Gone : handed[n] \in Picture
      /\ \A k \in 1..Len(ready) : ready[k] \in Picture
  BY <1>1, LenProperties, ElementOfSeq DEF Gone
<1>3. Passed = Gone \/ Passed = Gone + Len(ready)
  BY DEF Passed
<1>4. ASSUME NEW n \in 1..Passed PROVE Nth(n) \in Picture
  <2>1. CASE n <= Gone
    BY <1>2, <1>3, <2>1 DEF Nth
  <2>2. CASE ~(n <= Gone)
    <3>1. n - Gone \in 1..Len(ready)
      BY <1>2, <1>3, <2>2
    <3> QED BY <1>2, <2>2, <3>1 DEF Nth
  <2> QED BY <2>1, <2>2
<1> QED BY <1>2, <1>3, <1>4

(* A step after which the frames, or the first of them, are the same.      *)
LEMMA SpacedKept ==
    ASSUME Spaced, Pictures' = Pictures, Passed \in Nat, Passed' \in Nat,
           Passed' <= Passed,
           \A n \in 1..Passed' : Nth(n)' = Nth(n),
           Whole' => /\ Whole /\ Passed' = Passed /\ Latest' = Latest
                     /\ UNCHANGED <<Taken, nextPts, deltaPts>>
                     /\ Taken > 0 => decoded'[Taken] = decoded[Taken]
    PROVE  Spaced'
<1>1. Gap' = Gap /\ (ConstantRate' <=> ConstantRate)
  BY DEF Gap, ConstantRate
<1>2. \A p, q : Follows(p, q)' <=> Follows(p, q)
  BY <1>1 DEF Follows
<1>3. \A n \in 1..Passed' : Nth(n)'.pts \in Nat
  BY DEF Spaced
<1>4. ASSUME NEW n \in 1..(Passed' - 1)
      PROVE  Follows(Nth(n).pts, Nth(n + 1).pts)'
  <2>1. n \in 1..(Passed - 1) /\ n \in 1..Passed' /\ n + 1 \in 1..Passed'
    <3> DEFINE a == Passed
               b == Passed'
    <3>1. a \in Nat /\ b \in Nat /\ b <= a /\ n \in 1..(b - 1)
      OBVIOUS
    <3> HIDE DEF a, b
    <3>2. n \in 1..(a - 1) /\ n \in 1..b /\ n + 1 \in 1..b
      BY <3>1
    <3> QED BY <3>2 DEF a, b
  <2>2. Follows(Nth(n).pts, Nth(n + 1).pts)
    BY <2>1 DEF Spaced
  <2>3. Nth(n)' = Nth(n) /\ Nth(n + 1)' = Nth(n + 1)
    BY <2>1
  <2> QED BY <1>1, <2>2, <2>3 DEF Follows
<1>5. ASSUME Whole' PROVE Numbering'
  BY <1>1, <1>5 DEF Spaced, Numbering, Follows
<1> QED BY <1>3, <1>4, <1>5 DEF Spaced

LEMMA SpacedQuiet ==
    ASSUME Spaced, ProcessData, Ordered, Pictures' = Pictures,
           UNCHANGED processVars, Stays("processFrames"),
           Len(decoded) \in Nat,
           \A i \in 1..Len(decoded) : decoded'[i] = decoded[i],
           chan["frames"].quit => chan'["frames"].quit
    PROVE  Spaced'
<1>1. UNCHANGED <<index, ready, handed, nextPts, deltaPts>>
  BY DEF processVars
<1>2. /\ Gone \in Nat /\ Passed \in Nat /\ Gone <= Passed
      /\ (Whole => Passed = Gone + Len(ready))
      /\ (Whole' => Passed' = Gone + Len(ready))
      /\ (~Whole' => Passed' = Gone) /\ Gone' = Gone
      /\ (Whole => Taken \in Nat /\ Taken <= Len(decoded))
  <2>1. Whole => Taken \in Int /\ Taken <= Len(decoded)
    <3>1. Width(ready[1]) \in Int /\ Len(index) \in Int /\ Len(ready) \in Int
      BY PassedTyped, LenProperties DEF Width, ProcessData
    <3> QED BY <3>1 DEF Taken, Base, Ordered
  <2>2. Whole => Taken \in Nat
    BY PassedTyped DEF Taken, Ordered
  <2> QED BY <1>1, <2>1, <2>2, PassedTyped DEF Passed, Gone
<1>3. CASE P' = P
  <2>1. Base' = Base /\ (Whole' => Whole) /\ Parent' = Parent
    BY <1>1, <1>3 DEF Base, Whole, Parent
  <2>2. Taken' = Taken
    BY <1>1, <2>1 DEF Taken
  <2>3. \A n : Nth(n)' = Nth(n)
    BY <1>1 DEF Nth, Gone
  <2>4. Passed' \in Nat /\ Passed' <= Passed /\ (Whole' => Passed' = Passed)
    BY <1>2, <2>1
  <2>5. Whole' => Latest' = Latest
    BY <1>1, <2>4 DEF Latest, Nth, Gone
  <2>6. Whole' /\ Taken > 0 => decoded'[Taken] = decoded[Taken]
    BY <1>2, <2>1
  <2> QED BY <1>1, <1>2, <2>1, <2>2, <2>3, <2>4, <2>5, <2>6, SpacedKept
<1>4. CASE P' \in {"catch", "done"}
  <2>1. ~Whole'
    BY <1>4 DEF Whole
  <2>2. \A n : Nth(n)' = Nth(n)
    BY <1>1 DEF Nth, Gone
  <2> QED BY <1>2, <2>1, <2>2, SpacedKept
<1> QED BY <1>3, <1>4 DEF Stays, P

LEMMA SpacedPop ==
    ASSUME Control, Queuing, FileData, DecodeData, ProcessData, Shape,
           Ordered, Reading, Spaced, ProcessPop, Pictures' = Pictures,
           decoded' = decoded
    PROVE  Spaced'
<1> DEFINE items == chan["frames"].items
           f == Popped(items[1])
           r == Len(ready)
<1>1. /\ P = "pop" /\ ~chan["frames"].quit /\ items # <<>>
      /\ items[1] \in Decoded /\ items \in Seq(Decoded)
      /\ ready' \in Seq(Picture) /\ Len(ready') = r + 1
      /\ \A k \in 1..r : ready'[k] = ready[k]
      /\ ready'[r + 1] = f
      /\ P' \in {"decide", "pop"} /\ ~chan'["frames"].quit
      /\ nextPts' = IF nextPts # None /\ deltaPts # None
                    THEN nextPts + deltaPts ELSE nextPts
      /\ UNCHANGED <<deltaPts, index, handed>>
  BY PopEffects DEF Queuing
<1>2. /\ Whole /\ Whole' /\ ~Parent /\ Base = Len(index) /\ Base' = Base
  BY <1>1 DEF Whole, Parent, Base, Shape
<1>3. /\ Taken = Base + r /\ r \in Nat /\ Base \in Nat
      /\ Len(decoded) \in Nat /\ Len(items) \in Nat /\ Len(items) > 0
      /\ Len(decoded) = Taken + Len(items)
  <2>1. Len(items) \in Nat /\ Len(items) > 0
    BY <1>1, LenProperties, EmptySeq
  <2> QED BY <1>1, <1>2, <2>1, HandFacts DEF Ordered
<1>4. items[1].pts = decoded[Taken + 1]
  <2>1. 1 \in 1..Len(items)
    BY <1>3
  <2>2. items[1] = [pts |-> decoded[Taken + 1], dts |-> None, child |-> None]
    BY <1>1, <1>2, <2>1 DEF Ordered
  <2> QED BY <2>2
<1>5. ~Parent' /\ Taken' = Taken + 1
  <2>1. f.child = None /\ ready'[Len(ready')] = f
    BY <1>1, <1>3 DEF Popped
  <2>2. ~Parent'
    BY <2>1 DEF Parent
  <2> QED BY <1>1, <1>2, <1>3, <2>2 DEF Taken
<1>6. /\ Gone \in Nat /\ Gone' = Gone
      /\ Passed = Gone + r /\ Passed' = Passed + 1 /\ Passed \in Nat
  BY <1>1, <1>2, <1>3, PassedTyped DEF Passed, Gone
<1>7. \A n \in 1..Passed : Nth(n)' = Nth(n)
  <2> SUFFICES ASSUME NEW n \in 1..Passed PROVE Nth(n)' = Nth(n)
    OBVIOUS
  <2>1. CASE n <= Gone
    BY <1>1, <1>6, <2>1 DEF Nth, Gone
  <2>2. CASE ~(n <= Gone)
    <3>1. n - Gone \in 1..r
      BY <1>3, <1>6, <2>2
    <3> QED BY <1>1, <1>6, <2>2, <3>1 DEF Nth
  <2> QED BY <2>1, <2>2
<1>8. /\ \A n : n = Passed + 1 => Nth(n)' = f
      /\ Latest' = f.pts
  <2> SUFFICES ASSUME NEW n, n = Passed + 1
               PROVE  Nth(n)' = f /\ Latest' = f.pts
    BY <1>6
  <2>1. ~(n <= Gone) /\ n - Gone = r + 1 /\ n = Passed'
    BY <1>3, <1>6
  <2> QED BY <1>1, <1>6, <2>1 DEF Nth, Latest
<1>9. Gap' = Gap /\ (ConstantRate' <=> ConstantRate)
  BY DEF Gap, ConstantRate
<1>10. /\ f.pts \in Nat /\ Numbering'
       /\ Passed > 0 => Follows(Latest, f.pts)
  <2> USE DEF Numbering
  <2>1. Numbering
    BY <1>2 DEF Spaced
  <2>2. CASE nextPts = None
    <3>1. f.pts = decoded[Taken + 1] /\ nextPts' = None
      BY <1>1, <1>4, <2>2 DEF Popped
    <3>2. f.pts \in Nat
      BY <1>1, <1>4, <3>1 DEF Decoded
    <3>3. Numbering'
      BY <1>1, <1>3, <1>5, <1>6, <1>8, <2>1, <2>2, <3>1
    <3>4. ASSUME Passed > 0 PROVE Follows(Latest, f.pts)
      <4>1. Taken > 0 /\ Latest = decoded[Taken]
        BY <2>1, <2>2, <3>4
      <4>2. Taken \in Nat /\ Taken + 1 <= Len(decoded)
        <5> HIDE DEF r, items
        <5> QED BY <1>3
      <4> QED BY <3>1, <4>1, <4>2, DecodedFollows
    <3> QED BY <3>2, <3>3, <3>4
  <2>3. CASE nextPts # None
    <3>1. /\ f.pts = nextPts /\ nextPts' = nextPts + deltaPts
          /\ nextPts \in Nat /\ deltaPts \in Int
          /\ Latest + deltaPts = nextPts /\ Follows(Latest, nextPts)
          /\ Passed > 0
      BY <1>1, <2>1, <2>3 DEF Popped, ProcessData
    <3>2. Latest \in Nat
      BY <1>6, <3>1 DEF Spaced, Latest
    <3>3. Follows(nextPts, nextPts + deltaPts) /\ nextPts + deltaPts \in Nat
      BY <3>1, <3>2 DEF Follows
    <3>4. nextPts' # None
      BY <3>1, <3>3 DEF None
    <3>5. Numbering'
      BY <1>1, <1>6, <1>8, <1>9, <2>1, <2>3, <3>1, <3>3, <3>4 DEF Follows
    <3> QED BY <3>1, <3>5
  <2> QED BY <2>2, <2>3
<1>11. \A n \in 1..Passed' : Nth(n)'.pts \in Nat
  <2>1. \A n \in 1..Passed : Nth(n)'.pts \in Nat
    BY <1>7 DEF Spaced
  <2>2. \A n \in 1..Passed' : n \in 1..Passed \/ n = Passed + 1
    BY <1>6
  <2> QED BY <1>8, <1>10, <2>1, <2>2
<1>12. ASSUME NEW n \in 1..(Passed' - 1)
       PROVE  Follows(Nth(n).pts, Nth(n + 1).pts)'
  <2>1. n \in 1..Passed /\ (n = Passed \/ n \in 1..(Passed - 1))
    BY <1>6
  <2>2. CASE n = Passed
    <3>1. Follows(Latest, f.pts) /\ Latest = Nth(n).pts
      BY <1>6, <1>10, <2>1, <2>2 DEF Latest
    <3>2. Nth(n)' = Nth(n) /\ Nth(n + 1)' = f
      BY <1>7, <1>8, <2>1, <2>2
    <3> QED BY <1>9, <3>1, <3>2 DEF Follows
  <2>3. CASE n \in 1..(Passed - 1)
    <3>1. n + 1 \in 1..Passed
      BY <1>6, <2>3
    <3>2. Follows(Nth(n).pts, Nth(n + 1).pts)
      BY <2>3 DEF Spaced
    <3>3. Nth(n)' = Nth(n) /\ Nth(n + 1)' = Nth(n + 1)
      BY <1>7, <2>1, <3>1
    <3> QED BY <1>9, <3>2, <3>3 DEF Follows
  <2> QED BY <2>1, <2>2, <2>3
<1> QED BY <1>10, <1>11, <1>12 DEF Spaced

LEMMA SpacedDrop ==
    ASSUME Control, ProcessData, Shape, Spaced, ProcessDrop,
           Pictures' = Pictures
    PROVE  Spaced'
<1>1. /\ P = "decide" /\ P' = "index"
      /\ Len(ready) = 3 /\ \A k \in 1..3 : ready[k] \in Picture
      /\ Len(ready') = 2 /\ ready'[1] = ready[1]
      /\ ready'[2].pts = ready[2].pts
      /\ nextPts' = ready[3].pts
      /\ deltaPts' = ready[3].pts - ready[2].pts
      /\ handed' = handed
  BY DropEffects
<1>2. Whole /\ Whole'
  BY <1>1 DEF Whole
<1>3. /\ Gone \in Nat /\ Gone' = Gone
      /\ Passed = Gone + 3 /\ Passed' = Gone + 2
  BY <1>1, <1>2, PassedTyped DEF Passed, Gone
<1>4. /\ Nth(Gone + 1) = ready[1] /\ Nth(Gone + 2) = ready[2]
      /\ Nth(Gone + 3) = ready[3]
  BY <1>3 DEF Nth
<1>5. \A n \in 1..Passed' : Nth(n)'.pts = Nth(n).pts
  <2> SUFFICES ASSUME NEW n \in 1..Passed' PROVE Nth(n)'.pts = Nth(n).pts
    OBVIOUS
  <2>1. CASE n <= Gone
    BY <1>1, <1>3, <2>1 DEF Nth, Gone
  <2>2. CASE ~(n <= Gone)
    <3>1. n - Gone = 1 \/ n - Gone = 2
      BY <1>3, <2>2
    <3> QED BY <1>1, <1>3, <2>2, <3>1 DEF Nth
  <2> QED BY <2>1, <2>2
<1>6. Gap' = Gap /\ (ConstantRate' <=> ConstantRate)
  BY DEF Gap, ConstantRate
<1>7. \A n \in 1..Passed' : Nth(n)'.pts \in Nat
  BY <1>3, <1>5 DEF Spaced
<1>8. ASSUME NEW n \in 1..(Passed' - 1)
      PROVE  Follows(Nth(n).pts, Nth(n + 1).pts)'
  <2>1. /\ n \in 1..(Passed - 1) /\ n \in 1..Passed' /\ n + 1 \in 1..Passed'
    BY <1>3
  <2>2. Follows(Nth(n).pts, Nth(n + 1).pts)
    BY <2>1 DEF Spaced
  <2>3. Nth(n)'.pts = Nth(n).pts /\ Nth(n + 1)'.pts = Nth(n + 1).pts
    BY <1>5, <2>1
  <2> QED BY <1>6, <2>2, <2>3 DEF Follows
<1>9. Numbering'
  <2>1. /\ ready[2].pts \in Nat /\ ready[3].pts \in Nat
        /\ Follows(ready[2].pts, ready[3].pts)
    <3>1. /\ Gone + 2 \in 1..Passed /\ Gone + 3 \in 1..Passed
          /\ Gone + 2 \in 1..(Passed - 1) /\ Gone + 2 + 1 = Gone + 3
      BY <1>3
    <3> QED BY <1>4, <3>1 DEF Spaced
  <2>2. Latest' = ready[2].pts
    BY <1>1, <1>3 DEF Latest, Nth
  <2>3. nextPts' # None /\ deltaPts' # None
    BY <1>1, <2>1 DEF Follows, None
  <2>4. Passed' > 0 /\ Latest' + deltaPts' = nextPts' /\ nextPts' \in Nat
    BY <1>1, <1>3, <2>1, <2>2
  <2>5. Follows(Latest, nextPts)'
    BY <1>1, <1>6, <2>1, <2>2 DEF Follows
  <2> QED BY <2>3, <2>4, <2>5 DEF Numbering
<1> QED BY <1>7, <1>8, <1>9 DEF Spaced

LEMMA SpacedPush ==
    ASSUME Control, Queuing, DecodeData, ProcessData, Shape, Ordered, Spaced,
           ProcessPush, Pictures' = Pictures, decoded' = decoded
    PROVE  Spaced'
<1>1. /\ P = "push" /\ Len(ready) \in Nat /\ Len(ready) > 0
      /\ chan'["frames"] = chan["frames"]
      /\ UNCHANGED <<nextPts, deltaPts>>
      /\ \/ /\ Len(ready') = Len(ready) - 1
            /\ \A k \in 1..(Len(ready) - 1) : ready'[k] = ready[k + 1]
            /\ Len(handed') = Len(handed) + 1
            /\ \A n \in 1..Len(handed) : handed'[n] = handed[n]
            /\ handed'[Len(handed) + 1] = ready[1]
            /\ P' \in {"pop", "index"}
         \/ ready' = <<>> /\ handed' = handed
            /\ P' = "pop" /\ chan["frames"].quit
  BY PushEffects
<1>2. Whole /\ Gone \in Nat /\ Passed = Gone + Len(ready) /\ Passed \in Nat
  BY <1>1, PassedTyped DEF Whole, Passed
<1>3. CASE handed' = handed /\ P' = "pop" /\ chan["frames"].quit
  <2>1. ~Whole' /\ Passed' = Gone
    BY <1>1, <1>3 DEF Whole, Passed, Gone
  <2>2. \A n \in 1..Passed' : Nth(n)' = Nth(n)
    BY <1>2, <1>3, <2>1 DEF Nth, Gone
  <2> QED BY <1>1, <1>2, <2>1, <2>2, SpacedKept
<1>4. CASE /\ Len(ready') = Len(ready) - 1
           /\ \A k \in 1..(Len(ready) - 1) : ready'[k] = ready[k + 1]
           /\ Len(handed') = Len(handed) + 1
           /\ \A n \in 1..Len(handed) : handed'[n] = handed[n]
           /\ handed'[Len(handed) + 1] = ready[1]
           /\ P' \in {"pop", "index"}
  <2>1. /\ Gone' = Gone + 1
        /\ Passed' = IF Whole' THEN Passed ELSE Gone + 1
    BY <1>1, <1>2, <1>4 DEF Passed, Gone
  <2>2. Passed' <= Passed /\ Passed' \in Nat
    BY <1>1, <1>2, <2>1
  <2>3. ASSUME NEW n \in 1..Passed PROVE Nth(n)' = Nth(n)
    <3>1. CASE n <= Gone
      BY <1>2, <1>4, <2>1, <3>1 DEF Nth, Gone
    <3>2. CASE n = Gone + 1
      BY <1>2, <1>4, <2>1, <3>2 DEF Nth, Gone
    <3>3. CASE n > Gone + 1
      <4>1. /\ n - (Gone + 1) \in 1..(Len(ready) - 1)
            /\ n - (Gone + 1) + 1 = n - Gone
            /\ ~(n <= Gone) /\ ~(n <= Gone + 1)
        BY <1>1, <1>2, <3>3
      <4> QED BY <1>4, <2>1, <4>1 DEF Nth
    <3> QED BY <1>2, <3>1, <3>2, <3>3
  <2>4. \A n \in 1..Passed' : Nth(n)' = Nth(n)
    BY <1>2, <2>2, <2>3
  <2>5. ASSUME Whole' PROVE Passed' = Passed /\ Latest' = Latest
    <3> SUFFICES ASSUME NEW n, n = Passed PROVE n = Passed' /\ Latest' = Latest
      BY <2>1, <2>5
    <3>1. n = Passed' /\ n \in 1..Passed
      BY <1>1, <1>2, <2>1, <2>5
    <3>2. Nth(n)' = Nth(n)
      BY <2>3, <3>1
    <3> QED BY <3>1, <3>2 DEF Latest, Nth
  <2>6. Whole' => Taken' = Taken
    BY HandPush
  <2> QED BY <1>1, <1>2, <2>2, <2>4, <2>5, <2>6, SpacedKept
<1> QED BY <1>1, <1>3, <1>4

LEMMA SpacedStep ==
    ASSUME Safe, Safe', Lasting, Reading, Spaced, [Next]_vars
    PROVE  Spaced'
<1>0. /\ Control /\ Queuing /\ Shape /\ Ordered
      /\ FileData /\ DecodeData /\ ProcessData /\ DecodeData'
      /\ file' = file
  BY FileConstant DEF Safe, Data
<1>1. Pictures' = Pictures
  BY <1>0 DEF Pictures
<1>2. CASE ProcessStep
  <2>1. decoded' = decoded
    BY <1>0, <1>2, ProcessMoves DEF decodeVars
  <2>2. CASE ProcessPop
    BY <1>0, <1>1, <2>1, <2>2, SpacedPop
  <2>3. CASE ProcessDrop
    BY <1>0, <1>1, <2>3, SpacedDrop
  <2>4. CASE ProcessPush
    BY <1>0, <1>1, <2>1, <2>4, SpacedPush
  <2>5. CASE ProcessKeep \/ ProcessIndex
    <3>1. /\ Whole /\ Whole' /\ Taken' = Taken
          /\ UNCHANGED <<ready, handed, nextPts, deltaPts>>
      <4>1. CASE ProcessKeep
        <5>1. P = "decide" /\ P' = "index" /\ UNCHANGED processVars
          BY <1>0, <4>1, KeepEffects
        <5> QED BY <2>1, <5>1
                DEF processVars, Whole, Taken, Base, Parent
      <4>2. CASE ProcessIndex
        <5>1. /\ P' = "push" /\ Whole /\ Taken' = Taken
              /\ UNCHANGED <<ready, handed, nextPts, deltaPts>>
          BY <1>0, <4>2, IndexEffects, HandIndex
        <5> QED BY <5>1 DEF Whole
      <4> QED BY <2>5, <4>1, <4>2
    <3>2. /\ Gone' = Gone /\ Passed' = Passed /\ Passed \in Nat
          /\ Latest' = Latest /\ \A n : Nth(n)' = Nth(n)
      BY <1>0, <3>1, PassedTyped DEF Gone, Passed, Latest, Nth
    <3> QED BY <1>1, <2>1, <3>1, <3>2, SpacedKept
  <2>6. CASE ProcessEnd
    <3>1. P' = "done" /\ handed' = handed
      BY <1>0, <2>6, EndEffects
    <3>2. /\ ~Whole' /\ Gone' = Gone /\ Passed' = Gone /\ Gone \in Nat
          /\ Passed \in Nat /\ Gone <= Passed
      BY <1>0, <3>1, PassedTyped DEF Whole, Passed, Gone
    <3>3. \A n \in 1..Passed' : Nth(n)' = Nth(n)
      BY <3>1, <3>2 DEF Nth
    <3> QED BY <1>1, <3>2, <3>3, SpacedKept
  <2> QED BY <1>2, <2>2, <2>3, <2>4, <2>5, <2>6 DEF ProcessStep
<1>3. CASE ~ProcessStep
  <2>1. UNCHANGED processVars /\ Stays("processFrames")
    BY <1>0, <1>3, ProcessQuiet
  <2>2. /\ Len(decoded) \in Nat
        /\ \A i \in 1..Len(decoded) : decoded'[i] = decoded[i]
    <3>1. CASE decoded' = decoded
      BY <1>0, <3>1, LenProperties DEF DecodeData
    <3>2. CASE decoded' # decoded
      <4>1. DecodeStep
        BY <1>0, <3>2, DecodeQuiet DEF decodeVars
      <4>2. DecodeReceive
        BY <3>2, <4>1 DEF DecodeStep, DecodePop, DecodeAudio, DecodeEnd,
           DecodeSend, DecodeDrained, decodeVars
      <4>3. decoded' = Append(decoded, Head(decoder)) /\ decoder # <<>>
        BY <1>0, <3>2, <4>2, PipelineAssumption
        DEF DecodeReceive, DecodeData
      <4>4. Head(decoder) \in Nat /\ decoded \in Seq(Nat)
        BY <1>0, <4>3 DEF DecodeData
      <4> HIDE DEF Safe
      <4> QED BY <4>3, <4>4, AppendProperties, LenProperties
    <3> QED BY <3>1, <3>2
  <2> QED BY <1>0, <1>1, <2>1, <2>2, SpacedQuiet DEF Lasting
<1> QED BY <1>2, <1>3

LEMMA SpacedInit == Init => Spaced
<1> SUFFICES ASSUME Init PROVE Spaced
  OBVIOUS
<1>1. Passed = 0 /\ nextPts = None /\ deltaPts = None
  BY DEF Init, Passed, Gone
<1> QED BY <1>1 DEF Spaced, Numbering

LEMMA SafeGapFree ==
    ASSUME Safe, Spaced, Sleepers
    PROVE  GapFree
<1>1. Gone \in Nat /\ Passed \in Nat /\ Gone <= Passed
  BY PassedTyped DEF Safe, Data
<1>2. ASSUME NEW i \in 1..(Len(handed) - 1)
      PROVE  /\ handed[i].pts < handed[i + 1].pts
             /\ ConstantRate =>
                  handed[i + 1].pts - handed[i].pts = Pictures[2] - Pictures[1]
  <2>1. /\ i \in 1..(Passed - 1)
        /\ Nth(i) = handed[i] /\ Nth(i + 1) = handed[i + 1]
    BY <1>1 DEF Nth, Gone
  <2>2. Follows(Nth(i).pts, Nth(i + 1).pts)
    BY <2>1 DEF Spaced
  <2> QED BY <2>1, <2>2 DEF Follows, Gap
<1> QED BY <1>2, SafeTyped DEF GapFree

(* In every run with files whose streams decode tells apart: the frames    *)
(* given to the encoder have increasing pts, and when the input has a      *)
(* constant rate they are as far apart as its pictures, however many       *)
(* frames were dropped before.                                             *)
THEOREM GapsCorrect == StreamsTold => (Spec => []GapFree)
<1>0. Init => Sleepers
  BY DEF Init, Sleepers
<1>1. Init => Safe /\ Reading /\ Spaced /\ Sleepers
  BY <1>0, SafeInit, ReadingInit, SpacedInit
<1>2. StreamsTold /\ Safe /\ Reading /\ Spaced /\ Sleepers /\ [Next]_vars =>
         (Safe /\ Reading /\ Spaced /\ Sleepers)'
  BY SafeStep, ReadingStep, SpacedStep, SleepersStep
<1>3. Safe /\ Reading /\ Spaced /\ Sleepers => GapFree
  BY SafeGapFree
<1>4. ASSUME StreamsTold PROVE Spec => []GapFree
  BY <1>1, <1>2, <1>3, <1>4, PTL DEF Spec
<1> QED BY <1>4

-----------------------------------------------------------------------------
(* When nothing fails the output is complete.                              *)

Calm == failed = {}

(* The stages whose exceptions are reported are remembered.                *)
Remembered ==
    \A s \in {"demultiplex", "decode"} : s \in failed => exception

(* No queue was given up and the packets are read to the last.             *)
Unharmed ==
    /\ \A q \in Queues : ~chan[q].quit
    /\ \A s \in Stages : at[s] # "catch"
    /\ at["demultiplex"] = "done" => position = Len(file)

(* The decoder gives a frame only when it has more than it keeps.          *)
Kept == decoded = <<>> \/ Len(decoder) >= DecoderDelay

(* What the decoder keeps for ever.                                        *)
Shown ==
    \/ Len(Pictures) = Len(decoded) + DecoderDelay
    \/ decoded = <<>> /\ Len(Pictures) <= DecoderDelay

(* Frames leave processFrames in triples, and each dropped one is counted. *)
Triples(n) == \E k \in Nat : n = 3 * k

Tripled ==
    /\ P \in {"pop", "decide"} => Triples(Len(index))
    /\ P \in {"index", "push"} => Triples(Taken)
    /\ P # "done" => Len(handed) + Len(ready) + skippedCount = Taken
    /\ P = "done" =>
          /\ D = "done" /\ Triples(Len(index))
          /\ Len(handed) + skippedCount = Len(index)
          /\ Len(decoded) - Len(index) \in 0..2

(* The frames that were handed on are in the output, in the encoder or in  *)
(* the queue before it, in this order.                                     *)
Chain(w, e, q, h) ==
    /\ Len(h) = Len(w) + Len(e) + Len(q)
    /\ \A i \in 1..Len(w) : w[i] = h[i].pts
    /\ \A i \in 1..Len(e) : e[i] = h[Len(w) + i].pts
    /\ \A i \in 1..Len(q) : q[i] = h[Len(w) + Len(e) + i]

Encoded ==
    /\ written \in Seq(Int)
    /\ Chain(written, encoder, chan["processed"].items, handed)

(* The encoder is flushed when no frame can follow.                        *)
Flushing ==
    /\ at["encode"] \in {"pop", "drain"} => flushed = 1
    /\ at["encode"] \in {"flush pop", "flush drain", "done"} =>
          P = "done" /\ chan["processed"].items = <<>>
    /\ at["encode"] \in {"flush pop", "done"} => encoder = <<>>

Flowing ==
    /\ Remembered
    /\ Calm =>
          /\ Unharmed /\ Kept
          /\ D = "done" => Shown
          /\ Tripled /\ Encoded /\ Flushing

LEMMA ProcessedQuiet ==
    ASSUME Queuing, [Next]_vars, ~ProcessPush, ~EncodeFrame
    PROVE  chan'["processed"].items = chan["processed"].items
<1> DEFINE same == chan'["processed"].items = chan["processed"].items
<1>0. /\ DOMAIN chan = Queues /\ \A q \in Queues : Fields(q)
      /\ "frames" \in Queues /\ "packets" \in Queues
      /\ "processed" \in Queues
  BY FieldsUnprimed DEF Queues
<1>1. ASSUME NEW q \in Queues, NEW x,
             Finish(q) \/ (q # "processed" /\ (Push(q, x) \/ Pop(q)))
      PROVE  same
  BY <1>0, <1>1, PushEffect, PopEffect, FinishEffect DEF Others
<1>2. CASE DemultiplexStep
  BY <1>0, <1>1, <1>2
  DEF DemultiplexStep, DemultiplexPush, DemultiplexEnd
<1>3. CASE DecodeStep
  BY <1>0, <1>1, <1>3
  DEF DecodeStep, DecodePop, DecodeAudio, DecodeEnd, DecodeSend,
      DecodeReceive, DecodeDrained
<1>4. CASE ProcessStep
  BY <1>0, <1>1, <1>4
  DEF ProcessStep, ProcessPop, ProcessEnd, ProcessKeep, ProcessDrop,
      ProcessIndex
<1>5. CASE EncodeStep
  BY <1>0, <1>1, <1>5 DEF EncodeStep, EncodeNull, EncodeReceive, EncodeDrained
<1>6. CASE HandlerStep
  <2>1. \/ chan' = chan
        \/ \E q : chan' = [chan EXCEPT ![q].quit = TRUE]
    BY <1>6 DEF HandlerStep, Throw, CatchQuit
  <2>2. ASSUME NEW q, chan' = [chan EXCEPT ![q].quit = TRUE]
        PROVE  chan'["processed"].items = chan["processed"].items
    <3>1. CASE q = "processed"
      BY <1>0, <2>2, <3>1, QuitEffect
    <3>2. CASE q # "processed"
      BY <1>0, <2>2, <3>2
    <3> QED BY <3>1, <3>2
  <2> QED BY <2>1, <2>2
<1>7. CASE UNCHANGED vars
  BY <1>7 DEF vars
<1> QED BY <1>2, <1>3, <1>4, <1>5, <1>6, <1>7, NextCases

(* The steps that are not a handler's, and what each stage then keeps.     *)
LEMMA CalmStep ==
    ASSUME Control, Calm => Unharmed, [Next]_vars, Calm'
    PROVE  Calm /\ Unharmed /\ ~HandlerStep
<1>1. failed \subseteq failed'
  <2>1. CASE DemultiplexStep \/ ProcessStep
    BY <2>1
    DEF DemultiplexStep, DemultiplexPush, DemultiplexEnd, ProcessStep,
        ProcessPop, ProcessEnd, ProcessKeep, ProcessDrop, ProcessIndex,
        ProcessPush
  <2>2. CASE DecodeStep
    BY <2>2
    DEF DecodeStep, DecodePop, DecodeAudio, DecodeEnd, DecodeSend,
        DecodeReceive, DecodeDrained
  <2>3. CASE EncodeStep
    BY <2>3
    DEF EncodeStep, EncodeFrame, EncodeNull, EncodeReceive, EncodeDrained
  <2>4. CASE HandlerStep
    BY <2>4 DEF HandlerStep, Throw, CatchQuit
  <2>5. CASE UNCHANGED vars
    BY <2>5 DEF vars
  <2> QED BY <2>1, <2>2, <2>3, <2>4, <2>5, NextCases
<1>2. Calm /\ Unharmed
  BY <1>1 DEF Calm
<1>3. \A s \in Stages : ~Throw(s) /\ ~CatchQuit(s)
  BY <1>2 DEF Throw, CatchQuit, Calm, Unharmed
<1> QED BY <1>2, <1>3 DEF HandlerStep

LEMMA CalmQuiet ==
    ASSUME Control, [Next]_vars, ~HandlerStep
    PROVE  /\ ~DemultiplexStep =>
                 UNCHANGED fileVars /\ at'["demultiplex"] = at["demultiplex"]
           /\ ~DecodeStep => UNCHANGED decodeVars /\ D' = D
           /\ ~ProcessStep => UNCHANGED processVars /\ P' = P
           /\ ~EncodeStep =>
                 UNCHANGED encodeVars /\ at'["encode"] = at["encode"]
<1>1. CASE DemultiplexStep
  <2>1. \A t \in Stages : t # "demultiplex" => at'[t] = at[t]
    BY <1>1, DemultiplexMoves DEF Only
  <2> QED BY <1>1, <2>1, DemultiplexMoves DEF Stages, D, P
<1>2. CASE DecodeStep
  <2>1. \A t \in Stages : t # "decode" => at'[t] = at[t]
    BY <1>2, DecodeMoves DEF Only
  <2> QED BY <1>2, <2>1, DecodeMoves DEF Stages, D, P
<1>3. CASE ProcessStep
  <2>1. \A t \in Stages : t # "processFrames" => at'[t] = at[t]
    BY <1>3, ProcessMoves DEF Only
  <2> QED BY <1>3, <2>1, ProcessMoves DEF Stages, D, P
<1>4. CASE EncodeStep
  <2>1. \A t \in Stages : t # "encode" => at'[t] = at[t]
    BY <1>4, EncodeMoves DEF Only
  <2> QED BY <1>4, <2>1, EncodeMoves DEF Stages, D, P
<1>5. CASE UNCHANGED vars
  BY <1>5 DEF vars, stageVars, D, P
<1> QED BY <1>1, <1>2, <1>3, <1>4, <1>5, NextCases

LEMMA RememberedStep ==
    ASSUME Remembered, [Next]_vars
    PROVE  Remembered'
<1>1. CASE DemultiplexStep \/ ProcessStep \/ UNCHANGED vars
  <2>1. exception' = exception /\ failed' = failed
    BY <1>1
    DEF DemultiplexStep, DemultiplexPush, DemultiplexEnd, ProcessStep,
        ProcessPop, ProcessEnd, ProcessKeep, ProcessDrop, ProcessIndex,
        ProcessPush, vars
  <2> QED BY <2>1 DEF Remembered
<1>2. CASE DecodeStep \/ EncodeStep
  <2>1. /\ exception' = exception
        /\ \/ failed' = failed
           \/ failed' = failed \cup {"audio write"}
           \/ failed' = failed \cup {"encoder"}
           \/ failed' = failed \cup {"video write"}
    BY <1>2
    DEF DecodeStep, DecodePop, DecodeAudio, DecodeEnd, DecodeSend,
        DecodeReceive, DecodeDrained, EncodeStep, EncodeFrame, EncodeNull,
        EncodeReceive, EncodeDrained
  <2>2. /\ "demultiplex" \in failed' => "demultiplex" \in failed
        /\ "decode" \in failed' => "decode" \in failed
    BY <2>1
  <2> QED BY <2>1, <2>2 DEF Remembered
<1>3. CASE HandlerStep
  <2>1. PICK s \in Stages : Throw(s) \/ CatchQuit(s)
    BY <1>3 DEF HandlerStep
  <2>2. CASE CatchQuit(s)
    <3>1. exception' = exception /\ failed' = failed
      BY <2>2 DEF CatchQuit
    <3> QED BY <3>1 DEF Remembered
  <2>3. CASE Throw(s)
    <3>1. /\ exception' = (exception \/ s \in {"demultiplex", "decode"})
          /\ failed' = failed \cup {s}
      BY <2>3 DEF Throw
    <3>2. ASSUME NEW t \in {"demultiplex", "decode"}, t \in failed'
          PROVE  exception'
      <4>1. CASE t \in failed
        <5>1. exception
          BY <4>1 DEF Remembered
        <5> QED BY <3>1, <5>1
      <4>2. CASE t = s
        BY <3>1, <4>2
      <4> QED BY <3>1, <3>2, <4>1, <4>2
    <3> QED BY <3>2 DEF Remembered
  <2> QED BY <2>1, <2>2, <2>3
<1> QED BY <1>1, <1>2, <1>3, NextCases

(* A step of a stage quits no queue.                                       *)
LEMMA QuitsKept ==
    ASSUME Queuing, [Next]_vars, ~HandlerStep
    PROVE  \A r \in Queues : chan'[r].quit = chan[r].quit
<1>0. /\ DOMAIN chan = Queues /\ \A q \in Queues : Fields(q)
      /\ "frames" \in Queues /\ "packets" \in Queues
      /\ "processed" \in Queues
  BY FieldsUnprimed DEF Queues
<1>1. ASSUME NEW q \in Queues, NEW x, Finish(q) \/ Push(q, x) \/ Pop(q)
      PROVE  \A r \in Queues : chan'[r].quit = chan[r].quit
  BY <1>0, <1>1, PushEffect, PopEffect, FinishEffect DEF Others
<1>2. CASE DemultiplexStep
  BY <1>0, <1>1, <1>2
  DEF DemultiplexStep, DemultiplexPush, DemultiplexEnd
<1>3. CASE DecodeStep
  BY <1>0, <1>1, <1>3
  DEF DecodeStep, DecodePop, DecodeAudio, DecodeEnd, DecodeSend,
      DecodeReceive, DecodeDrained
<1>4. CASE ProcessStep
  BY <1>0, <1>1, <1>4
  DEF ProcessStep, ProcessPop, ProcessEnd, ProcessKeep, ProcessDrop,
      ProcessIndex, ProcessPush
<1>5. CASE EncodeStep
  BY <1>0, <1>1, <1>5
  DEF EncodeStep, EncodeFrame, EncodeNull, EncodeReceive, EncodeDrained
<1>6. CASE UNCHANGED vars
  BY <1>6 DEF vars
<1> QED BY <1>2, <1>3, <1>4, <1>5, <1>6, NextCases

LEMMA UnharmedStep ==
    ASSUME Control, Queuing, FileData, Unharmed, [Next]_vars, ~HandlerStep
    PROVE  Unharmed'
<1>0. DOMAIN at = Stages /\ Stages = {"demultiplex", "decode",
                                      "processFrames", "encode"}
  BY DEF Control, Stages
<1>1. \A q \in Queues : ~chan'[q].quit
  BY QuitsKept DEF Unharmed
<1>2. ASSUME NEW s \in Stages, NEW place, Goto(s, place), place # "catch"
      PROVE  \A t \in Stages : at'[t] # "catch"
  BY <1>0, <1>2, GotoEffect DEF Unharmed
<1>3. ASSUME UNCHANGED stageVars
      PROVE  \A t \in Stages : at'[t] # "catch"
  BY <1>3 DEF Unharmed, stageVars
<1>4. CASE DemultiplexStep
  <2>1. \A t \in Stages : at'[t] # "catch"
    BY <1>0, <1>2, <1>3, <1>4
    DEF DemultiplexStep, DemultiplexPush, DemultiplexEnd
  <2>2. at'["demultiplex"] = "done" => position' = Len(file')
    <3>1. CASE DemultiplexPush
      <4>1. ~PushFails("packets") /\ at["demultiplex"] = "read"
        BY <3>1 DEF PushFails, DemultiplexPush, Queuing, Unharmed, Queues
      <4>2. at'["demultiplex"] = "read"
        BY <3>1, <4>1 DEF DemultiplexPush, stageVars
      <4>3. at'["demultiplex"] # "done"
        BY <4>2
      <4> QED BY <4>3
    <3>2. CASE DemultiplexEnd
      BY <3>2 DEF DemultiplexEnd, fileVars
    <3> QED BY <1>4, <3>1, <3>2 DEF DemultiplexStep
  <2> QED BY <1>1, <2>1, <2>2 DEF Unharmed
<1>5. CASE ~DemultiplexStep
  <2>1. at'["demultiplex"] = "done" => position' = Len(file')
    BY <1>5, CalmQuiet DEF Unharmed, fileVars
  <2>2. \A t \in Stages : at'[t] # "catch"
    <3>1. CASE DecodeStep
      <4>1. \/ UNCHANGED stageVars
            \/ \E place \in {"pop", "send", "receive", "done"} :
                  Goto("decode", place)
        BY <3>1 DEF DecodeStep, DecodePop, DecodeAudio, DecodeEnd, DecodeSend,
           DecodeReceive, DecodeDrained, AfterReceive
      <4> QED BY <1>0, <1>2, <1>3, <4>1
    <3>2. CASE ProcessStep
      <4>1. \/ UNCHANGED stageVars
            \/ \E place \in {"pop", "decide", "index", "push", "done"} :
                  Goto("processFrames", place)
        BY <3>2 DEF ProcessStep, ProcessPop, ProcessEnd, ProcessKeep,
           ProcessDrop, ProcessIndex, ProcessPush
      <4> QED BY <1>0, <1>2, <1>3, <4>1
    <3>3. CASE EncodeStep
      <4>1. \/ UNCHANGED stageVars
            \/ \E place \in {"pop", "drain", "flush pop", "flush drain",
                             "done"} :
                  Goto("encode", place)
        BY <3>3 DEF EncodeStep, EncodeFrame, EncodeNull, EncodeReceive,
           EncodeDrained, AfterDrain
      <4> QED BY <1>0, <1>2, <1>3, <4>1
    <3>4. CASE UNCHANGED vars
      BY <1>3, <3>4 DEF vars
    <3> QED BY <1>5, <3>1, <3>2, <3>3, <3>4, NextCases
  <2> QED BY <1>1, <2>1, <2>2 DEF Unharmed
<1> QED BY <1>4, <1>5

LEMMA KeptStep ==
    ASSUME Control, DecodeData, Kept, [Next]_vars, ~HandlerStep
    PROVE  Kept'
<1>1. /\ DecoderDelay \in Nat /\ decoder \in Seq(Nat)
      /\ Len(decoder) \in Nat
  BY PipelineAssumption, LenProperties DEF DecodeData
<1>2. CASE DecodeSend /\ packet.good
  <2>1. decoder' = Append(decoder, packet.pts) /\ decoded' = decoded
    BY <1>2 DEF DecodeSend
  <2>2. Len(decoder') = Len(decoder) + 1
    BY <1>1, <2>1
  <2>3. Len(decoder) >= DecoderDelay => Len(decoder') >= DecoderDelay
    BY <1>1, <2>2
  <2> QED BY <2>1, <2>3 DEF Kept
<1>3. CASE DecodeReceive
  <2>1. Len(decoder) > DecoderDelay /\ decoder' = Tail(decoder)
    BY <1>3 DEF DecodeReceive
  <2>2. decoder # <<>>
    BY <1>1, <2>1
  <2>3. Len(decoder') = Len(decoder) - 1
    BY <1>1, <2>1, <2>2, HeadTailProperties
  <2> QED BY <1>1, <2>1, <2>3 DEF Kept
<1>4. CASE ~(DecodeSend /\ packet.good) /\ ~DecodeReceive
  <2>1. decoder' = decoder /\ decoded' = decoded
    <3>1. CASE DecodeStep
      BY <1>4, <3>1 DEF DecodeStep, DecodePop, DecodeAudio, DecodeEnd,
         DecodeSend, DecodeDrained, decodeVars
    <3>2. CASE ~DecodeStep
      BY <3>2, CalmQuiet DEF decodeVars
    <3> QED BY <3>1, <3>2
  <2> QED BY <2>1 DEF Kept
<1> QED BY <1>2, <1>3, <1>4

(* When decode ends, all packets of the file have left the packet queue.   *)
LEMMA ShownStep ==
    ASSUME Safe, Reading, Unharmed, Kept, D = "done" => Shown,
           [Next]_vars, ~HandlerStep, Calm'
    PROVE  D' = "done" => Shown'
<1>0. /\ Control /\ Queuing /\ FileData /\ DecodeData
      /\ DOMAIN at = Stages /\ "decode" \in Stages
  BY DEF Safe, Data, Control, Stages
<1>1. file' = file
  BY <1>0, FileConstant
<1>2. CASE DecodeEnd
  <2>1. /\ D = "pop" /\ decoded' = decoded /\ chan["packets"].items = <<>>
        /\ chan["packets"].finished
    BY <1>2 DEF DecodeEnd, D, decodeVars, PopFails, Unharmed, Queues
  <2>2. PICK n \in 0..Len(file) : Queued(n) /\ Consumed(n)
    BY <2>1 DEF Reading, Unharmed, Queues
  <2>3. position = Len(file)
    BY <1>0, <2>1 DEF Queuing, Unharmed
  <2>4. n = Len(file)
    <3>1. n + 0 = position
      BY <2>1, <2>2 DEF Queued
    <3> QED BY <2>3, <3>1
  <2>5. InDecoder(Len(file))
    BY <2>1, <2>2, <2>4 DEF Consumed
  <2>6. Len(Pictures) = Len(decoded) + Len(decoder)
    BY <2>5 DEF InDecoder, Pictures
  <2>7. /\ Len(decoder) \in Nat /\ Len(decoder) <= DecoderDelay
        /\ Len(decoded) \in Nat /\ DecoderDelay \in Nat
        /\ decoded = <<>> => Len(decoded) = 0
    BY <1>0, <2>1, PipelineAssumption, LenProperties DEF DecodeData
  <2>8. Shown
    BY <2>6, <2>7 DEF Kept, Shown
  <2> QED BY <1>1, <2>1, <2>8 DEF Shown, Pictures
<1>3. CASE DecodeStep /\ ~DecodeEnd
  <2>1. \/ UNCHANGED stageVars /\ D # "done"
        \/ \E place \in {"pop", "send", "receive"} : Goto("decode", place)
    BY <1>3 DEF DecodeStep, DecodePop, DecodeAudio, DecodeSend,
       DecodeReceive, DecodeDrained, AfterReceive, Calm, D
  <2>2. D' # "done"
    BY <1>0, <2>1, GotoEffect DEF D, stageVars
  <2> QED BY <2>2
<1>4. CASE ~DecodeStep
  <2>1. D' = D /\ decoded' = decoded
    BY <1>0, <1>4, CalmQuiet DEF decodeVars
  <2> QED BY <1>1, <2>1 DEF Shown, Pictures
<1> QED BY <1>2, <1>3, <1>4

(* In "pop" and "decide" no frame in hand has a child.                     *)
LEMMA TakenPlain ==
    Shape /\ ready \in Seq(Picture) /\ P \in {"pop", "decide"} =>
        Base = Len(index) /\ Taken = Base + Len(ready) + 0
<1> SUFFICES ASSUME Shape, ready \in Seq(Picture), P \in {"pop", "decide"}
             PROVE  Base = Len(index) /\ Taken = Base + Len(ready) + 0
  OBVIOUS
<1>1. ready # <<>> => Len(ready) \in 1..Len(ready)
  OBVIOUS
<1>2. ~Parent
  BY <1>1 DEF Parent, Shape
<1>3. P # "push"
  OBVIOUS
<1> QED BY <1>2, <1>3 DEF Taken, Base

LEMMA TakenPlainNext ==
    ASSUME Shape', ready' \in Seq(Picture), P' = "pop" \/ P' = "decide"
    PROVE  Base' = Len(index') /\ Taken' = Base' + Len(ready') + 0
<1>1. (Shape /\ ready \in Seq(Picture) /\ P \in {"pop", "decide"} =>
         Base = Len(index) /\ Taken = Base + Len(ready) + 0)'
  BY TakenPlain, PTL
<1> QED BY <1>1

LEMMA TripledProcess ==
    ASSUME Safe, Data', Shape', Unharmed, Unharmed', Tripled, ProcessStep,
           Lasting
    PROVE  Tripled'
<1> DEFINE i == Len(index)
           r == Len(ready)
           h == Len(handed)
           s == skippedCount
<1>0. /\ Control /\ Queuing /\ DecodeData /\ ProcessData /\ Shape /\ Ordered
      /\ ~chan["frames"].quit /\ ~chan'["frames"].quit
      /\ i \in Nat /\ r \in Nat /\ h \in Nat /\ s \in Nat
      /\ ready \in Seq(Picture) /\ ready' \in Seq(Picture)
  BY LenProperties DEF Safe, Data, ProcessData, Unharmed, Queues
<1>1. CASE ProcessPop
  <2>1. /\ P = "pop" /\ Len(ready') = r + 1
        /\ P' = IF Len(ready') = 3 THEN "decide" ELSE "pop"
    BY <1>0, <1>1, PopEffects
  <2>2. index' = index /\ handed' = handed /\ skippedCount' = s
    BY <1>1 DEF ProcessPop
  <2>3. Base = i /\ Taken = i + r
    <3>1. P \in {"pop", "decide"}
      BY <2>1
    <3>2. Base = Len(index) /\ Taken = Base + Len(ready) + 0
      BY <1>0, <3>1, TakenPlain
    <3> QED BY <1>0, <3>2
  <2>4. (P' = "pop" \/ P' = "decide") /\ Base' = i /\ Taken' = i + (r + 1)
    BY <1>0, <2>1, <2>2, TakenPlainNext
  <2>5. Triples(i) /\ h + r + s = Taken
    BY <2>1 DEF Tripled
  <2>6. Triples(Len(index')) /\ Len(handed') + Len(ready') + s = Taken'
    <3>1. Triples(Len(index')) /\ Len(handed') = h
      BY <2>2, <2>5
    <3> HIDE DEF i, r, h, s
    <3>2. h + (r + 1) + s = i + (r + 1)
      BY <1>0, <2>3, <2>5
    <3> QED BY <2>1, <2>4, <3>1, <3>2
  <2>7. P' \notin {"index", "push", "done"}
    BY <2>4, Zenon
  <2> QED BY <2>2, <2>6, <2>7 DEF Tripled
<1>2. CASE ProcessEnd
  <2>1. /\ P = "pop" /\ P' = "done" /\ index' = index /\ handed' = handed
        /\ skippedCount' = skippedCount
    BY <1>0, <1>2, EndEffects
  <2>2. chan["frames"].finished /\ chan["frames"].items = <<>>
    BY <1>0, <1>2 DEF ProcessEnd, PopFails
  <2>3. D = "done" /\ D' = "done" /\ decoded' = decoded
    BY <1>0, <2>2, ProcessMoves
    DEF Queuing, Lasting, Stages, D, decodeVars
  <2>4. Base = i /\ Taken = i + r
    <3>1. P \in {"pop", "decide"}
      BY <2>1
    <3>2. Base = Len(index) /\ Taken = Base + Len(ready) + 0
      BY <1>0, <3>1, TakenPlain
    <3> QED BY <1>0, <3>2
  <2>5. Triples(i) /\ h + r + s = Taken
    BY <2>1 DEF Tripled
  <2>6. Len(decoded) = Taken + 0 /\ r <= 2
    BY <1>0, <2>1, <2>2 DEF Ordered, Whole, Shape
  <2>7. h + s = i /\ Len(decoded) - i \in 0..2
    <3> HIDE DEF i, r, h, s
    <3> QED BY <1>0, <2>4, <2>5, <2>6
  <2>8. P' \notin {"pop", "decide", "index", "push"}
    BY <2>1, Zenon
  <2> QED BY <2>1, <2>3, <2>5, <2>7, <2>8 DEF Tripled
<1>3. CASE ProcessKeep
  <2>1. /\ P = "decide" /\ P' = "index"
        /\ UNCHANGED <<index, ready, handed, skippedCount>>
    BY <1>0, <1>3, KeepEffects DEF processVars
  <2>2. Base = i /\ Taken = i + r /\ r = 3
    BY <1>0, <2>1, TakenPlain DEF Shape
  <2>3. Taken' = Taken
    <3>1. Base' = Base /\ Parent' = Parent
      BY <2>1 DEF Base, Parent
    <3> QED BY <2>1, <3>1 DEF Taken
  <2>4. Triples(i) /\ h + r + s = Taken
    BY <2>1 DEF Tripled
  <2>5. Triples(Taken)
    BY <2>2, <2>4 DEF Triples
  <2>6. P' \notin {"pop", "decide", "done"}
    BY <2>1, Zenon
  <2> QED BY <2>1, <2>3, <2>4, <2>5, <2>6 DEF Tripled
<1>4. CASE ProcessDrop
  <2>1. /\ P = "decide" /\ P' = "index" /\ r = 3 /\ Len(ready') = 2
        /\ handed' = handed /\ skippedCount' = s + 1
    BY <1>0, <1>4, DropEffects
  <2>2. Base = i /\ Taken = i + 3 /\ Taken' = Taken
    BY <1>0, <1>4, HandDrop
  <2>3. Triples(i) /\ h + r + s = Taken
    BY <2>1 DEF Tripled
  <2>4. Triples(Taken')
    BY <2>2, <2>3 DEF Triples
  <2>5. Len(handed') + Len(ready') + skippedCount' = Taken'
    <3> HIDE DEF i, r, h, s
    <3> QED BY <1>0, <2>1, <2>2, <2>3 DEF h
  <2>6. P' \notin {"pop", "decide", "done"}
    BY <2>1, Zenon
  <2> QED BY <2>4, <2>5, <2>6 DEF Tripled
<1>5. CASE ProcessIndex
  <2>1. P = "index" /\ P' = "push" /\ Taken' = Taken
    BY <1>0, <1>5, IndexEffects, HandIndex
  <2>2. UNCHANGED <<ready, handed, skippedCount>>
    BY <1>5 DEF ProcessIndex
  <2>3. Triples(Taken) /\ h + r + s = Taken
    BY <2>1 DEF Tripled
  <2>4. P' \notin {"pop", "decide", "done"}
    BY <2>1, Zenon
  <2> QED BY <2>1, <2>2, <2>3, <2>4 DEF Tripled
<1>6. CASE ProcessPush
  <2>1. /\ P = "push" /\ Len(ready') = r - 1 /\ Len(handed') = h + 1
        /\ skippedCount' = s /\ r > 0
        /\ P' = IF r = 1 THEN "pop" ELSE "index"
    BY <1>0, <1>6, PushEffects
  <2>2. Taken' = Taken
    <3>1. Whole'
      BY <1>0, <2>1 DEF Whole
    <3> QED BY <1>0, <1>6, <3>1, HandPush
  <2>3. Triples(Taken) /\ h + r + s = Taken
    BY <2>1 DEF Tripled
  <2>4. Len(handed') + Len(ready') + skippedCount' = Taken'
    <3> HIDE DEF i, r, h, s
    <3> QED BY <1>0, <2>1, <2>2, <2>3
  <2>5. P' = "pop" => Triples(Len(index'))
    <3>1. ASSUME P' = "pop" PROVE Taken' = Len(index')
      <4>1. Len(ready') = 0
        BY <2>1, <3>1
      <4>2. Len(index') \in Nat
        BY LenProperties DEF Data, ProcessData
      <4> QED BY <1>0, <3>1, <4>1, <4>2, TakenPlainNext
    <3> QED BY <2>2, <2>3, <3>1
  <2>6. P' \notin {"decide", "done"}
    BY <2>1, Zenon
  <2> QED BY <2>2, <2>3, <2>4, <2>5, <2>6 DEF Tripled
<1> QED BY <1>1, <1>2, <1>3, <1>4, <1>5, <1>6 DEF ProcessStep

LEMMA TripledStep ==
    ASSUME Safe, Data', Shape', Unharmed, Unharmed', Tripled, [Next]_vars,
           ~HandlerStep, Lasting
    PROVE  Tripled'
<1>1. CASE ProcessStep
  BY <1>1, TripledProcess
<1>2. CASE ~ProcessStep
  <2>1. UNCHANGED processVars /\ P' = P
    BY <1>2, CalmQuiet DEF Safe
  <2>2. /\ index' = index /\ ready' = ready /\ handed' = handed
        /\ skippedCount' = skippedCount
    BY <2>1 DEF processVars
  <2>3. Taken' = Taken
    <3>1. Base' = Base /\ Parent' = Parent
      BY <2>1, <2>2 DEF Base, Parent
    <3> QED BY <2>2, <3>1 DEF Taken
  <2>4. D = "done" => D' = "done" /\ decoded' = decoded
    <3>1. D = "done" => ~DecodeStep
      BY DEF DecodeStep, DecodePop, DecodeAudio, DecodeEnd, DecodeSend,
         DecodeReceive, DecodeDrained, D
    <3> QED BY <3>1, CalmQuiet DEF Safe, decodeVars
  <2> QED BY <2>1, <2>2, <2>3, <2>4 DEF Tripled
<1> QED BY <1>1, <1>2

(* A frame goes into the queue, from there into the encoder, and from      *)
(* there to the output.                                                    *)
LEMMA ChainHand ==
    ASSUME NEW w \in Seq(Int), NEW e \in Seq(Int), NEW q \in Seq(Picture),
           NEW h \in Seq(Picture), Chain(w, e, q, h), NEW x \in Picture
    PROVE  Chain(w, e, Append(q, x), Append(h, x))
<1> DEFINE g == Append(h, x)
           p == Append(q, x)
           lw == Len(w)
           le == Len(e)
           lq == Len(q)
           lh == Len(h)
<1>1. lw \in Nat /\ le \in Nat /\ lq \in Nat /\ lh \in Nat
  BY LenProperties
<1>2. /\ lh = lw + le + lq
      /\ \A i \in 1..lw : w[i] = h[i].pts
      /\ \A i \in 1..le : e[i] = h[lw + i].pts
      /\ \A i \in 1..lq : q[i] = h[lw + le + i]
  BY DEF Chain
<1>3. /\ Len(g) = lh + 1 /\ g[lh + 1] = x
      /\ \A i \in 1..lh : g[i] = h[i]
      /\ Len(p) = lq + 1 /\ p[lq + 1] = x
      /\ \A i \in 1..lq : p[i] = q[i]
  BY AppendProperties
<1> HIDE DEF lw, le, lq, lh, g, p
<1>4. Len(g) = lw + le + Len(p)
  BY <1>1, <1>2, <1>3
<1>5. ASSUME NEW i \in 1..lw PROVE w[i] = g[i].pts
  <2>1. i \in 1..lh
    BY <1>1, <1>2
  <2> QED BY <1>2, <1>3, <2>1
<1>6. ASSUME NEW i \in 1..le PROVE e[i] = g[lw + i].pts
  <2>1. lw + i \in 1..lh
    BY <1>1, <1>2
  <2> QED BY <1>2, <1>3, <2>1
<1>7. ASSUME NEW i \in 1..Len(p) PROVE p[i] = g[lw + le + i]
  <2>1. CASE i = lq + 1
    <3>1. lw + le + i = lh + 1
      BY <1>1, <1>2, <2>1
    <3> QED BY <1>3, <2>1, <3>1
  <2>2. CASE i # lq + 1
    <3>1. i \in 1..lq /\ lw + le + i \in 1..lh
      BY <1>1, <1>2, <1>3, <2>2
    <3> QED BY <1>2, <1>3, <3>1
  <2> QED BY <2>1, <2>2
<1> QED BY <1>4, <1>5, <1>6, <1>7 DEF Chain, lw, le, g, p

LEMMA ChainFrame ==
    ASSUME NEW w \in Seq(Int), NEW e \in Seq(Int), NEW q \in Seq(Picture),
           NEW h \in Seq(Picture), Chain(w, e, q, h), q # <<>>
    PROVE  Chain(w, Append(e, Head(q).pts), Tail(q), h)
<1> DEFINE f == Append(e, Head(q).pts)
           p == Tail(q)
           lw == Len(w)
           le == Len(e)
           lq == Len(q)
<1>1. lw \in Nat /\ le \in Nat /\ lq \in Nat /\ lq > 0
  BY LenProperties, EmptySeq
<1>2. /\ Len(h) = lw + le + lq
      /\ \A i \in 1..lw : w[i] = h[i].pts
      /\ \A i \in 1..le : e[i] = h[lw + i].pts
      /\ \A i \in 1..lq : q[i] = h[lw + le + i]
  BY DEF Chain
<1>3. Head(q) = q[1] /\ Head(q) \in Picture /\ Head(q).pts \in Int
  <2>1. Head(q) \in Picture
    BY HeadTailProperties
  <2> QED BY <2>1 DEF Picture
<1>4. /\ Len(f) = le + 1 /\ f[le + 1] = q[1].pts
      /\ \A i \in 1..le : f[i] = e[i]
      /\ Len(p) = lq - 1 /\ \A i \in 1..(lq - 1) : p[i] = q[i + 1]
  BY <1>3, AppendProperties, HeadTailProperties
<1> HIDE DEF lw, le, lq, f, p
<1>5. Len(h) = lw + Len(f) + Len(p)
  BY <1>1, <1>2, <1>4
<1>6. ASSUME NEW i \in 1..Len(f) PROVE f[i] = h[lw + i].pts
  <2>1. CASE i = le + 1
    <3>1. 1 \in 1..lq /\ lw + le + 1 = lw + i
      BY <1>1, <2>1
    <3> QED BY <1>2, <1>4, <2>1, <3>1
  <2>2. CASE i # le + 1
    <3>1. i \in 1..le
      BY <1>1, <1>4, <2>2
    <3> QED BY <1>2, <1>4, <3>1
  <2> QED BY <2>1, <2>2
<1>7. ASSUME NEW i \in 1..Len(p) PROVE p[i] = h[lw + Len(f) + i]
  <2>1. /\ i \in 1..(lq - 1) /\ i + 1 \in 1..lq
        /\ lw + Len(f) + i = lw + le + (i + 1)
    BY <1>1, <1>4
  <2> QED BY <1>2, <1>4, <2>1
<1> QED BY <1>2, <1>5, <1>6, <1>7 DEF Chain, lw, f, p

LEMMA ChainWrite ==
    ASSUME NEW w \in Seq(Int), NEW e \in Seq(Int), NEW q \in Seq(Picture),
           NEW h \in Seq(Picture), Chain(w, e, q, h), e # <<>>
    PROVE  /\ Append(w, Head(e)) \in Seq(Int)
           /\ Chain(Append(w, Head(e)), Tail(e), q, h)
<1> DEFINE v == Append(w, Head(e))
           f == Tail(e)
           lw == Len(w)
           le == Len(e)
           lq == Len(q)
<1>1. lw \in Nat /\ le \in Nat /\ lq \in Nat /\ le > 0
  BY LenProperties, EmptySeq
<1>2. /\ Len(h) = lw + le + lq
      /\ \A i \in 1..lw : w[i] = h[i].pts
      /\ \A i \in 1..le : e[i] = h[lw + i].pts
      /\ \A i \in 1..lq : q[i] = h[lw + le + i]
  BY DEF Chain
<1>3. Head(e) = e[1] /\ Head(e) \in Int
  BY HeadTailProperties
<1>4. /\ v \in Seq(Int) /\ Len(v) = lw + 1 /\ v[lw + 1] = e[1]
      /\ \A i \in 1..lw : v[i] = w[i]
      /\ Len(f) = le - 1 /\ \A i \in 1..(le - 1) : f[i] = e[i + 1]
  BY <1>3, AppendProperties, HeadTailProperties
<1> HIDE DEF lw, le, lq, v, f
<1>5. /\ Len(h) = Len(v) + Len(f) + lq
      /\ Len(v) + Len(f) = lw + le
  BY <1>1, <1>2, <1>4
<1>6. ASSUME NEW i \in 1..Len(v) PROVE v[i] = h[i].pts
  <2>1. CASE i = lw + 1
    <3>1. 1 \in 1..le
      BY <1>1
    <3> QED BY <1>2, <1>4, <2>1, <3>1
  <2>2. CASE i # lw + 1
    <3>1. i \in 1..lw
      BY <1>1, <1>4, <2>2
    <3> QED BY <1>2, <1>4, <3>1
  <2> QED BY <2>1, <2>2
<1>7. ASSUME NEW i \in 1..Len(f) PROVE f[i] = h[Len(v) + i].pts
  <2>1. /\ i \in 1..(le - 1) /\ i + 1 \in 1..le
        /\ Len(v) + i = lw + (i + 1)
    <3>1. Len(v) = lw + 1 /\ Len(f) = le - 1
      BY <1>4
    <3> QED BY <1>1, <3>1
  <2> QED BY <1>2, <1>4, <2>1
<1> QED BY <1>2, <1>4, <1>5, <1>6, <1>7 DEF Chain, lq, v, f

LEMMA EncodedStep ==
    ASSUME Control, Queuing, Data, Shape, Unharmed, Encoded, [Next]_vars,
           ~HandlerStep, Calm'
    PROVE  Encoded'
<1> DEFINE items == chan["processed"].items
<1>0. /\ written \in Seq(Int) /\ encoder \in Seq(Int)
      /\ items \in Seq(Picture) /\ handed \in Seq(Picture)
      /\ Chain(written, encoder, items, handed)
      /\ DOMAIN chan = Queues /\ Fields("processed")
      /\ "processed" \in Queues /\ ~chan["frames"].quit
      /\ ready \in Seq(Picture)
  BY FieldsUnprimed
  DEF Encoded, Data, EncodeData, ProcessData, Queuing, Queues, Unharmed
<1>1. CASE ProcessPush
  <2>1. /\ handed' = Append(handed, Head(ready))
        /\ Push("processed", Head(ready))
    <3>1. ~PushFails("processed")
      <4>1. P = "push" /\ (chan["processed"].finished => P = "done")
        BY <1>1 DEF ProcessPush, Queuing, P
      <4>2. ~chan["processed"].finished
        BY <4>1
      <4> QED BY <1>0, <4>2 DEF PushFails, Unharmed
    <3> QED BY <1>1, <3>1 DEF ProcessPush
  <2>2. Head(ready) \in Picture
    <3>1. ready # <<>>
      BY <1>1 DEF ProcessPush, Shape, P
    <3> QED BY <1>0, <3>1, HeadTailProperties
  <2>3. chan'["processed"].items = Append(items, Head(ready))
    BY <1>0, <2>1, PushEffect
  <2>4. written' = written /\ encoder' = encoder
    BY <1>1 DEF ProcessPush, encodeVars
  <2> HIDE DEF items
  <2>5. Chain(written', encoder', chan'["processed"].items, handed')
    BY <1>0, <2>1, <2>2, <2>3, <2>4, ChainHand
  <2> QED BY <1>0, <2>4, <2>5 DEF Encoded
<1>2. CASE EncodeFrame
  <2>1. /\ items # <<>> /\ Pop("processed") /\ written' = written
        /\ encoder' = Append(encoder, Head(items).pts)
        /\ handed' = handed
    BY <1>2 DEF EncodeFrame, CanPop, Calm, processVars
  <2>2. chan'["processed"].items = Tail(items)
    BY <1>0, <2>1, PopEffect
  <2> HIDE DEF items
  <2>3. Chain(written', encoder', chan'["processed"].items, handed')
    BY <1>0, <2>1, <2>2, ChainFrame
  <2> QED BY <1>0, <2>1, <2>3 DEF Encoded
<1>3. CASE EncodeReceive
  <2>1. /\ encoder # <<>> /\ encoder' = Tail(encoder)
        /\ written' = Append(written, Head(encoder))
        /\ handed' = handed /\ chan' = chan
    <3>1. encoder # <<>>
      <4>1. PacketReady /\ EncoderDelay \in Nat /\ Len(<<>>) = 0
        BY <1>3, PipelineAssumption DEF EncodeReceive
      <4> QED BY <4>1 DEF PacketReady
    <3> QED BY <1>3, <3>1 DEF EncodeReceive, Calm, processVars
  <2> HIDE DEF items
  <2>2. /\ written' \in Seq(Int)
        /\ Chain(written', encoder', items, handed')
    BY <1>0, <2>1, ChainWrite
  <2>3. chan'["processed"].items = items
    BY <2>1 DEF items
  <2> QED BY <2>2, <2>3 DEF Encoded
<1>4. CASE ~ProcessPush /\ ~EncodeFrame /\ ~EncodeReceive
  <2>1. chan'["processed"].items = items
    BY <1>4, ProcessedQuiet
  <2>2. handed' = handed
    <3>1. CASE ProcessStep
      BY <1>4, <3>1 DEF ProcessStep, ProcessPop, ProcessEnd, ProcessKeep,
         ProcessDrop, ProcessIndex, processVars
    <3>2. CASE ~ProcessStep
      BY <3>2, CalmQuiet DEF processVars
    <3> QED BY <3>1, <3>2
  <2>3. written' = written /\ encoder' = encoder
    <3>1. CASE EncodeStep
      BY <1>4, <3>1 DEF EncodeStep, EncodeNull, EncodeDrained, encodeVars
    <3>2. CASE ~EncodeStep
      BY <3>2, CalmQuiet DEF encodeVars
    <3> QED BY <3>1, <3>2
  <2> QED BY <1>0, <2>1, <2>2, <2>3 DEF Encoded
<1> QED BY <1>1, <1>2, <1>3, <1>4

LEMMA FlushingStep ==
    ASSUME Control, Queuing, Data, Unharmed, Flushing, [Next]_vars,
           ~HandlerStep, Lasting, Calm'
    PROVE  Flushing'
<1> DEFINE E == at["encode"]
           items == chan["processed"].items
<1>0. /\ DOMAIN at = Stages /\ "encode" \in Stages
      /\ "processFrames" \in Stages
      /\ E \in {"pop", "flush pop"} /\ PopFails("processed") =>
            P = "done" /\ items = <<>>
      /\ P = "done" => P' = "done" /\ ~ProcessPush
  BY DEF Control, Stages, PopFails, Unharmed, Queues, Queuing, Lasting, P,
     ProcessPush
<1>1. CASE EncodeFrame
  <2>1. E = "pop" /\ Goto("encode", "drain") /\ flushed' = flushed
    BY <1>1 DEF EncodeFrame, Calm
  <2>2. at'["encode"] = "drain"
    BY <1>0, <2>1, GotoEffect
  <2>3. at'["encode"] \notin {"flush pop", "flush drain", "done"}
    BY <2>2, Zenon
  <2>4. flushed' = 1
    BY <2>1 DEF Flushing
  <2> QED BY <2>3, <2>4 DEF Flushing
<1>2. CASE EncodeNull
  <2>1. /\ Goto("encode", "flush drain") /\ chan' = chan
        /\ P = "done" /\ items = <<>>
    BY <1>0, <1>2 DEF EncodeNull
  <2>2. at'["encode"] = "flush drain" /\ P' = "done"
    BY <1>0, <2>1, GotoEffect
  <2>3. at'["encode"] \notin {"pop", "drain", "flush pop", "done"}
    BY <2>2, Zenon
  <2> QED BY <2>1, <2>2, <2>3 DEF Flushing
<1>3. CASE EncodeReceive
  <2>1. /\ UNCHANGED stageVars /\ E \in {"drain", "flush drain"}
        /\ chan' = chan /\ flushed' = flushed
    BY <1>3 DEF EncodeReceive, Calm
  <2>2. /\ at'["encode"] = E /\ P' = P
    BY <2>1 DEF stageVars, P
  <2>3. at'["encode"] \notin {"flush pop", "done"}
    BY <2>1, <2>2, Zenon
  <2> QED BY <2>1, <2>2, <2>3 DEF Flushing
<1>4. CASE EncodeDrained
  <2>1. /\ E \in {"drain", "flush drain"} /\ ~PacketReady /\ AfterDrain
        /\ UNCHANGED <<chan, encoder, flushed>>
    BY <1>4 DEF EncodeDrained, encodeVars
  <2>2. CASE E = "drain"
    <3>1. ~FlushStarted /\ flushed = 1
      BY <2>2 DEF FlushStarted, Flushing
    <3>2. at'["encode"] = "pop"
      <4>1. flushed # 0
        BY <3>1
      <4>2. Goto("encode", "pop")
        BY <2>1, <3>1, <4>1 DEF AfterDrain
      <4> QED BY <1>0, <4>2, GotoEffect
    <3>3. at'["encode"] \notin {"flush pop", "flush drain", "done"}
      BY <3>2, Zenon
    <3> QED BY <2>1, <3>1, <3>3 DEF Flushing
  <2>3. CASE E = "flush drain"
    <3>1. FlushStarted /\ P = "done" /\ items = <<>> /\ encoder = <<>>
      BY <2>1, <2>3 DEF FlushStarted, Flushing, PacketReady
    <3>2. at'["encode"] = "done" \/ at'["encode"] = "flush pop"
      <4>1. Goto("encode", "done") \/ Goto("encode", "flush pop")
        BY <2>1, <3>1 DEF AfterDrain
      <4> QED BY <1>0, <4>1, GotoEffect
    <3>3. at'["encode"] \notin {"pop", "drain"}
      BY <3>2, Zenon
    <3> QED BY <1>0, <2>1, <3>1, <3>3 DEF Flushing
  <2> QED BY <2>1, <2>2, <2>3
<1>5. CASE ~EncodeStep
  <2>1. UNCHANGED encodeVars /\ at'["encode"] = E
    BY <1>5, CalmQuiet
  <2>2. P = "done" => chan'["processed"].items = items
    BY <1>0, <1>5, ProcessedQuiet DEF EncodeStep
  <2> QED BY <1>0, <2>1, <2>2 DEF Flushing, encodeVars
<1> QED BY <1>1, <1>2, <1>3, <1>4, <1>5 DEF EncodeStep

LEMMA FlowingStep ==
    ASSUME Safe, Reading, Flowing, [Next]_vars
    PROVE  Flowing'
<1>1. Remembered'
  BY RememberedStep DEF Flowing
<1>2. ASSUME Calm'
      PROVE  /\ Unharmed' /\ Kept' /\ (D' = "done" => Shown')
             /\ Tripled' /\ Encoded' /\ Flushing'
  <2>1. /\ Control /\ Queuing /\ Data /\ FileData /\ DecodeData /\ Shape
        /\ Lasting /\ Data' /\ Shape'
    BY SafeStep DEF Safe, Data
  <2>2. Calm /\ Unharmed /\ ~HandlerStep
    BY <1>2, <2>1, CalmStep DEF Flowing
  <2>3. /\ Kept /\ (D = "done" => Shown) /\ Tripled /\ Encoded /\ Flushing
    BY <2>2 DEF Flowing
  <2>4. Unharmed'
    BY <2>1, <2>2, UnharmedStep
  <2>5. Kept'
    BY <2>1, <2>2, <2>3, KeptStep
  <2>6. D' = "done" => Shown'
    BY <1>2, <2>2, <2>3, ShownStep
  <2>7. Tripled'
    BY <2>1, <2>2, <2>3, <2>4, TripledStep
  <2>8. Encoded'
    BY <1>2, <2>1, <2>2, <2>3, EncodedStep
  <2>9. Flushing'
    BY <1>2, <2>1, <2>2, <2>3, FlushingStep
  <2> QED BY <2>4, <2>5, <2>6, <2>7, <2>8, <2>9
<1> QED BY <1>1, <1>2 DEF Flowing

LEMMA FlowingInit == Init => Flowing
<1> SUFFICES ASSUME Init PROVE Flowing
  OBVIOUS
<1>1. /\ at = [demultiplex |-> "read", decode |-> "pop",
               processFrames |-> "pop", encode |-> "pop"]
      /\ \A q \in Queues : ~chan[q].quit
      /\ chan["processed"].items = <<>>
      /\ ready = <<>> /\ skippedCount = 0 /\ index = <<>> /\ encoder = <<>>
      /\ flushed = 1 /\ written = <<>> /\ decoded = <<>> /\ handed = <<>>
      /\ failed = {}
  BY DEF Init, Queues
<1>2. Remembered
  BY <1>1 DEF Remembered
<1>3. /\ Unharmed /\ Kept /\ D = "pop" /\ P = "pop" /\ at["encode"] = "pop"
  BY <1>1 DEF Unharmed, Kept, Stages, D, P
<1>4. Tripled
  <2>1. Base = 0 /\ ~Parent
    BY <1>1, <1>3 DEF Base, Parent
  <2>2. Taken = 0
    BY <1>1, <2>1 DEF Taken
  <2>3. Triples(Len(index))
    <3>1. Len(index) = 3 * 0
      BY <1>1
    <3> QED BY <3>1 DEF Triples
  <2>4. Len(handed) + Len(ready) + skippedCount = Taken
    BY <1>1, <2>2
  <2>5. P \notin {"index", "push", "done"}
    BY <1>3, Zenon
  <2> QED BY <2>3, <2>4, <2>5 DEF Tripled
<1>5. Encoded
  BY <1>1 DEF Encoded, Chain
<1>6. Flushing
  <2>1. at["encode"] \notin {"flush pop", "flush drain", "done"}
    BY <1>3, Zenon
  <2> QED BY <1>1, <2>1 DEF Flushing
<1>7. D # "done"
  BY <1>3
<1> QED BY <1>2, <1>3, <1>4, <1>5, <1>6, <1>7 DEF Flowing

LEMMA MaxOfTwo ==
    ASSUME NEW n \in Int
    PROVE  Max({0, n}) = IF n > 0 THEN n ELSE 0
<1> DEFINE S == {0, n}
           m == IF n > 0 THEN n ELSE 0
<1>1. m \in S /\ \A y \in S : m >= y
  OBVIOUS
<1>2. \A x : x \in S /\ (\A y \in S : x >= y) => x = m
  OBVIOUS
<1>3. Max(S) \in S /\ \A y \in S : Max(S) >= y
  BY <1>1 DEF Max
<1> QED BY <1>2, <1>3

LEMMA FlowingComplete ==
    ASSUME Safe, Reading, Flowing
    PROVE  Complete
<1> SUFFICES ASSUME Joined, ~exception,
                    failed \subseteq {"demultiplex", "decode"}
             PROVE  LET shown == Max({0, Len(Pictures) - DecoderDelay}) IN
                    /\ Len(index) = 3 * (shown \div 3)
                    /\ Len(handed) = Len(index) - skippedCount
                    /\ written = PtsOf(handed)
  BY DEF Complete
<1> DEFINE shown == Max({0, Len(Pictures) - DecoderDelay})
<1>1. Calm
  BY DEF Calm, Flowing, Remembered
<1>2. Shown /\ Tripled /\ Encoded /\ Flushing
  BY <1>1 DEF Flowing, Joined, Stages, D
<1>3. P = "done" /\ at["encode"] = "done"
  BY DEF Joined, Stages, P
<1>4. /\ handed \in Seq(Picture) /\ index \in Seq(Lines)
      /\ decoded \in Seq(Nat) /\ skippedCount \in Nat
      /\ file \in Seq(Packets) /\ DecoderDelay \in Nat
  BY PipelineAssumption
  DEF Safe, Data, FileData, DecodeData, ProcessData, Packets
<1>5. /\ Len(handed) \in Nat /\ Len(index) \in Nat /\ Len(decoded) \in Nat
      /\ DOMAIN handed = 1..Len(handed)
  BY <1>4, LenProperties
<1>6. Len(Pictures) \in Nat
  BY <1>4, LenProperties, PicturesTyped DEF Pictures
<1>7. shown = Len(decoded)
  <2>1. shown = IF Len(Pictures) - DecoderDelay > 0
                THEN Len(Pictures) - DecoderDelay ELSE 0
    BY <1>4, <1>6, MaxOfTwo
  <2>2. \/ Len(Pictures) = Len(decoded) + DecoderDelay
        \/ Len(decoded) = 0 /\ Len(Pictures) <= DecoderDelay
    BY <1>2 DEF Shown
  <2> HIDE DEF shown
  <2> QED BY <1>4, <1>5, <1>6, <2>1, <2>2
<1>8. /\ Triples(Len(index)) /\ Len(handed) + skippedCount = Len(index)
      /\ Len(decoded) - Len(index) \in 0..2
  BY <1>2, <1>3 DEF Tripled
<1>9. Len(index) = 3 * (Len(decoded) \div 3)
  <2> DEFINE i == Len(index)
             d == Len(decoded)
  <2>1. PICK k \in Nat : i = 3 * k
    BY <1>8 DEF Triples
  <2>2. i \in Nat /\ d \in Nat /\ d - i \in 0..2
    BY <1>5, <1>8
  <2> HIDE DEF i, d
  <2>3. d \div 3 = k
    BY <2>1, <2>2
  <2> QED BY <2>1, <2>3 DEF i, d
<1>10. Len(handed) = Len(index) - skippedCount
  BY <1>4, <1>5, <1>8
<1>11. written = PtsOf(handed)
  <2>1. /\ chan["processed"].items = <<>> /\ encoder = <<>>
    BY <1>2, <1>3 DEF Flushing
  <2>2. /\ written \in Seq(Int)
        /\ Len(handed) = Len(written) + 0 + 0
        /\ \A i \in 1..Len(written) : written[i] = handed[i].pts
    BY <1>2, <2>1 DEF Encoded, Chain
  <2>3. Len(written) = Len(handed)
    BY <2>2
  <2>4. written = [i \in 1..Len(handed) |-> written[i]]
    BY <2>2, <2>3
  <2> QED BY <1>5, <2>2, <2>3, <2>4 DEF PtsOf
<1> QED BY <1>7, <1>9, <1>10, <1>11

(* In every run with files whose streams decode tells apart: when          *)
(* runSkipping returns normally, no exception went unreported and no write *)
(* or encoder call failed, the index has all pictures but those that the   *)
(* decoder keeps and those of an incomplete last triple, and all that were *)
(* kept are in the output, in order.                                       *)
THEOREM CompleteCorrect == StreamsTold => (Spec => []Complete)
<1>1. Init => Safe /\ Reading /\ Flowing
  BY SafeInit, ReadingInit, FlowingInit
<1>2. StreamsTold /\ Safe /\ Reading /\ Flowing /\ [Next]_vars =>
         (Safe /\ Reading /\ Flowing)'
  BY SafeStep, ReadingStep, FlowingStep
<1>3. Safe /\ Reading /\ Flowing => Complete
  BY FlowingComplete
<1>4. ASSUME StreamsTold PROVE Spec => []Complete
  BY <1>1, <1>2, <1>3, <1>4, PTL DEF Spec
<1> QED BY <1>4

=============================================================================
