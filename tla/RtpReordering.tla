--------------------------- MODULE RtpReordering ---------------------------
(***************************************************************************)
(* The receiving end of an RTP stream (live555, MultiFramedRTPSource):     *)
(* ReorderingPacketBuffer puts packets that were lost, repeated and        *)
(* reordered by the network back in order by their sequence numbers, which *)
(* wrap around, and doGetNextFrame1 makes frames of them for a client that *)
(* asks for one frame at a time.  A packet of another sender (another      *)
(* SSRC) makes the receiver begin anew with the numbers of that sender.    *)
(*                                                                         *)
(* The packets of a stream are numbered from 0 in the order in which they  *)
(* were sent.  A packet holds a part of a frame, or one or more whole      *)
(* frames, or nothing.  The network delays no packet by half the range of  *)
(* the sequence numbers.  The whole of doGetNextFrame1 is done in one      *)
(* handler; its loop is a step for each use of a packet.                   *)
(*                                                                         *)
(* Init, Next and the like have names of their own here, for the module    *)
(* of the proofs about the server extends several of its components.       *)
(***************************************************************************)
EXTENDS Integers, Sequences, SequencesExt

CONSTANTS
    Sources,        \* the senders, by their SSRC
    Streams,        \* what they may send: a sequence of Headers for each
    FirstSeqNos,    \* the sequence numbers a stream may start with
    Modulus,        \* the range of the sequence numbers, 2^16
    MaxWaiting      \* bound: how many packets wait in the list

(* Whether a packet begins or completes a frame, and how many frames have  *)
(* data in it, is in its special header, which processSpecialHeader may    *)
(* find wrong.                                                             *)
Headers == {h \in [begins : BOOLEAN, completes : BOOLEAN, frames : Nat,
                   good : BOOLEAN] :
              h.frames > 1 => h.begins /\ h.completes}

ASSUME RtpAssumption ==
    /\ Modulus \in Nat /\ Modulus > 2 /\ Modulus % 2 = 0
    /\ Streams \subseteq [Sources -> Seq(Headers)]
    /\ FirstSeqNos \subseteq 0..(Modulus - 1)

VARIABLES
    senders,                \* of each source: its stream, its first number
                            \* and how many packets it sent
    fLastReceivedSSRC,
    reading,                \* fAreDoingNetworkReads
    fHaveSeenFirstPacket,
    fNextExpectedSeqNo,
    list,                   \* the packets from fHeadPacket to fTailPacket
    fSavedPacketFree,
    at,                     \* whether doGetNextFrame1 is in its loop
    fNeedDelivery,
    lossInFrame,            \* fPacketLossInFragmentedFrame
    frame,                  \* what the client's buffer holds
    next,                   \* the packet that is expected
    used,                   \* the packets that were taken from the list
    delivered,              \* the frames that the client got, and by which
                            \* use of which packet (both since it last
                            \* stopped or the sender changed)
    astray                  \* whether the numbers do not tell the order

bufferVars == <<fHaveSeenFirstPacket, fNextExpectedSeqNo, list,
                fSavedPacketFree>>
frameVars == <<fNeedDelivery, lossInFrame, frame>>
ghostVars == <<next, used, delivered, astray>>
rtpVars == <<senders, fLastReceivedSSRC, reading, bufferVars, at, frameVars,
             ghostVars>>

Half == Modulus \div 2
SeqNoOf(s, n) == (senders[s].firstSeqNo + n) % Modulus
Number(packet) == SeqNoOf(packet.from, packet.n)

(* The sender whose packets are received.                                  *)
stream == senders[fLastReceivedSSRC].stream
sent == senders[fLastReceivedSSRC].sent
SeqNo(n) == SeqNoOf(fLastReceivedSSRC, n)
Header(n) == stream[n + 1]

(* Data in the client's buffer from before the sender changed, or that     *)
(* came astray.                                                            *)
Old == -1

(* The operators called Mutant... are broken versions of the definition    *)
(* that follows them; PROJECT.json names the property each must violate.   *)

RtpInit ==
    /\ \E streams \in Streams, first \in [Sources -> FirstSeqNos] :
         senders = [s \in Sources |->
                      [stream |-> streams[s], firstSeqNo |-> first[s],
                       sent |-> 0]]
    /\ fLastReceivedSSRC \in Sources
    /\ reading = FALSE
    /\ fHaveSeenFirstPacket = FALSE /\ fNextExpectedSeqNo = 0
    /\ list = <<>> /\ fSavedPacketFree = TRUE
    /\ at = "event loop"
    /\ fNeedDelivery = FALSE /\ lossInFrame = FALSE /\ frame = <<>>
    /\ next = 0 /\ used = {} /\ delivered = <<>> /\ astray = FALSE

-----------------------------------------------------------------------------
(* The senders                                                             *)

(* A sender does not wait for the receiver: half the range ahead of the    *)
(* packet that is expected, its numbers mean others.                       *)
Send(s) ==
    /\ senders[s].sent < Len(senders[s].stream)
    /\ senders' = [senders EXCEPT ![s].sent = @ + 1]
    /\ astray' = (astray \/ /\ s = fLastReceivedSSRC
                            /\ fHaveSeenFirstPacket
                            /\ senders[s].sent >= next + Half)
    /\ UNCHANGED <<fLastReceivedSSRC, reading, bufferVars, at, frameVars,
                   next, used, delivered>>

-----------------------------------------------------------------------------
(* storePacket                                                             *)

(* The numbers are compared as numbers.                                    *)
MutantSeqNumLT(s1, s2) == s1 < s2

seqNumLT(s1, s2) ==
    LET diff == s2 - s1 IN
    \/ diff > 0 /\ diff < Half
    \/ diff < 0 /\ diff < -Half

(* Where a packet that is not the last comes in the list.                  *)
Place(seqNo) ==
    Min({i \in 1..(Len(list) + 1) :
           i <= Len(list) => \/ seqNo = Number(list[i])
                             \/ seqNumLT(seqNo, Number(list[i]))})

GoesLast(seqNo) == list # <<>> /\ seqNumLT(Number(Last(list)), seqNo)

IsDuplicate(seqNo) ==
    /\ list # <<>> /\ ~GoesLast(seqNo)
    /\ \/ seqNo = Number(Last(list))
       \/ Place(seqNo) <= Len(list) /\ seqNo = Number(list[Place(seqNo)])

(* Packet n of source s, the first or not of what is received of it.  One  *)
(* that was given up or used comes too late; one that is not stored gives  *)
(* its descriptor back.                                                    *)
storePacket(s, n, isFirst) ==
    LET seqNo == SeqNoOf(s, n)
        packet == [from |-> s, n |-> n, first |-> isFirst,
                   saved |-> fSavedPacketFree, uses |-> 0]
    IN  /\ fHaveSeenFirstPacket' = TRUE
        /\ fNextExpectedSeqNo' = IF isFirst THEN seqNo
                                 ELSE fNextExpectedSeqNo
        /\ IF seqNumLT(seqNo, fNextExpectedSeqNo') \/ IsDuplicate(seqNo)
           THEN UNCHANGED <<list, fSavedPacketFree>>
           ELSE /\ list' = IF GoesLast(seqNo) THEN Append(list, packet)
                           ELSE InsertAt(list, Place(seqNo), packet)
                /\ fSavedPacketFree' = FALSE

(* The network loses, repeats and reorders: any packet that was sent less  *)
(* than half the range ago arrives at any time, once more or never.  After *)
(* one of another sender what was received before is forgotten, but not    *)
(* the packets that wait in the list.                                      *)
networkReadHandler1(s, n) ==
    LET changes == s # fLastReceivedSSRC
        isFirst == changes \/ ~fHaveSeenFirstPacket
    IN  /\ at = "event loop"
        /\ reading
        /\ Len(list) < MaxWaiting
        /\ n > senders[s].sent - Half
        /\ fLastReceivedSSRC' = s
        /\ storePacket(s, n, isFirst)
        /\ next' = IF isFirst THEN n ELSE next
        /\ IF changes
           THEN /\ astray' = (list # <<>>)
                /\ used' = {} /\ delivered' = <<>>
                /\ frame' = IF frame = <<>> THEN <<>> ELSE <<Old>>
           ELSE UNCHANGED <<astray, used, delivered, frame>>
        /\ at' = "loop"
        /\ UNCHANGED <<senders, reading, fNeedDelivery, lossInFrame>>

(* A packet that is no RTP packet, or has the wrong payload type.          *)
OtherArrives ==
    /\ at = "event loop"
    /\ reading
    /\ at' = "loop"
    /\ UNCHANGED <<senders, fLastReceivedSSRC, reading, bufferVars,
                   frameVars, ghostVars>>

-----------------------------------------------------------------------------
(* getNextCompletedPacket                                                  *)

IsExpected == Number(Head(list)) = fNextExpectedSeqNo

(* The very first packet is treated as one after a loss.                   *)
packetLossPreceded == IF IsExpected THEN Head(list).first ELSE TRUE

releaseUsedPacket ==
    /\ fNextExpectedSeqNo' = (Number(Head(list)) + 1) % Modulus
    /\ list' = Tail(list)
    /\ fSavedPacketFree' = (fSavedPacketFree \/ Head(list).saved)
    /\ IF astray THEN UNCHANGED <<next, used>>
       ELSE next' = Head(list).n + 1 /\ used' = used \cup {Head(list).n}

(* The packets before it are given up, and it has data left.               *)
keepPacket ==
    /\ fNextExpectedSeqNo' = Number(Head(list))
    /\ list' = [list EXCEPT ![1].uses = @ + 1]
    /\ next' = IF astray THEN next ELSE Head(list).n
    /\ UNCHANGED <<fSavedPacketFree, used>>

-----------------------------------------------------------------------------
(* doGetNextFrame1                                                         *)

(* A packet that is not the expected one is taken when it has waited for   *)
(* longer than the threshold: it may have at any moment.                   *)
InLoop == at = "loop" /\ fNeedDelivery /\ list # <<>>
loopVars == <<senders, fLastReceivedSSRC, reading, fHaveSeenFirstPacket, at,
              astray>>

HeadHeader == senders[Head(list).from].stream[Head(list).n + 1]

(* The header is looked at when the packet is used for the first time.     *)
HeaderIsWrong == Head(list).uses = 0 /\ ~HeadHeader.good

RejectHeader ==
    /\ InLoop
    /\ HeaderIsWrong
    /\ releaseUsedPacket
    /\ UNCHANGED <<loopVars, frameVars, delivered>>

(* A loss is forgotten with the packet after it.                           *)
MutantUnusable == ~HeadHeader.begins /\ packetLossPreceded

(* The packet goes on with a frame of which something is missing.          *)
Unusable == ~HeadHeader.begins /\ (packetLossPreceded \/ lossInFrame)

RejectUnusable ==
    /\ InLoop
    /\ ~HeaderIsWrong
    /\ Unusable
    /\ lossInFrame' = TRUE
    /\ releaseUsedPacket
    /\ UNCHANGED <<loopVars, fNeedDelivery, frame, delivered>>

(* What was used of a frame that will not be completed is forgotten.       *)
FrameBefore == IF packetLossPreceded \/ lossInFrame THEN <<>> ELSE frame
FrameWithPacket ==
    IF HeadHeader.frames = 0 THEN FrameBefore
    ELSE IF astray THEN <<Old>> ELSE Append(FrameBefore, Head(list).n)

(* Has the packet another frame after this one?                            *)
HasUsableData == Head(list).uses + 1 < HeadHeader.frames

(* A frame is delivered when it is complete and is not empty.              *)
Deliver ==
    LET got == [packets |-> frame', by |-> Head(list).n,
                part |-> Head(list).uses]
    IN  IF HeadHeader.completes /\ frame' # <<>>
        THEN /\ fNeedDelivery' = FALSE
             /\ delivered' = IF astray THEN delivered
                             ELSE Append(delivered, got)
        ELSE UNCHANGED <<fNeedDelivery, delivered>>

(* A packet after a loss is taken to have lost its frame.                  *)
MutantUse ==
    /\ InLoop
    /\ ~HeaderIsWrong
    /\ ~Unusable
    /\ frame' = FrameWithPacket
    /\ lossInFrame' = packetLossPreceded
    /\ IF HasUsableData THEN keepPacket ELSE releaseUsedPacket
    /\ Deliver
    /\ UNCHANGED loopVars

Use ==
    /\ InLoop
    /\ ~HeaderIsWrong
    /\ ~Unusable
    /\ frame' = FrameWithPacket
    /\ lossInFrame' = FALSE
    /\ IF HasUsableData THEN keepPacket ELSE releaseUsedPacket
    /\ Deliver
    /\ UNCHANGED loopVars

LoopEnds ==
    /\ at = "loop"
    /\ ~(fNeedDelivery /\ list # <<>> /\ IsExpected)
    /\ at' = "event loop"
    /\ UNCHANGED <<senders, fLastReceivedSSRC, reading, bufferVars,
                   frameVars, ghostVars>>

-----------------------------------------------------------------------------
(* The client                                                              *)

doGetNextFrame ==
    /\ at = "event loop"
    /\ ~fNeedDelivery
    /\ reading' = TRUE
    /\ fNeedDelivery' = TRUE
    /\ frame' = <<>>
    /\ at' = "loop"
    /\ UNCHANGED <<senders, fLastReceivedSSRC, bufferVars, lossInFrame,
                   ghostVars>>

(* The list and the saved descriptor are deleted: another is made when one *)
(* is asked for.                                                           *)
doStopGettingFrames ==
    /\ at = "event loop"
    /\ reading
    /\ reading' = FALSE
    /\ list' = <<>>
    /\ fHaveSeenFirstPacket' = FALSE
    /\ fSavedPacketFree' = TRUE
    /\ fNeedDelivery' = FALSE /\ lossInFrame' = FALSE
    /\ used' = {} /\ delivered' = <<>> /\ astray' = FALSE
    /\ UNCHANGED <<senders, fLastReceivedSSRC, fNextExpectedSeqNo, at,
                   frame, next>>

-----------------------------------------------------------------------------

RtpNext ==
    \/ OtherArrives
    \/ \E s \in Sources :
         \/ Send(s)
         \/ \E n \in 0..(senders[s].sent - 1) : networkReadHandler1(s, n)
    \/ RejectHeader \/ RejectUnusable \/ Use \/ LoopEnds
    \/ doGetNextFrame \/ doStopGettingFrames

RtpSpec == RtpInit /\ [][RtpNext]_rtpVars

-----------------------------------------------------------------------------

RtpTypeOK ==
    /\ senders \in [Sources -> [stream : Seq(Headers),
                                firstSeqNo : 0..(Modulus - 1),
                                sent : Nat]]
    /\ \A s \in Sources : senders[s].sent <= Len(senders[s].stream)
    /\ fLastReceivedSSRC \in Sources
    /\ reading \in BOOLEAN /\ fHaveSeenFirstPacket \in BOOLEAN
    /\ fNextExpectedSeqNo \in 0..(Modulus - 1)
    /\ list \in Seq([from : Sources, n : Nat, first : BOOLEAN,
                     saved : BOOLEAN, uses : Nat])
    /\ fSavedPacketFree \in BOOLEAN
    /\ at \in {"event loop", "loop"}
    /\ fNeedDelivery \in BOOLEAN /\ lossInFrame \in BOOLEAN
    /\ frame \in Seq(Nat \cup {Old})
    /\ next \in Nat /\ used \subseteq Nat
    /\ delivered \in Seq([packets : Seq(Nat \cup {Old}), by : Nat, part : Nat])
    /\ astray \in BOOLEAN

(* The saved descriptor is free unless one packet of the list has it, and  *)
(* no other has.  The list is in the order of sending, without repetition  *)
(* and nowhere before the packet that is expected ("ASSERT: fHeadPacket->  *)
(* rtpSeqNo() >= fNextExpectedSeqNo", MultiFramedRTPSource.cpp:601),       *)
(* wherever the numbers wrap around.  A change of the sender that comes    *)
(* while packets wait in the list, and a sender that is half the range     *)
(* ahead, are exceptions, until the client stops or the sender changes     *)
(* when no packet waits.                                                   *)
ListInOrder ==
    /\ RtpTypeOK
    /\ LET saved == {i \in DOMAIN list : list[i].saved} IN
       IF fSavedPacketFree THEN saved = {} ELSE \E i \in saved : saved = {i}
    /\ ~astray =>
         /\ \A i \in DOMAIN list :
              list[i].from = fLastReceivedSSRC /\ list[i].n >= next
         /\ \A i \in 2..Len(list) : list[i - 1].n < list[i].n
         /\ fHaveSeenFirstPacket => fNextExpectedSeqNo = SeqNo(next)

Bad(packets) == {n \in packets : n >= 0 /\ ~Header(n).good}

(* The packets of the frame that packet n is in.                           *)
FrameOf(n) ==
    LET b == Max({m \in 0..n : Header(m).begins})
        c == Min({m \in n..(Len(stream) - 1) : Header(m).completes})
    IN  b..c

WithData(packets) == {n \in packets : Header(n).frames > 0}

(* Frame d comes before frame e.                                           *)
EarlierFrame(d, e) ==
    LET last == Last(d.packets)
        head == Head(e.packets)
    IN  last < head \/ (last = head /\ d.part < e.part)

(* The client gets the packets in the order of sending, the frames of one  *)
(* packet in their order too, none twice, and a frame with all of its      *)
(* packets and with none of another.  A wrong header is an exception:      *)
(* after it nothing is known of a loss before it, and a frame is delivered *)
(* with a hole, or with what came before the hole.  Other exceptions are   *)
(* those of ListInOrder.                                                   *)
WholeFrames == ~astray =>
    /\ \A i, j \in DOMAIN delivered :
         i < j => EarlierFrame(delivered[i], delivered[j])
    /\ \A i \in DOMAIN delivered :
         LET f == delivered[i].packets
             all == FrameOf(delivered[i].by)
         IN  /\ \A k \in 2..Len(f) : f[k - 1] < f[k]
             /\ \/ ToSet(f) = WithData(all)
                \/ Bad(all \cup f[1]..delivered[i].by) # {}

(* No frame is left out of which every packet came to its turn, and no     *)
(* part of a packet of several frames, unless the client stopped or the    *)
(* sender changed in between or the packet before it had a wrong header:   *)
(* then it may be delivered with packets of the frame before.  A loss      *)
(* costs the frames it touches, and no other.                              *)
NothingElseLost ==
    [][\A n \in used' \ used :
         LET all == FrameOf(n)
             near == {m \in 0..n : m \in all \/ m + 1 \in all}
         IN  /\ ~astray
             /\ n = Max(all) /\ all \subseteq used'
             /\ Bad(near) = {} /\ WithData(all) # {}
             => \A part \in {0} \cup 1..(Header(n).frames - 1) :
                  \E d \in ToSet(delivered') :
                    ToSet(d.packets) = WithData(all) /\ d.part = part]_rtpVars
=============================================================================
