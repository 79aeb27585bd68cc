---------------------------- MODULE PacketQueue ----------------------------
(***************************************************************************)
(* The packet queues of the player (video_player/player.h): linked lists   *)
(* that decode_thread fills with packet_queue_put and that one thread      *)
(* empties with packet_queue_get, blocking while there is none.  There is  *)
(* one for the video thread and one for the audio callback.                *)
(*                                                                         *)
(* The list is under the queue's mutex.  The flag that ends the stream,    *)
(* finished_decoding, is not: decode_thread sets it without the mutex and  *)
(* without a signal, packet_queue_get reads it before it waits.            *)
(*                                                                         *)
(* The k-th packet that decode_thread reads for this queue is packet k, in *)
(* the k-th AVPacketList.                                                  *)
(***************************************************************************)
EXTENDS Integers, Sequences

CONSTANTS
    MaxPackets,     \* bound: packets read for this queue
    Sizes           \* the sizes of packets, in bytes

ASSUME PacketQueueAssumption ==
    /\ MaxPackets \in Nat
    /\ Sizes \subseteq Nat \ {0}

NULL == 0

VARIABLES
    list,           \* the AVPacketLists allocated so far: pkt.size and next
    first_pkt, last_pkt,
    nb_packets, size,
    finished,       \* finished_decoding
    consumer,       \* where the consumer is in packet_queue_get
    \* what happened, for the bounds and the properties only:
    read,           \* how many packets decode_thread has read
    got,            \* the packets that packet_queue_get has returned, in order
    bytes,          \* the bytes of the first k packets put, for each k
    ended           \* packet_queue_get has returned -1

listVars == <<list, first_pkt, last_pkt, nb_packets, size, bytes>>
vars == <<listVars, finished, consumer, read, got, ended>>

(* The operators called Mutant... are broken versions of the definition    *)
(* that follows them; PROJECT.json names the property each must violate.   *)

Init ==
    /\ list = <<>>
    /\ first_pkt = NULL
    /\ last_pkt = NULL
    /\ nb_packets = 0
    /\ size = 0
    /\ finished = FALSE
    /\ consumer = "idle"
    /\ read = 0
    /\ got = <<>>
    /\ bytes = <<>>
    /\ ended = FALSE

Total(b, k) == IF k = 0 THEN 0 ELSE b[k]
Bytes(k) == Total(bytes, k)

(* The consumer holds the mutex from the lock to the wait or the return;   *)
(* packet_queue_put holds it for one step.                                 *)
MutexFree == consumer \notin {"test", "first"}

-----------------------------------------------------------------------------
(* decode_thread                                                           *)

ReadPacket ==
    /\ ~finished
    /\ read = Len(list)
    /\ read < MaxPackets
    /\ read' = read + 1
    /\ UNCHANGED <<listVars, finished, consumer, got, ended>>

(* A new AVPacketList at the end of the list.                              *)
Link(s) ==
    LET new == Len(list) + 1 IN
    /\ list' = Append([k \in 1..Len(list) |->
                           IF k = last_pkt THEN [list[k] EXCEPT !.next = new]
                           ELSE list[k]],
                      [size |-> s, next |-> NULL])
    /\ first_pkt' = IF last_pkt = NULL THEN new ELSE first_pkt
    /\ last_pkt' = new

Count(s) ==
    /\ nb_packets' = nb_packets + 1
    /\ size' = size + s
    /\ bytes' = Append(bytes, Bytes(Len(list)) + s)

(* No signal.                                                              *)
MutantPut(s) ==
    /\ read = Len(list) + 1
    /\ MutexFree
    /\ Link(s)
    /\ Count(s)
    /\ UNCHANGED <<finished, consumer, read, got, ended>>

(* packet_queue_put, with its SDL_CondSignal.                              *)
Put(s) ==
    /\ read = Len(list) + 1
    /\ MutexFree
    /\ Link(s)
    /\ Count(s)
    /\ consumer' = IF consumer = "asleep" THEN "lock" ELSE consumer
    /\ UNCHANGED <<finished, read, got, ended>>

(* The end of the file, or a read error.                                   *)
Finish ==
    /\ ~finished
    /\ read = Len(list)
    /\ finished' = TRUE
    /\ UNCHANGED <<listVars, consumer, read, got, ended>>

-----------------------------------------------------------------------------
(* packet_queue_get, in the video thread or in the audio callback          *)

GetCall ==
    /\ consumer = "idle"
    /\ consumer' = "lock"
    /\ UNCHANGED <<listVars, finished, read, got, ended>>

(* SDL_LockMutex, at the top or inside SDL_CondWait.                       *)
GetLock ==
    /\ consumer = "lock"
    /\ consumer' = "test"
    /\ UNCHANGED <<listVars, finished, read, got, ended>>

(* The end is reported although packets are left.                          *)
MutantGetTest ==
    /\ consumer = "test"
    /\ IF finished
       THEN consumer' = "idle" /\ ended' = TRUE
       ELSE consumer' = "first" /\ UNCHANGED ended
    /\ UNCHANGED <<listVars, finished, read, got>>

GetTest ==
    /\ consumer = "test"
    /\ IF size <= 0 /\ finished
       THEN consumer' = "idle" /\ ended' = TRUE
       ELSE consumer' = "first" /\ UNCHANGED ended
    /\ UNCHANGED <<listVars, finished, read, got>>

(* The last element leaves, and last_pkt goes on pointing to it.           *)
MutantGetTake ==
    /\ consumer = "first"
    /\ first_pkt # NULL
    /\ first_pkt' = list[first_pkt].next
    /\ nb_packets' = nb_packets - 1
    /\ size' = size - list[first_pkt].size
    /\ got' = Append(got, first_pkt)
    /\ consumer' = "idle"
    /\ UNCHANGED <<list, last_pkt, bytes, finished, read, ended>>

GetTake ==
    /\ consumer = "first"
    /\ first_pkt # NULL
    /\ first_pkt' = list[first_pkt].next
    /\ last_pkt' = IF first_pkt' = NULL THEN NULL ELSE last_pkt
    /\ nb_packets' = nb_packets - 1
    /\ size' = size - list[first_pkt].size
    /\ got' = Append(got, first_pkt)
    /\ consumer' = "idle"
    /\ UNCHANGED <<list, bytes, finished, read, ended>>

GetWait ==
    /\ consumer = "first"
    /\ first_pkt = NULL
    /\ consumer' = "asleep"
    /\ UNCHANGED <<listVars, finished, read, got, ended>>

(* SDL_CondWait may return without a signal.                               *)
SpuriousWake ==
    /\ consumer = "asleep"
    /\ consumer' = "lock"
    /\ UNCHANGED <<listVars, finished, read, got, ended>>

-----------------------------------------------------------------------------

DecodeThread == ReadPacket \/ Finish \/ \E s \in Sizes : Put(s)

Get == GetCall \/ GetLock \/ GetTest \/ GetTake \/ GetWait

Next == DecodeThread \/ Get \/ SpuriousWake

Spec == Init /\ [][Next]_vars

(* The scheduler runs both threads, and decode_thread puts what it read.   *)
(* No fairness for a wakeup without signal.                                *)
FairSpec == Spec /\ WF_vars(Get) /\ WF_vars(DecodeThread)

-----------------------------------------------------------------------------

AVPacketList == [size : Sizes, next : 0..MaxPackets]

Places == {"idle", "lock", "test", "first", "asleep"}

TypeOK ==
    /\ list \in Seq(AVPacketList)
    /\ Len(list) <= MaxPackets
    /\ first_pkt \in 0..MaxPackets
    /\ last_pkt \in 0..MaxPackets
    /\ nb_packets \in Nat
    /\ size \in Nat
    /\ finished \in BOOLEAN
    /\ consumer \in Places
    /\ read \in 0..MaxPackets
    /\ got \in Seq(1..MaxPackets)
    /\ bytes \in Seq(Nat)
    /\ ended \in BOOLEAN

(* Packets come out in the order of the puts, none twice and none lost,    *)
(* although put links to the end and get unlinks from the front.           *)
InOrder == \A i \in 1..Len(got) : got[i] = i

(* packet_queue_get does not sleep while a packet is in the queue.         *)
NoSleepOnPacket == consumer = "asleep" => Len(got) = Len(list)

(* -1 means that the stream is over and that every packet of it was taken: *)
(* the test of size agrees with the list it stands for.                    *)
EndMeansDrained == ended => finished /\ Len(got) = read

(* Every packet that was put is taken.                                     *)
PacketIsTaken ==
    \A n \in 1..MaxPackets : Len(list) >= n ~> Len(got) >= n

-----------------------------------------------------------------------------
(* The inductive invariant: the elements not yet taken form one list, and  *)
(* nb_packets and size count it.                                           *)

Links ==
    /\ Len(got) <= Len(list)
    /\ first_pkt = IF Len(got) = Len(list) THEN NULL ELSE Len(got) + 1
    /\ last_pkt = IF Len(got) = Len(list) THEN NULL ELSE Len(list)
    /\ \A k \in 1..Len(list) :
          k > Len(got) => list[k].next = IF k = Len(list) THEN NULL ELSE k + 1

Counts ==
    /\ Len(bytes) = Len(list)
    /\ \A k \in 1..Len(list) : Bytes(k) = Bytes(k - 1) + list[k].size
    /\ \A i, j \in 0..Len(list) : i < j => Bytes(i) < Bytes(j)
    /\ nb_packets = Len(list) - Len(got)
    /\ size = Bytes(Len(list)) - Bytes(Len(got))

Progress ==
    /\ read \in Len(list)..(Len(list) + 1)
    /\ finished => read = Len(list)

IInv ==
    /\ TypeOK
    /\ Links
    /\ Counts
    /\ Progress
    /\ InOrder
    /\ NoSleepOnPacket
    /\ EndMeansDrained

-----------------------------------------------------------------------------
(* The elements of the list, found by following next from first_pkt as     *)
(* packet_queue_get does, are a first-in first-out channel without limit.  *)

From ==
    LET chain[k \in 0..Len(list)] ==
            IF k = NULL THEN <<>> ELSE <<k>> \o chain[list[k].next]
    IN chain[first_pkt]

Channel == INSTANCE FifoChannel WITH
    Capacity <- MaxPackets,
    MaxItems <- MaxPackets,
    channel <- From,
    offered <- read,
    delivered <- Len(got),
    closed <- finished,
    broken <- FALSE,
    ended <- ended

ImplementsChannel == Channel!Spec
=============================================================================
