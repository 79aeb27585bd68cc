------------------------- MODULE PacketQueueProofs -------------------------
(***************************************************************************)
(* Proofs about a packet queue of the player, for any number of packets    *)
(* and any packet sizes but zero.                                          *)
(***************************************************************************)
EXTENDS PacketQueue, SequenceTheorems, WellFoundedInduction, TLAPS

LEMMA SeqElements ==
    ASSUME NEW S, NEW q \in Seq(S), NEW k \in 1..Len(q)
    PROVE  q[k] \in S
  OBVIOUS

LEMMA SeqAppend ==
    ASSUME NEW S, NEW q \in Seq(S), NEW e \in S
    PROVE  /\ Append(q, e) \in Seq(S)
           /\ Len(Append(q, e)) = Len(q) + 1
           /\ \A k \in 1..Len(q) : Append(q, e)[k] = q[k]
           /\ Append(q, e)[Len(q) + 1] = e
  OBVIOUS

(* The numbers of a well-formed state.                                     *)
LEMMA Numbers ==
    TypeOK => /\ Len(list) \in Nat
              /\ Len(got) \in Nat
              /\ read \in Nat
              /\ Len(list) <= MaxPackets
              /\ MaxPackets \in Nat
              /\ \A k \in 1..Len(list) : list[k].size \in Nat \ {0}
<1> SUFFICES ASSUME TypeOK PROVE Numbers!2
  OBVIOUS
<1>1. /\ Len(list) \in Nat /\ Len(got) \in Nat
      /\ read \in Nat /\ Len(list) <= MaxPackets /\ MaxPackets \in Nat
  BY PacketQueueAssumption DEF TypeOK
<1>2. list \in Seq(AVPacketList)
  BY DEF TypeOK
<1>3. ASSUME NEW k \in 1..Len(list)
      PROVE  list[k].size \in Nat \ {0}
  <2>1. list[k] \in AVPacketList
    BY <1>2, SeqElements
  <2>2. list[k].size \in Sizes
    BY <2>1 DEF AVPacketList
  <2> QED BY <2>2, PacketQueueAssumption
<1> QED BY <1>1, <1>3

LEMMA InitInv == Init => IInv
<1> USE PacketQueueAssumption
<1> SUFFICES ASSUME Init PROVE IInv
  OBVIOUS
<1> USE DEF Init, NULL
<1>1. TypeOK
  <2>1. /\ list \in Seq(AVPacketList)
        /\ got \in Seq(1..MaxPackets) /\ bytes \in Seq(Nat)
    OBVIOUS
  <2>2. Len(list) <= MaxPackets /\ 0 \in 0..MaxPackets /\ 0 \in Nat
    OBVIOUS
  <2>3. consumer \in Places
    BY DEF Places
  <2> QED BY Zenon, <2>1, <2>2, <2>3 DEF TypeOK
<1>2. Links /\ Progress
  BY DEF Links, Progress
<1>3. Counts
  BY DEF Counts, Bytes, Total
<1>4. InOrder /\ NoSleepOnPacket /\ EndMeansDrained
  BY DEF InOrder, NoSleepOnPacket, EndMeansDrained
<1> QED BY <1>1, <1>2, <1>3, <1>4 DEF IInv

-----------------------------------------------------------------------------
(* Put                                                                     *)

(* What Put does to the list, element by element.                          *)
LEMMA PutList ==
    ASSUME TypeOK, Links, NEW s \in Sizes, Put(s)
    PROVE  /\ Len(list') = Len(list) + 1
           /\ \A k \in 1..Len(list) :
                 /\ list'[k].size = list[k].size
                 /\ k # last_pkt => list'[k].next = list[k].next
                 /\ k = last_pkt => list'[k].next = Len(list) + 1
           /\ list'[Len(list) + 1].size = s
           /\ list'[Len(list) + 1].next = NULL
           /\ list' \in Seq(AVPacketList)
           /\ Len(list') <= MaxPackets
<1> DEFINE new == Len(list) + 1
           old == [k \in 1..Len(list) |->
                      IF k = last_pkt THEN [list[k] EXCEPT !.next = new]
                      ELSE list[k]]
           elem == [size |-> s, next |-> NULL]
<1>1. list' = Append(old, elem) /\ read = new
  BY DEF Put, Link
<1>2. new \in 1..MaxPackets
  BY <1>1, PacketQueueAssumption DEF TypeOK
<1>3. \A k \in 1..Len(list) : list[k] \in AVPacketList
  BY SeqElements DEF TypeOK
<1>4. \A k \in 1..Len(list) : old[k] \in AVPacketList
  BY <1>2, <1>3 DEF AVPacketList
<1>5. old \in Seq(AVPacketList) /\ Len(old) = Len(list)
  BY <1>4, Numbers
<1>6. elem \in AVPacketList
  BY Numbers DEF NULL, AVPacketList
<1>7. /\ Len(list') = new
      /\ list' \in Seq(AVPacketList)
      /\ \A k \in 1..Len(list) : list'[k] = old[k]
      /\ list'[new] = elem
  BY <1>1, <1>5, <1>6, SeqAppend
<1>8. \A k \in 1..Len(list) :
         /\ old[k].size = list[k].size
         /\ k # last_pkt => old[k].next = list[k].next
         /\ k = last_pkt => old[k].next = new
  BY <1>3 DEF AVPacketList
<1>9. list'[new].size = s /\ list'[new].next = NULL
  BY <1>7
<1>10. Len(list') <= MaxPackets
  BY <1>2, <1>7
<1> HIDE DEF old, elem
<1> QED BY <1>7, <1>8, <1>9, <1>10

LEMMA PutType ==
    ASSUME TypeOK, Links, Counts, NEW s \in Sizes, Put(s)
    PROVE  TypeOK'
<1>1. /\ first_pkt' = IF last_pkt = NULL THEN Len(list) + 1 ELSE first_pkt
      /\ last_pkt' = Len(list) + 1 /\ read = Len(list) + 1
      /\ nb_packets' = nb_packets + 1 /\ size' = size + s
      /\ bytes' = Append(bytes, Bytes(Len(list)) + s)
      /\ UNCHANGED <<finished, read, got, ended>>
  BY DEF Put, Link, Count
<1>2. first_pkt' \in 0..MaxPackets /\ last_pkt' \in 0..MaxPackets
  BY <1>1, PacketQueueAssumption DEF TypeOK
<1>3. s \in Nat
  BY PacketQueueAssumption
<1>4. nb_packets' \in Nat /\ size' \in Nat
  BY <1>1, <1>3 DEF TypeOK
<1>5. bytes' \in Seq(Nat)
  <2>1. Bytes(Len(list)) \in Nat
    <3>1. bytes \in Seq(Nat) /\ Len(bytes) = Len(list) /\ Len(list) \in Nat
      BY Numbers DEF Counts, TypeOK
    <3> QED BY <3>1 DEF Bytes, Total
  <2> QED BY <1>1, <1>3, <2>1 DEF TypeOK
<1>6. consumer' \in Places
  BY DEF Put, TypeOK, Places
<1> QED
  BY <1>1, <1>2, <1>4, <1>5, <1>6, PutList DEF TypeOK

LEMMA PutLinks ==
    ASSUME TypeOK, Links, NEW s \in Sizes, Put(s)
    PROVE  Links'
<1>1. /\ first_pkt' = IF last_pkt = NULL THEN Len(list) + 1 ELSE first_pkt
      /\ last_pkt' = Len(list) + 1
      /\ got' = got
  BY DEF Put, Link
<1>2. Len(list') = Len(list) + 1 /\ Len(got') = Len(got)
  BY <1>1, PutList
<1>3. /\ Len(got) <= Len(list) /\ Len(got) \in Nat /\ Len(list) \in Nat
      /\ first_pkt = IF Len(got) = Len(list) THEN NULL ELSE Len(got) + 1
      /\ last_pkt = IF Len(got) = Len(list) THEN NULL ELSE Len(list)
  BY Numbers DEF Links
<1>4. first_pkt' = Len(got) + 1
  BY <1>1, <1>3 DEF NULL
<1>5. ASSUME NEW k \in 1..Len(list'), k > Len(got')
      PROVE  list'[k].next = IF k = Len(list') THEN NULL ELSE k + 1
  <2>1. CASE k = Len(list) + 1
    BY <1>2, <2>1, PutList
  <2>2. CASE k \in 1..Len(list) /\ k = Len(list)
    <3>1. k = last_pkt
      BY <1>2, <1>3, <1>5, <2>2
    <3> QED BY <1>2, <1>3, <2>2, <3>1, PutList
  <2>3. CASE k \in 1..Len(list) /\ k < Len(list)
    <3>1. k # last_pkt
      BY <1>3, <2>3 DEF NULL
    <3>2. list[k].next = k + 1
      BY <1>2, <1>5, <2>3 DEF Links
    <3> QED BY <1>2, <1>3, <2>3, <3>1, <3>2, PutList
  <2> QED BY <1>2, <1>3, <2>1, <2>2, <2>3
<1> QED
  BY <1>1, <1>2, <1>3, <1>4, <1>5 DEF Links

(* The sums keep counting the list when an element is added.               *)
LEMMA PutCounts ==
    ASSUME TypeOK, Links, Counts, NEW s \in Sizes, Put(s)
    PROVE  Counts'
<1> DEFINE n == Len(list)
<1>1. /\ nb_packets' = nb_packets + 1 /\ size' = size + s
      /\ bytes' = Append(bytes, Bytes(n) + s)
      /\ got' = got
  BY DEF Put, Count
<1>2. /\ n \in Nat /\ Len(got) \in 0..n /\ s \in Nat \ {0}
      /\ bytes \in Seq(Nat) /\ Len(bytes) = n
      /\ nb_packets = n - Len(got)
      /\ size = Bytes(n) - Bytes(Len(got))
  BY Numbers, PacketQueueAssumption DEF Counts, Links, TypeOK
<1>3. \A k \in 0..n : Bytes(k) \in Nat
  BY <1>2 DEF Bytes, Total
<1>4. /\ Len(bytes') = n + 1
      /\ \A k \in 1..n : bytes'[k] = bytes[k]
      /\ bytes'[n + 1] = Bytes(n) + s
  <2>1. Bytes(n) + s \in Nat
    BY <1>2, <1>3
  <2> QED BY <1>1, <1>2, <2>1
<1>5. \A k \in 0..n : Total(bytes', k) = Bytes(k)
  BY <1>4 DEF Bytes, Total
<1>6. Total(bytes', n + 1) = Bytes(n) + s
  BY <1>2, <1>4 DEF Total
<1>7. /\ Len(list') = n + 1 /\ list'[n + 1].size = s
      /\ \A k \in 1..n : list'[k].size = list[k].size
  BY PutList
<1>8. ASSUME NEW k \in 1..Len(list')
      PROVE  Total(bytes', k) = Total(bytes', k - 1) + list'[k].size
  <2>1. CASE k = n + 1
    <3>1. k - 1 = n /\ n \in 0..n
      BY <1>2, <2>1
    <3> QED BY <1>5, <1>6, <1>7, <2>1, <3>1
  <2>2. CASE k \in 1..n
    <3>1. k - 1 \in 0..n /\ k \in 0..n
      BY <1>2, <2>2
    <3>2. Bytes(k) = Bytes(k - 1) + list[k].size
      BY <2>2 DEF Counts
    <3> QED BY <1>5, <1>7, <2>2, <3>1, <3>2
  <2> QED BY <1>2, <1>7, <2>1, <2>2
<1>9. ASSUME NEW i \in 0..Len(list'), NEW j \in 0..Len(list'), i < j
      PROVE  Total(bytes', i) < Total(bytes', j)
  <2>1. i \in 0..n /\ (j \in 0..n \/ j = n + 1)
    BY <1>2, <1>7, <1>9
  <2>2. CASE j \in 0..n
    BY <1>5, <1>9, <2>1, <2>2 DEF Counts
  <2>3. CASE j = n + 1
    <3>1. Bytes(i) <= Bytes(n)
      <4>1. i = n \/ (i < n /\ n \in 0..n)
        BY <1>2, <2>1
      <4>2. i < n => Bytes(i) < Bytes(n)
        BY <1>2, <2>1, <4>1 DEF Counts
      <4> QED BY <1>2, <1>3, <2>1, <4>1, <4>2
    <3>2. Total(bytes', i) = Bytes(i) /\ Total(bytes', j) = Bytes(n) + s
      BY <1>5, <1>6, <2>1, <2>3
    <3>3. Bytes(i) \in Nat /\ Bytes(n) \in Nat
      BY <1>2, <1>3, <2>1
    <3> QED BY <1>2, <3>1, <3>2, <3>3
  <2> QED BY <2>1, <2>2, <2>3
<1>10. nb_packets' = Len(list') - Len(got')
  BY <1>1, <1>2, <1>7
<1>11. size' = Total(bytes', Len(list')) - Total(bytes', Len(got'))
  <2>1. Total(bytes', Len(got')) = Bytes(Len(got))
    BY <1>1, <1>2, <1>5
  <2>2. Bytes(n) \in Nat /\ Bytes(Len(got)) \in Nat
    BY <1>2, <1>3
  <2> QED BY <1>1, <1>2, <1>6, <1>7, <2>1, <2>2
<1> QED
  BY <1>4, <1>7, <1>8, <1>9, <1>10, <1>11 DEF Counts, Bytes

-----------------------------------------------------------------------------
(* GetTake                                                                 *)

LEMMA TakeFacts ==
    ASSUME TypeOK, Links, Counts, GetTake
    PROVE  /\ Len(got) < Len(list) /\ first_pkt = Len(got) + 1
           /\ Len(got') = Len(got) + 1
           /\ got' = Append(got, Len(got) + 1)
           /\ first_pkt' = IF first_pkt = Len(list) THEN NULL ELSE first_pkt + 1
           /\ last_pkt' = IF first_pkt = Len(list) THEN NULL ELSE Len(list)
           /\ nb_packets' = nb_packets - 1
           /\ size' = size - list[first_pkt].size
           /\ UNCHANGED <<list, bytes>>
<1>1. /\ first_pkt # NULL
      /\ first_pkt' = list[first_pkt].next
      /\ last_pkt' = IF first_pkt' = NULL THEN NULL ELSE last_pkt
      /\ nb_packets' = nb_packets - 1
      /\ size' = size - list[first_pkt].size
      /\ got' = Append(got, first_pkt)
      /\ UNCHANGED <<list, bytes>>
  BY DEF GetTake
<1>2. Len(got) < Len(list) /\ first_pkt = Len(got) + 1
      /\ last_pkt = Len(list)
  BY <1>1, Numbers DEF Links
<1>3. list[first_pkt].next =
        IF first_pkt = Len(list) THEN NULL ELSE first_pkt + 1
  BY <1>2, Numbers DEF Links
<1>4. first_pkt + 1 # NULL /\ NULL = 0
  BY <1>2, Numbers DEF NULL
<1>5. Len(got') = Len(got) + 1
  BY <1>1 DEF TypeOK
<1> QED BY <1>1, <1>2, <1>3, <1>4, <1>5

LEMMA TakeLinks ==
    ASSUME TypeOK, Links, Counts, GetTake
    PROVE  Links'
<1>1. /\ Len(got') <= Len(list')
      /\ first_pkt' = IF Len(got') = Len(list') THEN NULL ELSE Len(got') + 1
      /\ last_pkt' = IF Len(got') = Len(list') THEN NULL ELSE Len(list')
  BY TakeFacts, Numbers
<1>2. \A k \in 1..Len(list') :
         k > Len(got') => list'[k].next = IF k = Len(list') THEN NULL ELSE k + 1
  BY TakeFacts, Numbers DEF Links
<1> QED BY <1>1, <1>2 DEF Links

LEMMA TakeCounts ==
    ASSUME TypeOK, Links, Counts, GetTake
    PROVE  Counts' /\ nb_packets' \in Nat /\ size' \in Nat
<1> DEFINE n == Len(list)  g == Len(got)
<1>1. /\ Len(bytes) = n /\ bytes \in Seq(Nat)
      /\ \A k \in 1..n : Bytes(k) = Bytes(k - 1) + list[k].size
      /\ \A i, j \in 0..n : i < j => Bytes(i) < Bytes(j)
      /\ nb_packets = n - g
      /\ size = Bytes(n) - Bytes(g)
  BY DEF Counts, TypeOK
<1>2. n \in Nat /\ g \in Nat /\ g < n
  BY TakeFacts, Numbers
<1>3. \A k \in 0..n : Bytes(k) \in Nat
  BY <1>1, <1>2 DEF Bytes, Total
<1>4. Bytes(g + 1) = Bytes(g) + list[g + 1].size
  BY <1>1, <1>2
<1>5. list[g + 1].size \in Nat
  BY <1>2, Numbers
<1>6. size' = Bytes(n) - Bytes(g + 1)
  <2>1. size' = size - list[g + 1].size
    BY TakeFacts
  <2>2. Bytes(n) \in Nat /\ Bytes(g) \in Nat /\ Bytes(g + 1) \in Nat
    BY <1>2, <1>3
  <2> QED BY <1>1, <1>4, <1>5, <2>1, <2>2
<1>7. Bytes(g + 1) <= Bytes(n)
  <2>1. g + 1 = n \/ g + 1 < n
    BY <1>2
  <2>2. g + 1 < n => Bytes(g + 1) < Bytes(n)
    BY <1>1, <1>2
  <2>3. Bytes(n) \in Nat /\ Bytes(g + 1) \in Nat
    BY <1>2, <1>3
  <2> QED BY <2>1, <2>2, <2>3
<1>8. size' \in Nat
  BY <1>2, <1>3, <1>6, <1>7
<1>9. nb_packets' = n - (g + 1) /\ nb_packets' \in Nat
  BY <1>1, <1>2, TakeFacts
<1> QED
  BY <1>1, <1>6, <1>8, <1>9, TakeFacts DEF Counts, Bytes

LEMMA TakeType ==
    ASSUME TypeOK, Links, Counts, GetTake
    PROVE  TypeOK'
<1>1. first_pkt' \in 0..MaxPackets /\ last_pkt' \in 0..MaxPackets
  BY TakeFacts, Numbers DEF NULL
<1>2. got' \in Seq(1..MaxPackets)
  <2>1. Len(got) + 1 \in 1..MaxPackets
    BY TakeFacts, Numbers
  <2>2. got \in Seq(1..MaxPackets)
    BY DEF TypeOK
  <2>3. Append(got, Len(got) + 1) \in Seq(1..MaxPackets)
    BY <2>1, <2>2, SeqAppend
  <2> QED BY <2>3, TakeFacts
<1>3. consumer' \in Places /\ UNCHANGED <<list, bytes, finished, read, ended>>
  BY DEF GetTake, Places
<1> QED
  BY <1>1, <1>2, <1>3, TakeCounts DEF TypeOK

-----------------------------------------------------------------------------
(* The steps that leave the list alone keep what is said of the list.      *)
LEMMA QuietList ==
    ASSUME Links, Counts, UNCHANGED <<listVars, got>>
    PROVE  Links' /\ Counts'
  BY DEF Links, Counts, Bytes, listVars

(* Empty by the list and empty by its size are the same.                   *)
LEMMA SizeIsZero ==
    ASSUME TypeOK, Links, Counts, size <= 0
    PROVE  Len(got) = Len(list)
<1>1. Len(got) \in 0..Len(list) /\ Len(list) \in Nat
  BY Numbers DEF Links
<1>2. Len(got) < Len(list) => Bytes(Len(got)) < Bytes(Len(list))
  BY <1>1 DEF Counts
<1>3. Bytes(Len(got)) \in Nat /\ Bytes(Len(list)) \in Nat
  BY <1>1 DEF Bytes, Total, Counts, TypeOK
<1> QED BY <1>1, <1>2, <1>3 DEF Counts

(* The queue never leaves its inductive invariant: the elements that were  *)
(* put and not taken are one list, in order, that nb_packets and size      *)
(* count.                                                                  *)
THEOREM InductiveInvariant == Spec => []IInv
<1>1. Init => IInv
  BY InitInv
<1>2. IInv /\ [Next]_vars => IInv'
  <2> SUFFICES ASSUME IInv, [Next]_vars PROVE IInv'
    OBVIOUS
  <2>0. TypeOK /\ Links /\ Counts /\ Progress /\ InOrder /\ NoSleepOnPacket
        /\ EndMeansDrained
    BY DEF IInv
  <2>1. CASE ReadPacket
    <3>1. /\ UNCHANGED <<listVars, finished, consumer, got, ended>>
          /\ read' = read + 1 /\ ~finished /\ read = Len(list)
          /\ read < MaxPackets
      BY <2>1 DEF ReadPacket
    <3>2. read' \in 0..MaxPackets
      BY <2>0, <3>1, Numbers DEF TypeOK
    <3>3. TypeOK'
      BY <2>0, <3>1, <3>2 DEF TypeOK, listVars
    <3>4. Progress'
      BY <2>0, <3>1, Numbers DEF Progress, listVars
    <3>5. InOrder' /\ NoSleepOnPacket' /\ EndMeansDrained'
      BY <2>0, <3>1 DEF InOrder, NoSleepOnPacket, EndMeansDrained, listVars
    <3> QED BY <2>0, <3>1, <3>3, <3>4, <3>5, QuietList DEF IInv
  <2>2. ASSUME NEW s \in Sizes, Put(s)
        PROVE  IInv'
    <3>1. /\ UNCHANGED <<finished, read, got, ended>>
          /\ read = Len(list) + 1
          /\ consumer' # "asleep"
      BY <2>2 DEF Put
    <3>2. Len(list') = Len(list) + 1
      BY <2>0, <2>2, PutList
    <3>3. ~finished /\ ~ended
      BY <2>0, <3>1, Numbers DEF Progress, EndMeansDrained
    <3>4. Progress' /\ InOrder' /\ NoSleepOnPacket' /\ EndMeansDrained'
      BY <2>0, <3>1, <3>2, <3>3, Numbers
      DEF Progress, InOrder, NoSleepOnPacket, EndMeansDrained
    <3> QED BY <2>0, <2>2, <3>4, PutType, PutLinks, PutCounts DEF IInv
  <2>3. CASE Finish
    <3>1. /\ UNCHANGED <<listVars, consumer, read, got, ended>>
          /\ finished' = TRUE /\ read = Len(list)
      BY <2>3 DEF Finish
    <3>2. TypeOK'
      BY <2>0, <3>1 DEF TypeOK, listVars
    <3>3. Progress' /\ InOrder' /\ NoSleepOnPacket' /\ EndMeansDrained'
      BY <2>0, <3>1
      DEF Progress, InOrder, NoSleepOnPacket, EndMeansDrained, listVars
    <3> QED BY <2>0, <3>1, <3>2, <3>3, QuietList DEF IInv
  <2>4. CASE GetCall \/ GetLock \/ SpuriousWake
    <3>1. /\ UNCHANGED <<listVars, finished, read, got, ended>>
          /\ consumer' \in {"lock", "test"}
      BY <2>4 DEF GetCall, GetLock, SpuriousWake
    <3>2. TypeOK'
      BY <2>0, <3>1 DEF TypeOK, listVars, Places
    <3>3. Progress' /\ InOrder' /\ NoSleepOnPacket' /\ EndMeansDrained'
      BY <2>0, <3>1
      DEF Progress, InOrder, NoSleepOnPacket, EndMeansDrained, listVars
    <3> QED BY <2>0, <3>1, <3>2, <3>3, QuietList DEF IInv
  <2>5. CASE GetTest
    <3>1. /\ UNCHANGED <<listVars, finished, read, got>>
          /\ consumer' \in {"idle", "first"}
          /\ ended' \in BOOLEAN
          /\ ended' => ended \/ (size <= 0 /\ finished)
      BY <2>0, <2>5 DEF GetTest, TypeOK
    <3>2. TypeOK'
      BY <2>0, <3>1 DEF TypeOK, listVars, Places
    <3>3. EndMeansDrained'
      <4>1. size <= 0 /\ finished => Len(got) = read
        BY <2>0, SizeIsZero DEF Progress
      <4> QED BY <2>0, <3>1, <4>1 DEF EndMeansDrained
    <3>4. Progress' /\ InOrder' /\ NoSleepOnPacket'
      BY <2>0, <3>1 DEF Progress, InOrder, NoSleepOnPacket, listVars
    <3> QED BY <2>0, <3>1, <3>2, <3>3, <3>4, QuietList DEF IInv
  <2>6. CASE GetTake
    <3>1. /\ UNCHANGED <<finished, read, ended>> /\ consumer' = "idle"
      BY <2>6 DEF GetTake
    <3>2. /\ Len(got) < Len(list)
          /\ got' = Append(got, Len(got) + 1) /\ list' = list
          /\ Len(got') = Len(got) + 1
      BY <2>0, <2>6, TakeFacts
    <3>3. InOrder'
      <4>1. got \in Seq(1..MaxPackets) /\ Len(got) + 1 \in 1..MaxPackets
        BY <2>0, <3>2, Numbers DEF TypeOK
      <4> QED BY <2>0, <3>2, <4>1, SeqAppend, Numbers DEF InOrder
    <3>4. ~ended
      BY <2>0, <3>2, Numbers DEF EndMeansDrained, Progress
    <3>5. Progress' /\ NoSleepOnPacket' /\ EndMeansDrained'
      BY <2>0, <3>1, <3>2, <3>4 DEF Progress, NoSleepOnPacket, EndMeansDrained
    <3> QED BY <2>0, <2>6, <3>3, <3>5, TakeType, TakeLinks, TakeCounts DEF IInv
  <2>7. CASE GetWait
    <3>1. /\ UNCHANGED <<listVars, finished, read, got, ended>>
          /\ consumer' = "asleep" /\ first_pkt = NULL
      BY <2>7 DEF GetWait
    <3>2. TypeOK'
      BY <2>0, <3>1 DEF TypeOK, listVars, Places
    <3>3. Len(got) = Len(list)
      BY <2>0, <3>1, Numbers DEF Links, NULL
    <3>4. Progress' /\ InOrder' /\ NoSleepOnPacket' /\ EndMeansDrained'
      BY <2>0, <3>1, <3>3
      DEF Progress, InOrder, NoSleepOnPacket, EndMeansDrained, listVars
    <3> QED BY <2>0, <3>1, <3>2, <3>4, QuietList DEF IInv
  <2>8. CASE UNCHANGED vars
    <3>1. UNCHANGED <<listVars, finished, consumer, read, got, ended>>
      BY <2>8 DEF vars
    <3>2. /\ TypeOK' /\ Progress' /\ InOrder'
          /\ NoSleepOnPacket' /\ EndMeansDrained'
      BY <2>0, <3>1
      DEF TypeOK, Progress, InOrder, NoSleepOnPacket, EndMeansDrained, listVars
    <3> QED BY <2>0, <3>1, <3>2, QuietList DEF IInv
  <2> QED
    BY <2>1, <2>2, <2>3, <2>4, <2>5, <2>6, <2>7, <2>8
    DEF Next, DecodeThread, Get
<1> QED BY <1>1, <1>2, PTL DEF Spec

(* Every reachable state is well formed; in particular neither nb_packets  *)
(* nor size is ever negative.                                              *)
THEOREM TypeCorrect == Spec => []TypeOK
<1>1. IInv => TypeOK
  BY DEF IInv
<1> QED BY <1>1, InductiveInvariant, PTL

(* packet_queue_get returns the packets in the order in which              *)
(* packet_queue_put got them, none lost and none twice.                    *)
THEOREM OrderCorrect == Spec => []InOrder
<1>1. IInv => InOrder
  BY DEF IInv
<1> QED BY <1>1, InductiveInvariant, PTL

(* packet_queue_get never sleeps on a queue that has a packet.             *)
THEOREM WakeCorrect == Spec => []NoSleepOnPacket
<1>1. IInv => NoSleepOnPacket
  BY DEF IInv
<1> QED BY <1>1, InductiveInvariant, PTL

(* packet_queue_get says that the stream is over only when it is, and      *)
(* every packet was taken.                                                 *)
THEOREM EndCorrect == Spec => []EndMeansDrained
<1>1. IInv => EndMeansDrained
  BY DEF IInv
<1> QED BY <1>1, InductiveInvariant, PTL
-----------------------------------------------------------------------------
(* The list is a channel.                                                  *)

(* A run of consecutive numbers, which grows at either end and shrinks at  *)
(* its head.                                                               *)
Run(from, n) == [i \in 1..n |-> from + i]

LEMMA RunGrows ==
    ASSUME NEW from \in Nat, NEW n \in Nat
    PROVE  /\ Run(from, n) \in Seq(Nat) /\ Len(Run(from, n)) = n
           /\ Append(Run(from, n), from + n + 1) = Run(from, n + 1)
  BY DEF Run

LEMMA RunShrinks ==
    ASSUME NEW from \in Nat, NEW n \in Nat, n > 0
    PROVE  /\ Run(from, n) # <<>> /\ Head(Run(from, n)) = from + 1
           /\ Tail(Run(from, n)) = Run(from + 1, n - 1)
<1>1. Run(from, n) \in Seq(Nat) /\ Len(Run(from, n)) = n
  BY DEF Run
<1>2. Run(from, n) # <<>> /\ Head(Run(from, n)) = from + 1
  BY <1>1 DEF Run
<1>3. Tail(Run(from, n)) = [i \in 1..(n - 1) |-> Run(from, n)[i + 1]]
  <2> DEFINE s == Run(from, n)
             t == [i \in 1..(n - 1) |-> s[i + 1]]
  <2> HIDE DEF s
  <2>1. s \in Seq(Nat) /\ Len(s) = n /\ s # <<>>
    BY <1>1, <1>2 DEF s
  <2>2. Tail(s) \in Seq(Nat) /\ Len(Tail(s)) = n - 1
    BY <2>1
  <2>3. \A i \in 1..(n - 1) : Tail(s)[i] = s[i + 1]
    BY <2>1
  <2>4. t \in Seq(Nat) /\ Len(t) = n - 1
    <3>1. \A i \in 1..(n - 1) : s[i + 1] \in Nat
      BY <2>1
    <3> QED BY <3>1
  <2>5. \A i \in 1..(n - 1) : t[i] = Tail(s)[i]
    BY <2>3
  <2> HIDE DEF t
  <2>6. Tail(s) = t
    BY <2>2, <2>4, <2>5, SeqEqual
  <2> QED BY <2>6 DEF s, t
<1>4. \A i \in 1..(n - 1) : Run(from, n)[i + 1] = from + 1 + i
  BY DEF Run
<1> QED BY <1>2, <1>3, <1>4 DEF Run

LEMMA RunFromHead ==
    ASSUME NEW k \in Nat \ {0}, NEW n \in Nat
    PROVE  <<k>> \o Run(k, n) = Run(k - 1, n + 1)
<1>1. Run(k, n) \in Seq(Nat) /\ Len(Run(k, n)) = n
  BY RunGrows
<1>2. Run(k - 1, n + 1) \in Seq(Nat) /\ Len(Run(k - 1, n + 1)) = n + 1
  BY RunGrows
<1>3. \A i \in 1..(n + 1) : Run(k - 1, n + 1)[i] = k - 1 + i
  BY DEF Run
<1>4. \A i \in 1..n : Run(k, n)[i] = k + i
  BY DEF Run
<1> DEFINE s == <<k>> \o Run(k, n)
<1>5. s \in Seq(Nat) /\ Len(s) = n + 1
      /\ \A i \in 1..(n + 1) :
            s[i] = IF i = 1 THEN k ELSE Run(k, n)[i - 1]
  <2> HIDE DEF Run
  <2> QED BY <1>1
<1> HIDE DEF s, Run
<1>6. \A i \in 1..(n + 1) : s[i] = Run(k - 1, n + 1)[i]
  <2> SUFFICES ASSUME NEW i \in 1..(n + 1)
               PROVE  s[i] = Run(k - 1, n + 1)[i]
    OBVIOUS
  <2>1. CASE i = 1
    BY <1>3, <1>5, <2>1
  <2>2. CASE i # 1
    <3>1. i - 1 \in 1..n /\ k + (i - 1) = k - 1 + i
      BY <2>2
    <3>2. s[i] = Run(k, n)[i - 1]
      BY <1>5, <2>2
    <3> QED BY <1>3, <1>4, <3>1, <3>2
  <2> QED BY <2>1, <2>2
<1> QED BY <1>2, <1>5, <1>6, SeqEqual DEF s

(* Every set of natural numbers that is not empty has a least element.     *)
LEMMA HasMin ==
    ASSUME NEW S \in SUBSET Nat, S # {}
    PROVE  \E m \in S : \A n \in S : m <= n
<1>1. PICK x \in S : \A y \in S : ~(<<y, x>> \in OpToRel(<, Nat))
  BY NatLessThanWellFounded, WFMin, Zenon
<1>2. ASSUME NEW y \in S PROVE ~(y < x)
  BY <1>1, <1>2, Zenon DEF OpToRel
<1> QED BY <1>2, SMT

(* The elements from k on, as From walks through them, and what makes the  *)
(* walk end: next is the following element or NULL, also in elements that  *)
(* were taken.                                                             *)
IsChain(chain) ==
    chain = [k \in 0..Len(list) |->
                IF k = NULL THEN <<>> ELSE <<k>> \o chain[list[k].next]]

NextUp ==
    /\ \A k \in 1..Len(list) : list[k].next \in {NULL, k + 1}
    /\ list # <<>> => list[Len(list)].next = NULL

LEMMA ChainExists ==
    ASSUME TypeOK, NextUp
    PROVE  \E chain : IsChain(chain)
<1>0. Len(list) \in Nat /\ (Len(list) # 0 => list # <<>>)
  BY Numbers DEF TypeOK
<1> DEFINE Ends(k, j) == /\ j \in k..Len(list) /\ list[j].next = NULL
                         /\ \A i \in k..(j - 1) : list[i].next # NULL
           end(k) == CHOOSE j : Ends(k, j)
<1>1. ASSUME NEW k \in 1..Len(list) PROVE \E j : Ends(k, j)
  <2> DEFINE S == {j \in k..Len(list) : list[j].next = NULL}
  <2>1. S \in SUBSET Nat /\ S # {}
    BY <1>0 DEF NextUp
  <2>2. PICK m \in S : \A n \in S : m <= n
    BY <2>1, HasMin, Zenon
  <2>3. \A i \in k..(m - 1) : list[i].next # NULL
    BY <1>0, <2>2
  <2> QED BY <2>2, <2>3
<1>2. ASSUME NEW k \in 1..Len(list) PROVE Ends(k, end(k))
  BY <1>1, Zenon
<1> HIDE DEF end
<1> DEFINE chain == [k \in 0..Len(list) |->
                        IF k = NULL THEN <<>> ELSE Run(k - 1, end(k) - k + 1)]
<1>5. /\ 0 \in 0..Len(list) /\ chain[0] = <<>>
      /\ \A k \in 1..Len(list) : chain[k] = Run(k - 1, end(k) - k + 1)
  BY <1>0 DEF NULL
<1>6. chain = [k \in 0..Len(list) |-> chain[k]]
  OBVIOUS
<1> HIDE DEF chain
<1>3. ASSUME NEW k \in 1..Len(list)
      PROVE  chain[k] = <<k>> \o chain[list[k].next]
  <2>1. end(k) \in k..Len(list) /\ chain[k] = Run(k - 1, end(k) - k + 1)
    BY <1>0, <1>2, <1>5
  <2>2. CASE list[k].next = NULL
    <3>1. end(k) = k
      <4>1. ~(k < end(k))
        BY <1>0, <1>2, <2>1, <2>2
      <4> QED BY <1>0, <2>1, <4>1
    <3>2. chain[list[k].next] = <<>>
      BY <1>5, <2>2 DEF NULL
    <3>3. Run(k, 0) = <<>>
      BY DEF Run
    <3>4. <<k>> \o Run(k, 0) = Run(k - 1, 1)
      BY RunFromHead
    <3>5. end(k) - k + 1 = 1
      BY <3>1
    <3> QED BY <2>1, <3>2, <3>3, <3>4, <3>5
  <2>3. CASE list[k].next # NULL
    <3>1. list[k].next = k + 1 /\ k + 1 \in 1..Len(list)
      <4>1. list[k].next = k + 1 /\ k # Len(list)
        BY <1>0, <2>3 DEF NextUp
      <4> QED BY <1>0, <4>1
    <3>2. end(k + 1) = end(k)
      <4>1. Ends(k + 1, end(k + 1)) /\ Ends(k, end(k))
        BY <1>2, <3>1
      <4>2. ~(end(k) < end(k + 1))
        <5>1. end(k) # k
          BY <2>3, <4>1
        <5> QED BY <1>0, <4>1, <5>1
      <4>3. ~(end(k + 1) < end(k))
        BY <1>0, <4>1
      <4> QED BY <1>0, <4>1, <4>2, <4>3
    <3>3. chain[k + 1] = Run(k, end(k) - k)
      <4>1. chain[k + 1] = Run((k + 1) - 1, end(k) - (k + 1) + 1)
        BY <1>5, <3>1, <3>2
      <4>2. (k + 1) - 1 = k /\ end(k) - (k + 1) + 1 = end(k) - k
        BY <1>0, <2>1
      <4> QED BY <4>1, <4>2
    <3>4. <<k>> \o Run(k, end(k) - k) = Run(k - 1, end(k) - k + 1)
      <4>1. end(k) - k \in Nat /\ k \in Nat \ {0}
        BY <1>0, <2>1
      <4> HIDE DEF Run
      <4> QED BY <4>1, RunFromHead
    <3> QED BY <2>1, <3>1, <3>3, <3>4
  <2> QED BY <2>2, <2>3
<1>4. IsChain(chain)
  <2>1. \A k \in 0..Len(list) : k = NULL \/ k \in 1..Len(list)
    BY <1>0 DEF NULL
  <2>2. \A k \in 0..Len(list) :
           chain[k] = IF k = NULL THEN <<>> ELSE <<k>> \o chain[list[k].next]
    <3> TAKE k \in 0..Len(list)
    <3>1. CASE k = NULL
      BY <1>5, <3>1 DEF NULL
    <3>2. CASE k # NULL
      BY <1>3, <2>1, <3>2
    <3> QED BY <3>1, <3>2
  <2> QED BY <1>6, <2>2, Zenon DEF IsChain
<1> QED BY <1>4

(* From unfolded.                                                          *)
LEMMA FromIsChain ==
    ASSUME TypeOK, NextUp
    PROVE  \E chain : IsChain(chain) /\ From = chain[first_pkt]
  BY ChainExists, Zenon DEF IsChain, From

(* From the first element on the walk meets the elements not yet taken.    *)
LEMMA ChainIsRun ==
    ASSUME TypeOK, Links, NEW chain, IsChain(chain)
    PROVE  chain[first_pkt] = Run(Len(got), Len(list) - Len(got))
<1>1. /\ Len(list) \in Nat /\ Len(got) \in Nat /\ Len(got) <= Len(list)
      /\ first_pkt = IF Len(got) = Len(list) THEN NULL ELSE Len(got) + 1
  BY Numbers DEF Links
<1>2. \A k \in 0..Len(list) :
         chain[k] = IF k = NULL THEN <<>> ELSE <<k>> \o chain[list[k].next]
  <2> DEFINE body == [k \in 0..Len(list) |->
                         IF k = NULL THEN <<>>
                         ELSE <<k>> \o chain[list[k].next]]
  <2>1. chain = body
    BY Zenon DEF IsChain
  <2>2. \A k \in 0..Len(list) :
           body[k] = IF k = NULL THEN <<>> ELSE <<k>> \o chain[list[k].next]
    OBVIOUS
  <2> HIDE DEF body
  <2> QED BY <2>1, <2>2
<1>3. chain[NULL] = <<>> /\ Run(Len(got), 0) = <<>>
  <2>1. NULL \in 0..Len(list)
    BY <1>1 DEF NULL
  <2>2. chain[NULL] = <<>>
    BY <1>2, <2>1
  <2>3. Run(Len(got), 0) = <<>>
    BY DEF Run
  <2> QED BY <2>2, <2>3
<1> DEFINE Right(d) == chain[Len(list) - d] = Run(Len(list) - d - 1, d + 1)
           S == {d \in 0..(Len(list) - Len(got) - 1) : ~Right(d)}
<1>4. S = {}
  <2> SUFFICES ASSUME S # {} PROVE FALSE
    OBVIOUS
  <2>1. S \in SUBSET Nat
    BY <1>1
  <2>2. PICK d \in S : \A e \in S : d <= e
    BY <2>1, HasMin, Zenon
  <2> DEFINE k == Len(list) - d
  <2>3. /\ d \in Nat /\ k \in 1..Len(list) /\ k > Len(got) /\ k # NULL
        /\ d = Len(list) - k
    BY <1>1, <2>2 DEF NULL
  <2>4. chain[k] = <<k>> \o chain[list[k].next]
    <3>1. k \in 0..Len(list)
      BY <2>3
    <3> HIDE DEF k
    <3> QED BY <1>2, <2>3, <3>1
  <2>5. list[k].next = IF k = Len(list) THEN NULL ELSE k + 1
    BY <2>3 DEF Links
  <2>6. chain[list[k].next] = Run(k, d)
    <3>1. CASE d = 0
      <4>1. k = Len(list)
        BY <1>1, <3>1
      <4>2. Run(k, 0) = <<>>
        BY DEF Run
      <4> QED BY <1>3, <2>5, <3>1, <4>1, <4>2
    <3>2. CASE d # 0
      <4>1. d - 1 \in 0..(Len(list) - Len(got) - 1) /\ d - 1 \notin S
            /\ Len(list) - (d - 1) = k + 1 /\ k # Len(list)
            /\ Len(list) - (d - 1) - 1 = k /\ (d - 1) + 1 = d
        <5>1. d - 1 \in 0..(Len(list) - Len(got) - 1) /\ ~(d <= d - 1)
          BY <1>1, <2>2, <2>3, <3>2
        <5>2. d - 1 \notin S
          <6> HIDE DEF S
          <6> QED BY <2>2, <5>1
        <5>3. /\ Len(list) - (d - 1) = k + 1 /\ k # Len(list)
              /\ Len(list) - (d - 1) - 1 = k /\ (d - 1) + 1 = d
          BY <1>1, <2>3, <3>2
        <5> HIDE DEF S, k
        <5> QED BY <5>1, <5>2, <5>3
      <4>2. Right(d - 1)
        BY <4>1
      <4>3. chain[k + 1] = Run(k, d)
        BY <4>1, <4>2
      <4> QED BY <2>5, <4>1, <4>3
    <3> QED BY <3>1, <3>2
  <2>7. <<k>> \o Run(k, d) = Run(k - 1, d + 1)
    <3>1. k \in Nat \ {0} /\ d \in Nat
      BY <2>3
    <3> HIDE DEF k, Run
    <3> QED BY <3>1, RunFromHead
  <2>8. Right(d)
    BY <2>4, <2>6, <2>7
  <2> QED BY <2>2, <2>8
<1>5. CASE Len(got) = Len(list)
  <2>1. Len(list) - Len(got) = 0
    BY <1>1, <1>5
  <2> QED BY <1>1, <1>3, <1>5, <2>1
<1>6. CASE Len(got) # Len(list)
  <2> DEFINE d == Len(list) - Len(got) - 1
  <2>1. d \in 0..(Len(list) - Len(got) - 1)
    BY <1>1, <1>6
  <2>2. Right(d)
    BY <1>4, <2>1
  <2>3. /\ Len(list) - d = first_pkt /\ Len(list) - d - 1 = Len(got)
        /\ d + 1 = Len(list) - Len(got)
    BY <1>1, <1>6
  <2> HIDE DEF d
  <2> QED BY <2>2, <2>3
<1> QED BY <1>5, <1>6

HoldsRun ==
    /\ Len(got) \in Nat /\ Len(list) \in Nat /\ Len(got) <= Len(list)
    /\ From = Run(Len(got), Len(list) - Len(got))

LEMMA ListHoldsRun == IInv /\ NextUp => HoldsRun
  BY FromIsChain, ChainIsRun, Numbers DEF IInv, Links, HoldsRun

LEMMA NextUpStep ==
    ASSUME IInv, NextUp, [Next]_vars
    PROVE  NextUp'
<1>0. /\ TypeOK /\ Links /\ Counts /\ Len(list) \in Nat
      /\ list \in Seq(AVPacketList)
  BY Numbers DEF IInv, TypeOK
<1>1. ASSUME NEW s \in Sizes, Put(s) PROVE NextUp'
  <2>1. last_pkt = NULL \/ last_pkt = Len(list)
    BY <1>0 DEF Links
  <2>2. /\ Len(list') = Len(list) + 1
        /\ \A k \in 1..Len(list) :
              /\ k # last_pkt => list'[k].next = list[k].next
              /\ k = last_pkt => list'[k].next = Len(list) + 1
        /\ list'[Len(list) + 1].next = NULL
    BY <1>0, <1>1, PutList
  <2> QED BY <1>0, <2>1, <2>2 DEF NextUp, NULL
<1>2. CASE UNCHANGED list
  BY <1>2 DEF NextUp
<1>3. CASE ReadPacket \/ Finish \/ Get \/ SpuriousWake \/ UNCHANGED vars
  <2>1. UNCHANGED list
    BY <1>3 DEF ReadPacket, Finish, Get, GetCall, GetLock, GetTest, GetTake,
       GetWait, SpuriousWake, listVars, vars
  <2> QED BY <1>2, <2>1
<1> QED BY <1>1, <1>3 DEF Next, DecodeThread

(* Every step of the queue is one of the channel, or none.                 *)
LEMMA RefinementStep ==
    ASSUME IInv, IInv', HoldsRun, HoldsRun', [Next]_vars
    PROVE  Channel!Next \/ UNCHANGED Channel!channelVars
<1> USE DEF Channel!channelVars
<1> DEFINE left == Len(list) - Len(got)
<1>1. /\ From = Run(Len(got), left)
      /\ From' = Run(Len(got'), Len(list') - Len(got'))
      /\ Len(got) \in Nat /\ Len(list) \in Nat /\ left \in Nat
      /\ MaxPackets \in Nat /\ read \in 0..MaxPackets
  BY PacketQueueAssumption DEF HoldsRun, IInv, TypeOK
<1>2. CASE ReadPacket
  <2>1. /\ UNCHANGED <<list, got, finished, ended>> /\ ~finished
        /\ read < MaxPackets /\ read' = read + 1
    BY <1>2 DEF ReadPacket, listVars
  <2>2. From' = From
    BY <1>1, <2>1
  <2> QED BY <2>1, <2>2 DEF Channel!Next, Channel!Offer
<1>3. ASSUME NEW s \in Sizes, Put(s)
      PROVE  Channel!Accept
  <2>1. /\ UNCHANGED <<got, finished, read, ended>> /\ read = Len(list) + 1
        /\ Len(list') = Len(list) + 1
    BY <1>3, PutList DEF Put, IInv
  <2>2. ~finished
    BY <1>1, <2>1 DEF IInv, Progress
  <2>3. /\ Len(list') - Len(got') = left + 1
        /\ Len(got) + left + 1 = read
    BY <1>1, <2>1
  <2>4. Len(From) = left /\ From' = Append(From, read)
    <3> HIDE DEF left
    <3> QED BY <1>1, <2>1, <2>3, RunGrows
  <2>5. left < MaxPackets /\ Len(got) + left = read - 1
    BY <1>1, <2>1
  <2> HIDE DEF left
  <2> QED BY <2>1, <2>2, <2>4, <2>5 DEF Channel!Accept
<1>4. CASE Finish
  <2>1. /\ UNCHANGED <<list, got, read, ended>> /\ finished' = TRUE
    BY <1>4 DEF Finish, listVars
  <2>2. From' = From
    BY <1>1, <2>1
  <2> QED BY <2>1, <2>2 DEF Channel!Next, Channel!Close
<1>5. CASE GetTest
  <2>1. /\ UNCHANGED <<list, got, read, finished>>
        /\ \/ UNCHANGED ended
           \/ size <= 0 /\ finished /\ ended' = TRUE
    BY <1>5 DEF GetTest, listVars
  <2>2. From' = From
    BY <1>1, <2>1
  <2>3. size <= 0 /\ finished => Len(got) = read
    BY SizeIsZero DEF IInv, Progress
  <2> QED BY <2>1, <2>2, <2>3 DEF Channel!Next, Channel!End
<1>6. CASE GetTake
  <2>1. /\ UNCHANGED <<list, finished, read, ended>>
        /\ Len(got) < Len(list) /\ Len(got') = Len(got) + 1
    BY <1>6, TakeFacts DEF GetTake, IInv
  <2>2. left > 0 /\ Len(list') - Len(got') = left - 1
    BY <1>1, <2>1
  <2>3. From # <<>> /\ Head(From) = Len(got) + 1 /\ From' = Tail(From)
    <3>1. From' = Run(Len(got) + 1, left - 1)
      BY <1>1, <2>1, <2>2
    <3> HIDE DEF left
    <3> QED BY <1>1, <2>2, <3>1, RunShrinks
  <2>4. Channel!Deliver
    BY <2>1, <2>3 DEF Channel!Deliver
  <2> QED BY <2>4 DEF Channel!Next
<1>7. CASE GetCall \/ GetLock \/ GetWait \/ SpuriousWake \/ UNCHANGED vars
  <2>1. UNCHANGED <<list, got, finished, read, ended>>
    BY <1>7 DEF GetCall, GetLock, GetWait, SpuriousWake, vars, listVars
  <2> QED BY <1>1, <2>1
<1> QED
  BY <1>2, <1>3, <1>4, <1>5, <1>6, <1>7
     DEF Next, DecodeThread, Get, Channel!Next

(* The linked list, with its counters and its two ends, does what a first- *)
(* in first-out channel without limit does, and -1 announces its end.      *)
THEOREM Refinement == Spec => ImplementsChannel
<1>1. Init => NextUp /\ Channel!Init
  <2> SUFFICES ASSUME Init PROVE NextUp /\ Channel!Init
    OBVIOUS
  <2>1. NextUp /\ IInv /\ got = <<>> /\ list = <<>>
    BY InitInv DEF Init, NextUp
  <2>2. HoldsRun
    BY <2>1, ListHoldsRun
  <2>3. From = <<>>
    BY <2>1, <2>2 DEF HoldsRun, Run
  <2> QED BY <2>1, <2>3 DEF Init, Channel!Init
<1>2. IInv /\ NextUp /\ [Next]_vars => NextUp'
  BY NextUpStep
<1>3. IInv /\ IInv' /\ HoldsRun /\ HoldsRun' /\ [Next]_vars
         => [Channel!Next]_(Channel!channelVars)
  BY RefinementStep
<1> QED
  BY <1>1, <1>2, <1>3, ListHoldsRun, InductiveInvariant, PTL
     DEF Spec, ImplementsChannel, Channel!Spec

=============================================================================
