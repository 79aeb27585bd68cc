--------------------------- MODULE MCAudioDecode ---------------------------
(* Small films for the sound of the player.                                *)
EXTENDS AudioDecode

Packet(size, pts, frames) ==
    [size |-> size, pts |-> pts, frames |-> frames, good |-> TRUE]

(* One frame to a packet: every choice of two lengths of frames and of the *)
(* packets that have a pts.                                                *)
SimpleSound(lengths, timed) ==
    [p \in DOMAIN lengths |->
       Packet(1, IF timed[p] THEN FoldLeft(+, 0, SubSeq(lengths, 1, p - 1))
                 ELSE NoPts, <<lengths[p]>>)]
SimpleSounds ==
    {SimpleSound(l, t) : l \in [1..4 -> {1, 3}], t \in [1..4 -> BOOLEAN]}
(* Several frames to a packet.                                             *)
CrowdedSound == <<Packet(2, 0, <<2, 2>>), Packet(1, 4, <<2, 2>>),
                  Packet(3, 8, <<2, 2>>), Packet(1, 12, <<2>>)>>
CorruptSound == <<Packet(1, 0, <<3>>),
                  [Packet(1, 3, <<3>>) EXCEPT !.good = FALSE],
                  Packet(1, 6, <<3>>), Packet(1, 9, <<3>>)>>

AllSounds == SimpleSounds \cup {CrowdedSound, CorruptSound}
=============================================================================
