-------------------------- MODULE MCRtpReordering --------------------------
(* A sender of seven packets, and another of two, with sequence numbers    *)
(* below eight.                                                            *)
EXTENDS RtpReordering

Packet(begins, completes, frames) ==
    [begins |-> begins, completes |-> completes, frames |-> frames,
     good |-> TRUE]
Begin == Packet(TRUE, FALSE, 1)
Middle == Packet(FALSE, FALSE, 1)
End == Packet(FALSE, TRUE, 1)
Single == Packet(TRUE, TRUE, 1)
Double == Packet(TRUE, TRUE, 2)
Empty(packet) == [packet EXCEPT !.frames = 0]

Fragmented == <<Double, Begin, Middle, End, Begin, End, Empty(Single)>>
Mixed == <<Begin, End, Single, Double, Begin, Middle, Empty(End)>>
WrongHeader == [Fragmented EXCEPT ![3].good = FALSE]
WrongEnd == [Fragmented EXCEPT ![4].good = FALSE]

MCSources == {1, 2}
MCStreams == {<<long, <<Begin, End>>>> :
                long \in {Fragmented, Mixed, WrongHeader, WrongEnd}}
=============================================================================
