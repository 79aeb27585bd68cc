------------------------- MODULE MCSkippingPipeline -------------------------
(* Small films for the transcoder.  Stream 0 is the video, stream 1 the    *)
(* audio.                                                                  *)
EXTENDS SkippingPipeline

Video(pts) == [stream |-> 0, pts |-> pts, good |-> TRUE]
Audio == [stream |-> 1, pts |-> 0, good |-> TRUE]
Corrupt == [stream |-> 0, pts |-> 4, good |-> FALSE]

Film(pts) == [i \in DOMAIN pts |-> Video(pts[i])]

ConstantRateFilm == Film(<<1, 2, 3>>) \o <<Audio>> \o Film(<<4, 5, 6, 7>>)
VariableRateFilm == <<Audio>> \o Film(<<1, 3, 4, 9, 10, 13>>)
ShortFilm == Film(<<1, 2>>)
CorruptFilm == Film(<<1, 2, 3>>) \o <<Corrupt>> \o Film(<<5>>)

Films == {ConstantRateFilm, VariableRateFilm, ShortFilm, CorruptFilm}

AllStages == Stages
=============================================================================
