------------------------------ MODULE MCPlayer ------------------------------
(* Small films for the player.                                             *)
EXTENDS Player

Video == [stream |-> "video", size |-> 2, good |-> TRUE]
SmallVideo == [stream |-> "video", size |-> 1, good |-> TRUE]
Corrupt == [stream |-> "video", size |-> 1, good |-> FALSE]
Audio == [stream |-> "audio", size |-> 1, good |-> TRUE]
BadAudio == [stream |-> "audio", size |-> 1, good |-> FALSE]
Subtitle == [stream |-> "subtitle", size |-> 1, good |-> TRUE]

Film(packets, index) ==
    [streams |-> {packets[i].stream : i \in DOMAIN packets},
     packets |-> packets, index |-> index]

(* The index of a film of which a frame was dropped before the n-th kept   *)
(* one when dropped[n].                                                    *)
Index(dropped) ==
    FlattenSeq([n \in DOMAIN dropped |->
                  IF dropped[n] THEN <<FALSE, TRUE>> ELSE <<TRUE>>])

(* One film with every choice of dropped frames.                           *)
SkippedFilms ==
    {Film(<<Video, Audio, SmallVideo, Audio, Subtitle, Video, Audio, Video>>,
          Index(dropped)) : dropped \in [1..4 -> BOOLEAN]}
(* The sound comes first, then only pictures.                              *)
LateVideoFilm ==
    Film(<<Audio, Audio, Audio, Audio, SmallVideo, Video, Video>>,
         <<FALSE, TRUE, TRUE, TRUE>>)
CorruptFilm ==
    Film(<<Audio, Video, Corrupt, Video, Video, Audio, SmallVideo>>,
         <<TRUE, TRUE, FALSE, TRUE, TRUE>>)
(* The sound is rejected, and there is more of it than its queue takes.    *)
NoiseFilm ==
    Film(<<Audio, Audio, BadAudio, Video, Audio, Audio, Video, Audio, Video>>,
         <<TRUE, TRUE, TRUE>>)
BadStartFilm ==
    Film(<<BadAudio, Video, Audio, Video>>, <<TRUE, TRUE>>)
(* The last line is that of the last frame that the decoder gives.         *)
TightIndexFilm == Film(<<Video, Audio, Video, SmallVideo, Video>>,
                       <<FALSE, TRUE, TRUE, FALSE, TRUE>>)
(* The index of another film: too short, or with two drops in a row.       *)
ShortIndexFilm == Film(<<Video, Audio, Video, Video, Video>>,
                       <<TRUE, FALSE, TRUE>>)
WrongIndexFilm == Film(<<Video, Audio, Video, Video>>,
                       <<FALSE, FALSE, TRUE, FALSE>>)
PlainFilm == Film(<<Video, Audio, Video>>, <<>>)
SilentFilm == Film(<<Video, Video>>, <<TRUE, TRUE>>)
SoundOnlyFilm == Film(<<Audio, Audio>>, <<>>)

AllFilms ==
    SkippedFilms \cup {LateVideoFilm, CorruptFilm, NoiseFilm,
                       BadStartFilm, TightIndexFilm,
                       ShortIndexFilm, WrongIndexFilm, PlainFilm, SilentFilm,
                       SoundOnlyFilm}
=============================================================================
