--------------------------- MODULE MCRefreshTimer ---------------------------
(* Small films for the refresh timer.                                      *)
EXTENDS RefreshTimer, SequencesExt

Film(times) ==
    [i \in DOMAIN times |-> [pts |-> times[i], repeat_pict |-> 0]]

(* Every film of six frames at 20 or 50 ms from each other.                *)
EvenFilms ==
    {Film([i \in 1..6 |-> FoldLeft(+, 0, SubSeq(d, 1, i - 1))]) :
        d \in [1..5 -> {2, 5}]}
(* A frame that is to be repeated, and frames without a pts.               *)
UntimedFilm ==
    [Film(<<0, 0, 8, 0, 0, 20, 25>>) EXCEPT ![4].repeat_pict = 1]
(* A leap of the pts, a step back and a frame with the pts of another.     *)
BrokenFilm == Film(<<4, 8, 40, 44, 43, 43, 45>>)

AllFilms == EvenFilms \cup {UntimedFilm, BrokenFilm}
=============================================================================
