----------------------------- MODULE MCFilmCut ------------------------------
(* An instance of FilmCut for TLC. *)
EXTENDS FilmCut

\* An earlier plan whose card is animated in more frames than a later one's.
TwoThenOne == <<2, 1>>
=============================================================================
