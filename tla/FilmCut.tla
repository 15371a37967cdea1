------------------------------- MODULE FilmCut -------------------------------
(***************************************************************************)
(* Cutting one package's film, file by file: run_private_journey_film and  *)
(* score_existing_film, as the console's job and the command line call     *)
(* them, and what the story page and the film stream then read.            *)
(*                                                                         *)
(* A cut works out its plan and writes it, draws the plan's cards into a   *)
(* directory the package has one of, encodes the film from what is in that *)
(* directory beside its destination and moves it across, writes two        *)
(* subtitle files, and may mix music under the film.  It can fail or be    *)
(* killed between any two of these, and nothing stops two processes from   *)
(* cutting one package at once.                                            *)
(*                                                                         *)
(* A plan is a version: what plan_journey_film works out of the package's  *)
(* judgement, ranks and references, which change between cuts.  One card   *)
(* stands for all of them, the position maps and section strips included:  *)
(* its frames are numbered files, and its still is file 0.                 *)
(***************************************************************************)
EXTENDS Integers, Sequences

CONSTANTS
  Cutter,      \* processes that cut or score this package
  Frames,      \* Frames[v]: the frames the card of plan v is animated in
  MaxCuts,     \* bound: cuts and scorings started
  MaxEdits,    \* bound: changes of what there is to plan from
  MaxFaults    \* bound: failures and kills

ASSUME FramesAssumption == Frames \in Seq(Nat \ {0}) /\ Frames # <<>>
ASSUME BoundsAssumption == {MaxCuts, MaxEdits, MaxFaults} \subseteq Nat

Version == 1..Len(Frames)
MostFrames == CHOOSE n \in {Frames[v] : v \in Version} :
                \A v \in Version : Frames[v] <= n
File == 0..MostFrames

VARIABLES
  evidence,   \* the plan the package would be given now
  plan,       \* journey-story-plan.json: a version, or 0
  cards,      \* cards[f]: the plan whose drawing file f of story-cards holds, or 0
  film,       \* ride-storyteller-story-film.mp4
  scored,     \* ride-storyteller-story-film-scored.mp4
  subtitles,  \* the .srt and the .vtt beside the film: a version, 0 or Torn
  cut,        \* cut[c]: what process c is cutting, and how far it is
  cuts, edits, faults

shelf == <<plan, cards, film, scored, subtitles>>
counts == <<cuts, edits, faults>>
cutVars == <<evidence, shelf, cut, counts>>

Torn == -1
NoFilm == [plan |-> 0, shows |-> <<>>, whole |-> FALSE, alone |-> FALSE]
NoScore == [film |-> NoFilm, length |-> 0]
NoCut == [kind |-> "", step |-> "", alone |-> FALSE, overwrite |-> FALSE,
          music |-> FALSE, plan |-> 0, drawn |-> 0, partial |-> NoFilm, mix |-> NoScore]

CutInit ==
  /\ evidence = 1 /\ plan = 0
  /\ cards = [f \in File |-> 0]
  /\ film = NoFilm /\ scored = NoScore
  /\ subtitles = [s \in {"srt", "vtt"} |-> 0]
  /\ cut = [c \in Cutter |-> NoCut]
  /\ cuts = 0 /\ edits = 0 /\ faults = 0

CutAt(c, step) == cut[c].step = step
GoTo(c, step) == cut' = [cut EXCEPT ![c].step = step]
Over(c) == cut' = [cut EXCEPT ![c] = NoCut]

-----------------------------------------------------------------------------
(* Starting: the health gate and the argument checks change nothing.       *)
(* A process does not know of any other: "alone", on a cut and on the film *)
(* it puts in place, is only remembered for the properties.                *)

Begun(c, start) ==
  LET others == {o \in Cutter \ {c} : cut[o] # NoCut}
  IN cut' = [o \in Cutter |->
               IF o = c THEN [start EXCEPT !.alone = others = {}]
               ELSE IF o \in others THEN [cut[o] EXCEPT !.alone = FALSE]
               ELSE cut[o]]

StartCut(c) ==
  /\ cut[c] = NoCut /\ cuts < MaxCuts
  /\ cuts' = cuts + 1
  /\ \E overwrite, music \in BOOLEAN :
       Begun(c, [NoCut EXCEPT !.kind = "cut", !.step = "plan",
                              !.overwrite = overwrite, !.music = music])
  /\ UNCHANGED <<evidence, shelf, edits, faults>>

\* plan_journey_film: worked out afresh, and replaced whole.
PlanFilm(c) ==
  /\ CutAt(c, "plan")
  /\ plan' = evidence
  /\ cut' = [cut EXCEPT ![c].step = "clear", ![c].plan = evidence]
  /\ UNCHANGED <<evidence, cards, film, scored, subtitles, counts>>

\* write_chapter_cards: what any earlier cut drew is removed first.
ClearedNone(files) == files
Cleared(files) == [f \in File |-> 0]

ClearCards(c) ==
  /\ CutAt(c, "clear")
  /\ cards' = Cleared(cards)
  /\ GoTo(c, "draw")
  /\ UNCHANGED <<evidence, plan, film, scored, subtitles, counts>>

\* The pages are drawn in order: the frames, then the still.
DrawNext(c) ==
  LET last == Frames[cut[c].plan]
      next == IF cut[c].drawn = last THEN 0 ELSE cut[c].drawn + 1
  IN /\ CutAt(c, "draw")
     /\ cards' = [cards EXCEPT ![next] = cut[c].plan]
     /\ cut' = [cut EXCEPT ![c].drawn = next,
                           ![c].step = IF next = 0 THEN "check" ELSE "draw"]
     /\ UNCHANGED <<evidence, plan, film, scored, subtitles, counts>>

\* Only the still is looked for.
CheckCards(c) ==
  /\ CutAt(c, "check")
  /\ IF cards[0] = 0 THEN Over(c) ELSE GoTo(c, "open")
  /\ UNCHANGED <<evidence, shelf, counts>>

-----------------------------------------------------------------------------
(* render_story_film                                                       *)

\* What is at the destination while the film is encoded beside it.
RemovedFirst(c) == NoFilm
Meanwhile(c) == film

\* A film that is there already is not replaced unasked: by now the plan and
\* the cards have been.
OpenFilm(c) ==
  /\ CutAt(c, "open")
  /\ IF film # NoFilm /\ ~cut[c].overwrite
     THEN Over(c) /\ UNCHANGED film
     ELSE /\ cut' = [cut EXCEPT ![c].step = "encode",
                                ![c].partial = [NoFilm EXCEPT !.plan = cut[c].plan]]
          /\ film' = Meanwhile(c)
  /\ UNCHANGED <<evidence, plan, cards, scored, subtitles, counts>>

\* FFmpeg reads a numbered sequence until the numbers stop; without a first
\* frame it has no input, and fails.
EncodeNext(c) ==
  LET read == Len(cut[c].partial.shows)
      frame == IF read < MostFrames THEN cards[read + 1] ELSE 0
  IN /\ CutAt(c, "encode") /\ ~cut[c].partial.whole
     /\ IF frame # 0
        THEN cut' = [cut EXCEPT ![c].partial.shows = Append(@, frame)]
        ELSE IF read = 0 THEN Over(c)
        ELSE cut' = [cut EXCEPT ![c].partial.whole = TRUE]
     /\ UNCHANGED <<evidence, shelf, counts>>

\* Moved across only once FFmpeg reports success.
Written(c) == cut[c].partial # NoFilm
Encoded(c) == cut[c].partial.whole

ReplaceFilm(c) ==
  /\ CutAt(c, "encode") /\ Encoded(c)
  /\ film' = [cut[c].partial EXCEPT !.alone = cut[c].alone]
  /\ GoTo(c, "srt")
  /\ UNCHANGED <<evidence, plan, cards, scored, subtitles, counts>>

-----------------------------------------------------------------------------
(* write_subtitle_files: the .srt, then the .vtt, each emptied and then    *)
(* written.                                                                *)

\* The cues are those of the plan the film was cut from.
Cues(c) == cut[c].plan

EmptySubtitles(c) ==
  \E suffix \in {"srt", "vtt"} :
    /\ CutAt(c, suffix)
    /\ subtitles' = [subtitles EXCEPT ![suffix] = Torn]
    /\ GoTo(c, IF suffix = "srt" THEN "srt_write" ELSE "vtt_write")
    /\ UNCHANGED <<evidence, plan, cards, film, scored, counts>>

WriteSubtitles(c) ==
  \/ /\ CutAt(c, "srt_write")
     /\ subtitles' = [subtitles EXCEPT !["srt"] = Cues(c)]
     /\ GoTo(c, "vtt")
     /\ UNCHANGED <<evidence, plan, cards, film, scored, counts>>
  \/ /\ CutAt(c, "vtt_write")
     /\ subtitles' = [subtitles EXCEPT !["vtt"] = Cues(c)]
     /\ GoTo(c, IF cut[c].music THEN "mix" ELSE "done")
     /\ UNCHANGED <<evidence, plan, cards, film, scored, counts>>

-----------------------------------------------------------------------------
(* Music: mix_music_into_film, at the end of a cut or on its own.          *)

\* score_existing_film: a film has to be there, and its length is the plan's.
StartScoring(c) ==
  /\ cut[c] = NoCut /\ cuts < MaxCuts
  /\ film # NoFilm /\ plan # 0
  /\ cuts' = cuts + 1
  /\ \E overwrite \in BOOLEAN :
       Begun(c, [NoCut EXCEPT !.kind = "score", !.step = "mix",
                              !.overwrite = overwrite, !.plan = plan])
  /\ UNCHANGED <<evidence, shelf, edits, faults>>

MixMusic(c) ==
  /\ CutAt(c, "mix")
  /\ IF scored # NoScore /\ ~cut[c].overwrite
     THEN Over(c)
     ELSE cut' = [cut EXCEPT ![c].step = "put",
                             ![c].mix = [film |-> film, length |-> cut[c].plan]]
  /\ UNCHANGED <<evidence, shelf, counts>>

ReplaceScored(c) ==
  /\ CutAt(c, "put")
  /\ scored' = cut[c].mix
  /\ GoTo(c, "done")
  /\ UNCHANGED <<evidence, plan, cards, film, subtitles, counts>>

Return(c) ==
  /\ CutAt(c, "done")
  /\ Over(c)
  /\ UNCHANGED <<evidence, shelf, counts>>

-----------------------------------------------------------------------------
\* A recording that has moved, a rasteriser or FFmpeg that fails or times out,
\* a full disk, a killed process: what was being encoded beside its destination
\* never gets there.
Stop(c) ==
  /\ cut[c].step \notin {"", "done"}
  /\ faults < MaxFaults
  /\ faults' = faults + 1
  /\ Over(c)
  /\ UNCHANGED <<evidence, shelf, cuts, edits>>

\* Ranking, a refreshed judgement, new reference data.
Reconsider ==
  /\ edits < MaxEdits
  /\ edits' = edits + 1
  /\ evidence' \in Version \ {evidence}
  /\ UNCHANGED <<shelf, cut, cuts, faults>>

Proceed(c) ==
  \/ PlanFilm(c) \/ ClearCards(c) \/ DrawNext(c) \/ CheckCards(c)
  \/ OpenFilm(c) \/ EncodeNext(c) \/ ReplaceFilm(c)
  \/ EmptySubtitles(c) \/ WriteSubtitles(c)
  \/ MixMusic(c) \/ ReplaceScored(c) \/ Return(c)

CutNext ==
  \/ \E c \in Cutter : StartCut(c) \/ StartScoring(c) \/ Proceed(c) \/ Stop(c)
  \/ Reconsider

CutSpec == CutInit /\ [][CutNext]_cutVars

-----------------------------------------------------------------------------
(* Properties.                                                             *)

\* "only put it in place once it is whole": whichever of two cuts is stopped
\* wherever, what is at the film's path, and under the music, is a film FFmpeg
\* finished.
FilmWhole ==
  /\ film # NoFilm => film.whole
  /\ scored # NoScore => scored.film.whole

\* A film cut with nobody beside it shows its own plan's drawing and nothing
\* of any earlier cut's, however the cuts before it ended ("old frames must
\* not stay").  Two cuts at once share the card directory and may mix.
FilmIsItsPlan ==
  film.alone => film.shows = [f \in 1..Frames[film.plan] |-> film.plan]

\* A cut that returns, nobody having cut or scored beside it, has left one
\* story: the plan, the film, both subtitle files and the scored film of one
\* plan, whatever was reconsidered meanwhile.
CutIsOneStory ==
  \A c \in Cutter : CutAt(c, "done") /\ cut[c].kind = "cut" /\ cut[c].alone =>
    /\ film.plan = plan
    /\ subtitles = [s \in {"srt", "vtt"} |-> plan]
    /\ cut[c].music => scored = [film |-> film, length |-> plan]

\* The three above: what stands there is whole, and is one film.
FilmTellsOneStory == FilmWhole /\ FilmIsItsPlan /\ CutIsOneStory

\* Once there is a film there is a film: a cut, refused, failed or killed,
\* leaves the earlier one untouched, and only a whole one takes its place.
FilmStays == [][film # NoFilm /\ film' # film => film'.whole]_film

Quiet == \A c \in Cutter : cut[c] = NoCut

\* Of the code's own words, tested: the page streams "the finished film" -- with
\* no cut under way, the scored film it prefers is the film that was cut last.
StreamedIsTheCut == Quiet /\ scored # NoScore => scored.film = film
=============================================================================
