----------------------------- MODULE DemoVideo -----------------------------
(***************************************************************************)
(* The demo video of app/submission: a timeline filled from what the       *)
(* package says of itself, checked, drawn segment by segment from the      *)
(* finished film and the judged copies, joined, put in place, given its    *)
(* subtitles and looked through for plates and faces.  There are two       *)
(* versions: the first is a narration over stretches of the film           *)
(* (demo_assembly.py), the second ten scenes (demo_scenario_v2.py).        *)
(*                                                                         *)
(* Time is counted in half seconds.  A text is the name of its caption, or *)
(* the kind of thing a judgement says.                                     *)
(***************************************************************************)
EXTENDS Integers, FiniteSets, Sequences, SequencesExt

CONSTANTS
    Packages,  \* the states the package directory may be found in
    Handed,    \* the inputs files
    From,      \* where in the film excerpts may be asked to begin
    MosaicCount, JudgedCount, \* windows of the mosaic (12) and judged ones shown (4)
    MaxDemos,  \* bound on the assemblies
    MaxChanges \* bound on what changes beside them

\* An inputs file lists windows; a film lasts some time, and excerpts of it are
\* asked for from some time on.
ASSUME DemoAssumption ==
    /\ From \subseteq Nat
    /\ \A p \in Packages : p.film.length \in Nat
    /\ \A given \in Handed : given.judged \in Seq(ToSet(given.judged))

VARIABLES
    found,    \* the package directory as it is
    making,   \* the assembly under way
    demos,    \* of each version, the video and the subtitles in place
    spent     \* [demos, changes], and the demos torn from their subtitles

demoVars == <<found, making, demos, spent>>

Versions == {"v1", "v2"}
SceneSeconds == <<16, 24, 24, 30, 36, 30, 60, 30, 80, 24>>
ResultFramed == 60
ResultFullScreen == 20
DemoTotal == 354
\* The judged windows share their scene, none of them for no time at all.
ASSUME JudgedAssumption == JudgedCount \in 1 .. SceneSeconds[7]
NoVideo == [parts |-> <<>>, by |-> 0]
NoCues  == [cues |-> <<>>, by |-> 0]
Nobody  == [step |-> "idle", version |-> "v1", segments |-> <<>>, parts |-> <<>>,
            cutShort |-> FALSE, console |-> 0, figures |-> 0]

-----------------------------------------------------------------------------
\* A segment plays for `seconds`, over the film from `start` on, over copies
\* of windows or over a still; it says its caption for `hold` of them.
Segment(shows, start, seconds, caption) ==
    [shows |-> shows, start |-> start, seconds |-> seconds, caption |-> caption,
     hold |-> seconds, fades |-> <<TRUE, TRUE>>, panel |-> "none"]

OfFilm(start, seconds, caption) == Segment("film", start, seconds, caption)
Still(seconds, caption) == Segment("still", 0, seconds, caption)

\* The script: five stretches of the film, back to back from `start`, round
\* three stills and the card of figures.
Timeline1(start) ==
    <<OfFilm(start, 40, "problem"), OfFilm(start + 40, 50, "evidence"),
      OfFilm(start + 90, 40, "clock"), Still(30, ""), Still(30, ""), Still(50, "figures"),
      OfFilm(start + 130, 50, "gemini"), Still(30, ""),
      [OfFilm(start + 180, 34, "close") EXCEPT !.hold = 16]>>

JudgedScene(given, says) ==
    [i \in 1..JudgedCount |->
       [Segment("copies", 0, SceneSeconds[7] \div JudgedCount, "judged") EXCEPT
          !.fades = <<i = 1, i = JudgedCount>>,
          !.panel = says[given.judged[i]]]]

Timeline2(given, says, opening, result) ==
    <<OfFilm(opening, SceneSeconds[1], "made-by"),
      Segment("copies", 0, SceneSeconds[2], "mosaic"),
      Segment("copies", 0, SceneSeconds[3], "single"),
      Still(SceneSeconds[4], "chapters"), Still(SceneSeconds[5], "copies"),
      Still(SceneSeconds[6], "cost")>>
    \o JudgedScene(given, says)
    \o <<Still(SceneSeconds[8], "planner"), OfFilm(result, ResultFramed, "result"),
         OfFilm(result + ResultFramed, ResultFullScreen, ""), Still(SceneSeconds[10], "close")>>

\* Segments are back to back: how long the first n of them play.
RunTime(segments) ==
    LET elapsed[n \in 0 .. Len(segments)] ==
            IF n = 0 THEN 0 ELSE elapsed[n - 1] + segments[n].seconds
    IN  elapsed
Begins(segments) ==
    LET elapsed == RunTime(segments) IN [i \in 1 .. Len(segments) |-> elapsed[i - 1]]
TimelineDuration(segments) == RunTime(segments)[Len(segments)]

\* demo_subtitles: a caption held unchanged across segments is one cue.
CueTaken(cues, at, segment) ==
    LET end  == Len(cues)
        till == at + segment.seconds
    IN  IF segment.caption = "" THEN cues
        ELSE IF end > 0 /\ cues[end][3] = segment.caption /\ cues[end][2] = at
        THEN [cues EXCEPT ![end] = <<@[1], till, segment.caption>>]
        ELSE Append(cues, <<at, till, segment.caption>>)
DemoCues(segments) ==
    LET at == Begins(segments)
        cues[n \in 0 .. Len(segments)] ==
            IF n = 0 THEN <<>> ELSE CueTaken(cues[n - 1], at[n], segments[n])
    IN  cues[Len(segments)]

-----------------------------------------------------------------------------
\* DemoInputs: what an inputs file has to be.
InputsRead(given) ==
    /\ Len(given.mosaic) = MosaicCount /\ IsInjective(given.mosaic)
    /\ Len(given.judged) = JudgedCount
EventIds(given) == ToSet(given.mosaic) \cup {given.single} \cup ToSet(given.judged)

\* Every window shown was judged, and no judgement reads like a number plate.
LoadJudgements(says, ids) == \A w \in ids : says[w] \notin {"nothing", "plate"}

Gap(x, y) == IF x < y THEN y - x ELSE x - y

\* What the figures are compared with: the plan's, or what was bought, at the
\* plan's rate.  Money is in half hundredths and size in twentieths, the units
\* the page rounds to.
CheckFigures(figures, console) ==
    LET scaled == console.judged \notin {0, console.count}
        of     == IF scaled THEN console.judged ELSE console.count
        more   == IF scaled THEN of ELSE 0
    IN  /\ console.planned /\ figures.windows = of
        /\ Gap(console.cost * of, figures.cost * console.count) <= console.count + more
        /\ Gap(console.size * of, figures.size * console.count) <= 20 * console.count + more
        /\ console.beats # 0 => /\ figures.beats = console.beats
                               /\ Gap(console.lasts, figures.lasts) <= 2

\* preflight, with everything that makes it refuse.
PreflightBriefly(given, opening, result) ==
    /\ found.film.usable /\ found.film.length >= result + ResultFramed /\ found.film.audio
    /\ EventIds(given) \subseteq found.copies
    /\ LoadJudgements(found.says, EventIds(given))
    /\ found.english /\ found.cards >= 2
    /\ CheckFigures(given.figures, found.console)
Preflight(given, opening, result) ==
    /\ found.film.usable /\ found.film.audio
    /\ found.film.length >= opening + SceneSeconds[1]
    /\ found.film.length >= result + SceneSeconds[9]
    /\ EventIds(given) \subseteq found.copies
    /\ LoadJudgements(found.says, EventIds(given))
    /\ found.english /\ found.cards >= 2
    /\ CheckFigures(given.figures, found.console)

\* All a demo puts on the screen; a name or a path in any of it is refused.
OnScreenTexts(segments) ==
    {s.caption : s \in ToSet(segments)} \cup {s.panel : s \in ToSet(segments)}
NothingPrivate(segments) == "name" \notin OnScreenTexts(segments)

-----------------------------------------------------------------------------
DemoInit ==
    /\ found \in Packages
    /\ making = Nobody
    /\ demos = [v \in Versions |-> [video |-> NoVideo, subtitles |-> NoCues]]
    /\ spent = [demos |-> 0, changes |-> 0, torn |-> {}]

Assemble(version, segments, overwrite, figures) ==
    /\ making.step = "idle" /\ spent.demos < MaxDemos
    /\ demos[version].video # NoVideo => overwrite
    /\ NothingPrivate(segments)
    /\ making' = [Nobody EXCEPT !.step = "drawing", !.version = version, !.segments = segments,
                                !.console = found.console, !.figures = figures]
    /\ spent' = [spent EXCEPT !.demos = @ + 1]
    /\ UNCHANGED <<found, demos>>

\* The first version asks for a film and two cards, and takes its figures from
\* the page.
Assemble1(start, overwrite) ==
    /\ found.film.usable /\ found.cards >= 2 /\ found.console.planned
    /\ Assemble("v1", Timeline1(start), overwrite,
                [windows |-> found.console.count, cost |-> found.console.cost,
                 size |-> found.console.size, beats |-> found.console.beats,
                 lasts |-> found.console.lasts])

Assemble2(given, opening, result, overwrite) ==
    LET segments == Timeline2(given, found.says, opening, result)
    IN  /\ InputsRead(given) /\ Preflight(given, opening, result)
        /\ TimelineDuration(segments) = DemoTotal
        /\ Assemble("v2", segments, overwrite, given.figures)

\* What a stretch of the film really plays: it ends where the film does.
Plays(segment) ==
    LET left == IF segment.start > found.film.length THEN 0 ELSE found.film.length - segment.start
    IN  IF left < segment.seconds THEN left ELSE segment.seconds

\* ffmpeg cuts one segment, and what is laid over it ends with it; a copy is
\* looped and a still held.
Cut(segment) ==
    IF segment.shows # "film" THEN segment
    ELSE [segment EXCEPT !.seconds = Plays(segment),
                         !.hold = IF Plays(segment) < @ THEN Plays(segment) ELSE @]

DrawSegment ==
    /\ making.step = "drawing" /\ Len(making.parts) < Len(making.segments)
    /\ making' = [making EXCEPT !.parts = Append(@, Cut(making.segments[Len(@) + 1]))]
    /\ UNCHANGED <<found, demos, spent>>

\* The parts are joined aside and take the place of the demo at once.
JoinAndReplace ==
    /\ making.step = "drawing" /\ Len(making.parts) = Len(making.segments)
    /\ demos' = [demos EXCEPT ![making.version].video =
                   [parts |-> making.parts, by |-> spent.demos]]
    /\ making' = [making EXCEPT !.step = "joined"]
    /\ UNCHANGED <<found, spent>>

WriteDemoSubtitles ==
    /\ making.step = "joined"
    /\ demos' = [demos EXCEPT ![making.version].subtitles =
                   [cues |-> DemoCues(making.segments), by |-> spent.demos]]
    /\ making' = [making EXCEPT !.step = IF making.version = "v1" THEN "done" ELSE "inspecting"]
    /\ UNCHANGED <<found, spent>>

\* A demo in which a plate or a face is seen is removed with its subtitles.
Inspect ==
    /\ making.step = "inspecting"
    /\ \E clean \in BOOLEAN :
         demos' = IF clean THEN demos
                  ELSE [demos EXCEPT !["v2"] = [video |-> NoVideo, subtitles |-> NoCues]]
    /\ making' = [making EXCEPT !.step = "done"]
    /\ UNCHANGED <<found, spent>>

\* Whatever fails, what was drawn aside is thrown away and nothing else is.
AssemblyEnds ==
    /\ making.step # "idle"
    /\ making' = Nobody
    /\ spent' = [spent EXCEPT !.torn = IF making.step = "joined" THEN @ \cup {spent.demos} ELSE @]
    /\ UNCHANGED <<found, demos>>

\* A film that reaches for what is still to be drawn.
Reaches(film) ==
    \A i \in Len(making.parts) + 1 .. Len(making.segments) : LET s == making.segments[i]
        IN s.shows = "film" => s.start + s.seconds <= film.length

\* The film is cut again, the ride judged further, a card drawn, meanwhile.
PackageChanges ==
    /\ spent.changes < MaxChanges
    /\ found' \in Packages \ {found}
    /\ spent' = [spent EXCEPT !.changes = @ + 1]
    /\ making' = [making EXCEPT !.cutShort = @ \/ ~Reaches(found'.film)]
    /\ UNCHANGED demos

DemoNext ==
    \/ \E start \in From, overwrite \in BOOLEAN : Assemble1(start, overwrite)
    \/ \E given \in Handed, opening, result \in From, overwrite \in BOOLEAN :
         Assemble2(given, opening, result, overwrite)
    \/ DrawSegment \/ JoinAndReplace \/ WriteDemoSubtitles \/ Inspect \/ AssemblyEnds
    \/ PackageChanges

DemoSpec == DemoInit /\ [][DemoNext]_demoVars

-----------------------------------------------------------------------------
(* Properties.                                                             *)

\* What is said over a part is in a cue that says it, for as long as it is seen.
CaptionsAreCued(video, cues) ==
    LET at == Begins(video.parts)
    IN  \A i \in 1..Len(video.parts) : LET part == video.parts[i]
        IN part.caption # "" =>
             \E cue \in ToSet(cues) :
               cue[3] = part.caption /\ cue[1] <= at[i] /\ at[i] + part.hold <= cue[2]

\* A cue is on the screen from its first to its last moment, and fades in and
\* out there and nowhere between.
CuesAreSeen(video, cues) ==
    LET at == Begins(video.parts)
        till(i) == at[i] + video.parts[i].seconds
    IN  \A cue \in ToSet(cues) : \A i \in 1..Len(video.parts) : LET part == video.parts[i]
        IN at[i] < cue[2] /\ cue[1] < till(i) =>
             /\ part.caption = cue[3] /\ part.hold = part.seconds
             /\ part.fades = <<at[i] = cue[1], till(i) = cue[2]>>

\* "Every cue here is the text already on screen, timed by the same holds the
\* segments are cut to, so the two cannot come apart" (demo_assembly.py): of a
\* version's demo in place, at any time and whatever has become of the package,
\* no name or number plate is read in it; its subtitles are its own, or none or
\* an earlier demo's where the assembly ended, or is, between the two; and if they
\* are its own and it lasts what a demo does, a caption is cued wherever it is
\* seen and, in the second version, a cue is seen for as long as it is up.
SaysItself(v) ==
    LET video == demos[v].video
        subtitles == demos[v].subtitles
        whole == TimelineDuration(video.parts) = DemoTotal
    IN  video # NoVideo =>
          /\ \A part \in ToSet(video.parts) : part.panel \notin {"name", "plate", "nothing"}
          /\ subtitles.by = video.by /\ whole =>
               /\ CaptionsAreCued(video, subtitles.cues)
               /\ v = "v2" => CuesAreSeen(video, subtitles.cues)
          /\ subtitles.by # video.by =>
               /\ subtitles.by < video.by
               /\ \/ video.by \in spent.torn
                  \/ making.step = "joined" /\ making.version = v /\ video.by = spent.demos

\* A finished second version lasts what the scenario does, whatever replaces
\* the package while it is drawn, as long as the film that comes reaches for
\* what is left to draw; and its figures' windows are those the console it was
\* checked against says were judged.  The first version does not ask how long
\* the film is.
SecondIsWhole ==
    LET video == demos["v2"].video
    IN  making.step = "done" /\ making.version = "v2" /\ video # NoVideo =>
          /\ ~making.cutShort => TimelineDuration(video.parts) = DemoTotal
          /\ making.console.judged \in {0, making.figures.windows}

\* What a demo shows, says and counts is one story, also while the package it
\* is made from changes and where an assembly ends at any of its steps.
DemoSaysItself ==
    /\ \A v \in Versions : SaysItself(v)
    /\ SecondIsWhole
=============================================================================
