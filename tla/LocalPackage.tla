---------------------------- MODULE LocalPackage ----------------------------
(***************************************************************************)
(* The directory of a local package (app/local_pipeline.py): what a        *)
(* preparation writes there and in which order, the replay of its          *)
(* director from what it holds, the page on which the evidence is decided  *)
(* (app/web/private_evidence_review.py) and the film made of the review    *)
(* clips (app/local_render.py).  A run may stop after any write.           *)
(*                                                                         *)
(* What the route and the recordings give does not change; which events    *)
(* are planned depends on the highlights, how their clips are cut on the   *)
(* highlights and the picks together: a cut is named by the pair.          *)
(***************************************************************************)
EXTENDS Integers, FiniteSets, Sequences, SequencesExt

CONSTANTS
    Highlights,  \* the versions of the highlights; 0 stands for none
    Picks,       \* the versions of the picks; 0 is the empty set of picks
    Planned,     \* the events planned under each version: sequences, as told
    MaxPrepares      \* bound on the runs

NoSnapshot == 0 - 1

ASSUME PackageAssumption == /\ {0} \subseteq Highlights \cap Picks
                            /\ NoSnapshot \notin Highlights \cup Picks
                            /\ DOMAIN Planned = Highlights
                            /\ \A h \in Highlights : Planned[h] \in Seq(Range(Planned[h]))
                            /\ MaxPrepares \in Nat \ {0}

VARIABLES
    package,   \* the files of the directory
    run,       \* the run under way
    lastWhole,     \* how the last run that ended well took its highlights, or "no"
    told,      \* the events the last run that ended well gave its director, {} without one
    human,     \* what the owner decided of the events: [event -> decision]
    prepares       \* runs begun

packageVars == <<package, run, lastWhole, told, human, prepares>>

None  == [absent |-> TRUE]   \* no such file
Idle  == [step |-> "idle"]
Empty == [exports |-> None, highlights |-> NoSnapshot, picks |-> NoSnapshot, evidence |-> <<>>,
          clips |-> <<>>, manifest |-> None, script |-> None, film |-> None]


\* evaluate_local_evidence_review
Decided(status) == {e \in DOMAIN package.evidence : package.evidence[e] = status}
ReadyForRender  == Decided("awaiting") = {} /\ Decided("confirmed") # {}
AboutHighlights(events)   == DOMAIN package.evidence = Range(events)

\* A run that ends badly leaves what it wrote.
Stop == run' = Idle

-----------------------------------------------------------------------------

PackageInit ==
    /\ package = Empty
    /\ run = Idle
    /\ lastWhole = "no"
    /\ told = {}
    /\ human = <<>>
    /\ prepares = 0

Start(how, highlights, picks, direct, extract) ==
    /\ prepares < MaxPrepares
    /\ prepares' = prepares + 1
    /\ lastWhole' = "no"
    /\ told' = {}
    /\ run' = [step |-> "exports", how |-> how, cut |-> <<highlights, picks>>,
               events |-> Planned[highlights], direct |-> direct,
               extract |-> extract, was |-> lastWhole, at |-> 0, confirmed |-> {}]
    /\ UNCHANGED <<package, human>>

\* The highlights and picks of the owner's own directory may be others each
\* time.  Nothing is written over unasked, and a snapshot of the highlights is not
\* left behind by a run that does not use one.
Prepare ==
    /\ run = Idle
    /\ \E overwrite, direct, extract \in BOOLEAN :
          /\ overwrite \/ package = Empty
          /\ \/ Start("route", 0, 0, direct, extract)
             \/ \E given \in Highlights \ {0} : Start("file", given, 0, direct, extract)
             \/ \E given \in Highlights \ {0}, picks \in Picks :
                    Start("directory", given, picks, direct, extract)
    /\ (package.highlights = NoSnapshot /\ package.picks = NoSnapshot) \/ run'.how = "directory"

\* rerun_local_director_from_package
Replayable ==
    /\ package.exports # None
    /\ ReadyForRender
    /\ (package.highlights = NoSnapshot) <=> (package.picks = NoSnapshot)
\* A variant of Replay: what was kept of the highlights is not read again.
ReplayBare == run = Idle /\ Replayable /\ Start("replay", 0, 0, TRUE, TRUE)

Replay ==
    /\ run = Idle /\ Replayable
    /\ IF package.highlights = NoSnapshot THEN Start("replay", 0, 0, TRUE, TRUE)
       ELSE Start("replay", package.highlights, package.picks, TRUE, TRUE)

To(step) == [run EXCEPT !.step = step]
Kept == run.how = "directory" \/ (run.how = "replay" /\ package.highlights # NoSnapshot)

WriteExports ==
    /\ run.step = "exports"
    /\ package' = [package EXCEPT !.exports = [events |-> run.events, cut |-> run.cut]]
    /\ run' = To(IF Kept THEN "highlights" ELSE "evidence")
    /\ UNCHANGED <<lastWhole, told, human, prepares>>

KeepHighlights ==
    /\ run.step = "highlights"
    /\ package' = [package EXCEPT !.highlights = run.cut[1]]
    /\ run' = To("picks")
    /\ UNCHANGED <<lastWhole, told, human, prepares>>

KeepPicks ==
    /\ run.step = "picks"
    /\ package' = [package EXCEPT !.picks = run.cut[2]]
    /\ run' = To("evidence")
    /\ UNCHANGED <<lastWhole, told, human, prepares>>

\* A variant of ReadEvidence: decisions about other events are made anew.
ReadEvidenceAnew ==
    /\ run.step = "evidence"
    /\ package' = IF AboutHighlights(run.events) THEN package
                  ELSE [package EXCEPT !.evidence = [e \in Range(run.events) |-> "confirmed"]]
    /\ run' = [To("clips") EXCEPT !.confirmed = Range(run.events)]
    /\ UNCHANGED <<lastWhole, told, human, prepares>>

\* load_or_autodecide_local_evidence_review: all are confirmed where nothing is
\* on file; decisions about other events end the run.
ReadEvidence ==
    /\ run.step = "evidence"
    /\ IF package.evidence = <<>>
       THEN /\ package' = [package EXCEPT !.evidence = [e \in Range(run.events) |-> "confirmed"]]
            /\ run' = [To("clips") EXCEPT !.confirmed = Range(run.events)]
       ELSE /\ UNCHANGED package
            /\ IF AboutHighlights(run.events)
               THEN run' = [To("clips") EXCEPT !.confirmed = Decided("confirmed")] ELSE Stop
    /\ UNCHANGED <<lastWhole, told, human, prepares>>

\* extract_local_review_clips, clip by clip, into files named by their place.
CutReviewClip ==
    /\ run.step = "clips" /\ run.extract /\ run.at < Len(run.events)
    /\ LET place == run.at + 1
           shown == [event |-> run.events[place], cut |-> run.cut]
       IN  package' = [package EXCEPT !.clips =
                IF place <= Len(@) THEN [@ EXCEPT ![place] = shown] ELSE Append(@, shown)]
    /\ run' = [run EXCEPT !.at = @ + 1]
    /\ UNCHANGED <<lastWhole, told, human, prepares>>

WriteClipManifest ==
    /\ run.step = "clips" /\ (run.extract => run.at = Len(run.events))
    /\ package' = [package EXCEPT !.manifest = [events |-> IF run.extract THEN run.events ELSE <<>>]]
    /\ run' = To("director")
    /\ UNCHANGED <<lastWhole, told, human, prepares>>

\* The director is given the confirmed events; without any it is not asked.
WriteScript ==
    /\ run.step = "director"
    /\ told' = IF run.direct THEN run.confirmed ELSE {}
    /\ package' = IF told' = {} THEN package
                  ELSE [package EXCEPT !.script = [events |-> run.confirmed, cut |-> run.cut]]
    /\ run' = Idle
    /\ lastWhole' = IF run.how = "replay" THEN (IF Kept THEN "directory" ELSE "route") ELSE run.how
    /\ UNCHANGED <<human, prepares>>

\* ffmpeg, the disk or the process gives out, or a file cannot be read.
RunFails == run.step # "idle" /\ Stop /\ UNCHANGED <<package, lastWhole, told, human, prepares>>

\* PrivateEvidenceReviewSession.update: only over a package whose candidates,
\* decisions and clips are of the same events, each with its file.
DecideEvidence ==
    /\ package.exports # None /\ package.manifest # None
    /\ AboutHighlights(package.exports.events)
    /\ Range(package.manifest.events) = Range(package.exports.events)
    /\ Len(package.clips) >= Len(package.manifest.events)
    /\ \E e \in Range(package.manifest.events), status \in {"awaiting", "confirmed", "rejected"} :
          /\ package' = [package EXCEPT !.evidence[e] = status]
          /\ human' = [x \in DOMAIN human \cup {e} |-> IF x = e THEN status ELSE human[x]]
    /\ UNCHANGED <<run, lastWhole, told, prepares>>

\* The clip a film takes for an event: the file at its place in the manifest.
ClipOf(e) == package.clips[CHOOSE i \in DOMAIN package.manifest.events : package.manifest.events[i] = e]
Shown(events) == {ClipOf(e) : e \in events}

\* What render_local_review_film checks before it cuts: the decisions, and for
\* a script that it is of these clips, all confirmed, and of every clip there is.
Renderable(script) ==
    /\ package.exports # None /\ package.manifest # None
    /\ AboutHighlights(package.exports.events) /\ ReadyForRender
    /\ Range(package.manifest.events) = Range(package.exports.events)
    /\ script => /\ package.script # None
                 /\ package.script.cut = package.exports.cut
                 /\ package.script.events \subseteq Decided("confirmed")
                 /\ package.script.events = Range(package.manifest.events)

RenderFilm(script) ==
    /\ run = Idle
    /\ Renderable(script)
    /\ Len(package.clips) >= Len(package.manifest.events)
    /\ package' = [package EXCEPT !.film =
            [script |-> script, whole |-> lastWhole, cut |-> package.exports.cut,
             rejected |-> Decided("rejected"),
             clips |-> Shown(IF script THEN package.script.events ELSE Range(package.manifest.events))]]
    /\ package' # package
    /\ UNCHANGED <<run, lastWhole, told, human, prepares>>

PackageNext ==
    \/ Prepare \/ Replay
    \/ WriteExports \/ KeepHighlights \/ KeepPicks \/ ReadEvidence \/ CutReviewClip
    \/ WriteClipManifest \/ WriteScript \/ RunFails
    \/ DecideEvidence
    \/ \E script \in BOOLEAN : RenderFilm(script)

PackageSpec == PackageInit /\ [][PackageNext]_packageVars

-----------------------------------------------------------------------------

\* What the owner decided of an event stays decided, whatever runs go over the
\* package, until the owner decides otherwise.
EvidenceStands ==
    \A e \in DOMAIN human : e \in DOMAIN package.evidence /\ package.evidence[e] = human[e]

\* A package whose last run ended well holds one story: its candidates, its
\* decisions and its clips are of the same events and cuts.
PackageAgrees ==
    lastWhole # "no" =>
        /\ AboutHighlights(package.exports.events)
        /\ package.manifest.events # <<>> =>
              /\ package.manifest.events = package.exports.events
              /\ \A i \in DOMAIN package.manifest.events :
                    package.clips[i] = [event |-> package.manifest.events[i], cut |-> package.exports.cut]
        /\ lastWhole = "directory" => <<package.highlights, package.picks>> = package.exports.cut

\* Its script is of those candidates, too, where that run asked its director: of
\* the events the run found confirmed, as they are cut.  A run that asks none
\* leaves the script of an earlier run beside its clips, and that one may be of
\* other events and cuts; FilmIsConfirmed says what is made of it.
ScriptTells ==
    (lastWhole # "no" /\ told # {}) =>
        /\ package.script = [events |-> told, cut |-> package.exports.cut]
        /\ told \subseteq Range(package.exports.events)

\* A replay of a package that was whole makes the same candidates again, and
\* does not see what has become of the owner's directory; only highlights
\* given as a file are not kept.
ReplayRepeats ==
    [][(run.step = "exports" /\ run.how = "replay" /\ run.was \in {"route", "directory"}
            /\ package' # package)
            => package'.exports = package.exports]_packageVars

\* A film made from a script of a whole package shows the confirmed clips as
\* they are cut now, and none that was rejected.
FilmIsConfirmed ==
    LET film == package.film
    IN  (film # None /\ film.script) =>
            /\ \A clip \in film.clips : clip.event \notin film.rejected
            /\ film.whole # "no" => \A clip \in film.clips : clip.cut = film.cut

\* Those above: a package tells one story, and the owner's decisions stand.
PackageIsOneStory == EvidenceStands /\ PackageAgrees /\ ScriptTells /\ FilmIsConfirmed
=============================================================================
