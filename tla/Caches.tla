------------------------------- MODULE Caches -------------------------------
(***************************************************************************)
(* What is asked for or measured once and kept: the names of places        *)
(* (app/place_names.py), the map behind the ride (app/map_background.py),  *)
(* the looks of windows (app/analysis_look.py), the metrics of recordings  *)
(* (app/video/metric_cache.py), the references fetched from mirrors        *)
(* (app/reference_fetch.py), and the local copies (app/analysis_proxy.py). *)
(* Several processes may run at once, each may be stopped between two      *)
(* steps, and each file is written beside its name and put in its place.   *)
(*                                                                         *)
(* A file's content is the set of things it holds an answer for.  A file   *)
(* that is open stays the same file when it is put in another's place.     *)
(***************************************************************************)
EXTENDS Integers, FiniteSets, Sequences, SequencesExt, Functions

CONSTANTS
    Processes,
    Places,      \* what a film asks the names of
    Windows,     \* whose looks a film compares
    Mirrors,     \* how many mirrors there are
    Answers,     \* what a mirror may answer: sets of [name, placed, town, nodes]
    MaxStarts,   \* bound on the runs begun
    MaxShots     \* bound on the versions of the recording

ASSUME CachesAssumption == Mirrors \in Nat /\ Processes \cap {"name", ".part"} = {}

VARIABLES
    files,       \* [path -> [content, whole]]: the disk
    proc,        \* of each process: its run
    recording,   \* the version of the recording
    answered,    \* how often the service answered for each place
    lost,        \* how many of those answers went with a run that was stopped
    raced,       \* two films of the package were being made at once
    starts

cacheVars == <<files, proc, recording, answered, lost, raced, starts>>

\* What is kept, and what a run has to do, by kind and by which of the kind.
Sole(kind)       == <<kind, "sole">>
Metrics(version) == <<"metrics", ToString(version)>>
Names            == Sole("names")

Away == [step |-> "away", left |-> <<>>, known |-> {}, names |-> {}, named |-> FALSE,
         target |-> Sole("none"), fd |-> <<>>, content |-> {}]

\* What stands under its own name, and what stands beside it.
Named(target) == <<target, "name">>

-----------------------------------------------------------------------------

\* A variant of TempOf: the metrics are written beside themselves under one name.
TempShared(p, target) == <<target, ".part">>

\* with_suffix(".part") in some, uuid4, mkstemp and the process id in others.
TempOf(p, target) ==
    <<target, IF target \in {Names, Sole("map"), Sole("reference")} THEN ".part" ELSE p>>

OnFile(target)    == Named(target) \in DOMAIN files
Published(target) == IF OnFile(target) THEN files[Named(target)].content ELSE {}
Readable(target)  == OnFile(target) /\ files[Named(target)].whole
With(path, content, whole) ==
    [f \in DOMAIN files \cup {path} |->
        IF f = path THEN [content |-> content, whole |-> whole] ELSE files[f]]

\* What a reader takes for an answer: the samples of an older form, or with a
\* number that is none, count as not there.
Older == {"older"}
Understood(target) == Readable(target) /\ Published(target) # Older

CachesInit ==
    /\ files = [f \in {Named(Metrics(1))} |-> [content |-> Older, whole |-> TRUE]]
    /\ proc = [p \in Processes |-> Away]
    /\ recording = 1
    /\ answered = [x \in Places |-> 0]
    /\ lost = [x \in Places |-> 0]
    /\ raced = FALSE
    /\ starts = 0

MakingAFilm(p) == proc[p].step # "away" /\ proc[p].named
Launch(p, items, named) ==
    /\ proc[p].step = "away" /\ starts < MaxStarts
    /\ starts' = starts + 1
    /\ proc' = [proc EXCEPT ![p] = [Away EXCEPT !.step = "next", !.left = items, !.named = named,
                                        !.names = IF named THEN Published(Names) ELSE {}]]

\* A film: the looks, the names and the map.  PlaceNames reads what is on file
\* once; a file it cannot read leaves the film without names.
StartFilm(p) ==
    /\ ~OnFile(Names) \/ Readable(Names)
    /\ LET order == SetToSeq(Places)
       IN  Launch(p, <<Sole("look")>> \o [i \in DOMAIN order |-> <<"name", order[i]>>] \o <<Sole("map")>>, TRUE)
    /\ raced' = (raced \/ \E q \in Processes : MakingAFilm(q))
    /\ UNCHANGED <<files, recording, answered, lost>>

StartNameless(p) ==
    /\ OnFile(Names) /\ ~Readable(Names)
    /\ Launch(p, <<Sole("look"), Sole("map")>>, FALSE)
    /\ UNCHANGED <<files, recording, answered, lost, raced>>

StartResearch(p) == Launch(p, <<Sole("metrics")>>, FALSE) /\ UNCHANGED <<files, recording, answered, lost, raced>>

\* run_preflight, for one window.
StartPreflight(p) == Launch(p, <<Sole("copy")>>, FALSE) /\ UNCHANGED <<files, recording, answered, lost, raced>>

\* Mirrors are asked in turn until one answers with elements.
StartFetch(p) == Launch(p, [i \in 1 .. Mirrors |-> Sole("mirror")], FALSE)
                 /\ UNCHANGED <<files, recording, answered, lost, raced>>

Reached(p, item) == proc[p].step = "next" /\ proc[p].left # <<>> /\ Head(proc[p].left) = item
Next1(p)    == [proc[p] EXCEPT !.step = "next", !.left = Tail(@), !.known = {}, !.target = Sole("none"), !.fd = <<>>, !.content = {}]
Write(p, target, content) == [proc[p] EXCEPT !.step = "open", !.target = target, !.content = content]
Goes(p, new) == proc' = [proc EXCEPT ![p] = new]
OnlyGoes(p, new) == Goes(p, new) /\ UNCHANGED <<files, recording, answered, lost, raced, starts>>

\* measure_look, of each that is missing; a copy that is gone ends it.
MeasureLooks(p, wanted) ==
    \/ OnlyGoes(p, Write(p, Sole("look"), Published(Sole("look")) \cup wanted))
    \/ OnlyGoes(p, Next1(p))

\* looks_for: all that is known is read, what is missing measured, and the
\* whole written; copies that cannot be read leave the film without looks.
CompareLooks(p) ==
    /\ Reached(p, Sole("look"))
    /\ \/ /\ Windows \subseteq Published(Sole("look"))
          /\ OnlyGoes(p, Next1(p))
       \/ /\ ~(Windows \subseteq Published(Sole("look")))
          /\ \E wanted \in (SUBSET Windows) \ {{}} : MeasureLooks(p, wanted)

\* name_at: known, or asked; a service that refuses or cannot be reached
\* leaves it unnamed, one that does not answer in time ends the film.
NameKnown(p, place) ==
    /\ Reached(p, <<"name", place>>) /\ place \in proc[p].names
    /\ OnlyGoes(p, Next1(p))

\* A variant of NamesToWrite: the name just learnt is written by itself.
LastNameOnly(p, place) == {place}
NamesToWrite(p, place) == proc[p].names \cup {place}

AskName(p, place) ==
    /\ Reached(p, <<"name", place>>) /\ place \notin proc[p].names
    /\ \/ /\ answered' = [answered EXCEPT ![place] = @ + 1]
          /\ Goes(p, [Write(p, Names, NamesToWrite(p, place)) EXCEPT !.names = @ \cup {place}])
          /\ UNCHANGED <<files, recording, lost, raced, starts>>
       \/ OnlyGoes(p, Next1(p))
       \/ OnlyGoes(p, [Away EXCEPT !.step = "late"])

\* The key is made of the frame of the ride and the style; what is on file
\* under it and is not empty is taken.
MapKept == Published(Sole("map")) # {}

\* background_or_none, map_background: kept, or fetched when it can be.
DrawMap(p) ==
    /\ Reached(p, Sole("map"))
    /\ IF MapKept THEN OnlyGoes(p, Next1(p))
       ELSE \/ OnlyGoes(p, Write(p, Sole("map"), {"png"}))
            \/ OnlyGoes(p, Next1(p))
            \/ OnlyGoes(p, [Away EXCEPT !.step = "late"])

\* write_proxy_clip: one frame a second, beside its name first.
CopyMade == {"clip"}

\* _prepare_one: a copy that is there is not made again; one
\* that cannot be made is counted.
CopyWindow(p) ==
    /\ Reached(p, Sole("copy"))
    /\ IF Published(Sole("copy")) # {} THEN OnlyGoes(p, Next1(p))
       ELSE OnlyGoes(p, Write(p, Sole("copy"), CopyMade)) \/ OnlyGoes(p, Next1(p))

\* load_or_analyze_video_metrics: known for these bytes, or analysed, which
\* takes a while, and kept under the bytes as they are by then.
MetricsKnown(p) ==
    /\ Reached(p, Sole("metrics")) /\ Understood(Metrics(recording))
    /\ OnlyGoes(p, Next1(p))

AnalyseRecording(p) ==
    /\ Reached(p, Sole("metrics")) /\ ~Understood(Metrics(recording))
    /\ OnlyGoes(p, [proc[p] EXCEPT !.step = "analysed", !.known = {ToString(recording)}])

\* _source_fingerprint, of the bytes as they are now.
Fingerprint == recording

KeepMetrics(p) ==
    /\ proc[p].step = "analysed"
    /\ OnlyGoes(p, Write(p, Metrics(Fingerprint), proc[p].known))

\* A recording is shot, copied or cut again.
RecordAgain ==
    /\ recording < MaxShots
    /\ recording' = recording + 1
    /\ UNCHANGED <<files, proc, answered, lost, raced, starts>>

\* parse_places, parse_passes, parse_ways: what has a name and a place, and of
\* a way at least two nodes; ways of one name are kept under it together.
Parsed(kind, answer) ==
    {e.name : e \in {x \in answer : /\ x.name # "none"
                                    /\ CASE kind = "places" -> x.placed /\ x.town
                                         [] kind = "passes" -> x.placed
                                         [] OTHER -> x.nodes >= 2}}

\* fetch: an answer with elements, or on to the next; after the last, nothing.
AskMirror(p) ==
    /\ Reached(p, Sole("mirror"))
    /\ \/ \E kind \in {"places", "passes", "ways"}, answer \in Answers :
             OnlyGoes(p, [Write(p, Sole("reference"), Parsed(kind, answer)) EXCEPT !.left = <<Sole("last")>>])
       \/ OnlyGoes(p, Next1(p))

-----------------------------------------------------------------------------

\* The file beside its name is made, or cut to nothing if it is there.
OpenTemp(p) ==
    /\ proc[p].step = "open"
    /\ files' = With(TempOf(p, proc[p].target), {}, FALSE)
    /\ Goes(p, [proc[p] EXCEPT !.step = "fill", !.fd = TempOf(p, proc[p].target)])
    /\ UNCHANGED <<recording, answered, lost, raced, starts>>

\* What is open is written from its start: over a longer text, its end stays.
FillTemp(p) ==
    /\ proc[p].step = "fill"
    /\ files' = IF proc[p].fd = <<>> THEN files
                ELSE With(proc[p].fd, proc[p].content, files[proc[p].fd].content \subseteq proc[p].content)
    /\ Goes(p, [proc[p] EXCEPT !.step = "replace"])
    /\ UNCHANGED <<recording, answered, lost, raced, starts>>

\* os.replace: whoever has the file open has it open under its new name.
ReplaceTemp(p) ==
    LET target == Named(proc[p].target)
        temp   == TempOf(p, proc[p].target)
        Fd(q)  == CASE proc[q].fd = temp -> target
                    [] proc[q].fd = target -> <<>>
                    [] OTHER -> proc[q].fd
    IN  /\ proc[p].step = "replace" /\ temp \in DOMAIN files
        /\ files' = Restrict(With(target, files[temp].content, files[temp].whole),
                             (DOMAIN files \cup {target}) \ {temp})
        /\ proc' = [q \in Processes |-> IF q = p THEN Next1(p) ELSE [proc[q] EXCEPT !.fd = Fd(q)]]
        /\ UNCHANGED <<recording, answered, lost, raced, starts>>

\* Nothing is there to be put in place: the run ends.
ReplaceNothing(p) ==
    /\ proc[p].step = "replace" /\ TempOf(p, proc[p].target) \notin DOMAIN files
    /\ OnlyGoes(p, Away)

EndRun(p) ==
    /\ proc[p].step = "late" \/ (proc[p].step = "next" /\ proc[p].left = <<>>)
    /\ OnlyGoes(p, Away)

\* A run is stopped; what its service answered and is not on file is lost.
StopRun(p) ==
    /\ proc[p].step \notin {"away", "late"}
    /\ lost' = [x \in Places |-> lost[x] + (IF x \in proc[p].names \ Published(Names) THEN 1 ELSE 0)]
    /\ Goes(p, Away)
    /\ UNCHANGED <<files, recording, answered, raced, starts>>

CachesNext ==
    \/ RecordAgain
    \/ \E p \in Processes :
          \/ StartFilm(p) \/ StartNameless(p) \/ StartResearch(p) \/ StartFetch(p) \/ StartPreflight(p)
          \/ CompareLooks(p) \/ CopyWindow(p) \/ DrawMap(p) \/ AskMirror(p)
          \/ MetricsKnown(p) \/ AnalyseRecording(p) \/ KeepMetrics(p)
          \/ \E place \in Places : NameKnown(p, place) \/ AskName(p, place)
          \/ OpenTemp(p) \/ FillTemp(p) \/ ReplaceTemp(p) \/ ReplaceNothing(p)
          \/ EndRun(p) \/ StopRun(p)

CachesSpec == CachesInit /\ [][CachesNext]_cacheVars

-----------------------------------------------------------------------------

\* What stands under its own name is whole, whoever was stopped where: always
\* for what is written beside it under a name of one's own, and for the names
\* of places unless two films of the package were being made at once.
PublishedIsWhole ==
    \A target \in {Sole("look"), Sole("copy")} \cup {Metrics(v) : v \in 1 .. MaxShots} \cup (IF raced THEN {} ELSE {Names}) :
        OnFile(target) => files[Named(target)].whole

\* A film cut again asks nothing again: a place is asked for once, and once
\* more for each time its answer was lost with a run, as long as films of one
\* package are made one after another.
AskedOnce == ~raced => \A place \in Places : answered[place] <= 1 + lost[place]
=============================================================================
