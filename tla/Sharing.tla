------------------------------ MODULE Sharing ------------------------------
(***************************************************************************)
(* A package someone else may cut (app/portable_package.py), made of clips *)
(* in which the number plates were blurred (app/plate_blur.py), and        *)
(* whether it is ready to be cut (app/private_package_health.py): it is    *)
(* built from a package already cut, hardened by looking at every clip, or *)
(* at the film, again, and installed where it lands.  A command may stop   *)
(* between any two writes.                                                 *)
(*                                                                         *)
(* A clip is its sampled frames: the plates that can still be made out, by *)
(* where they stand across the picture, and whether a face shows.  Down    *)
(* the picture goes as across.  The reader of frames is external: in a     *)
(* clip it makes out the plate furthest to the left and in a film, which   *)
(* is another encode, the one furthest to the right.                       *)
(***************************************************************************)
EXTENDS Integers, FiniteSets, Sequences, SequencesExt, FiniteSetsExt, Functions

CONSTANTS
    Footage,   \* of each event, the frames of its window in the recording
    Given,     \* what may be found of the package built from: see Buildable
    Passes,    \* passes of one blur
    Rounds,    \* rounds of one hardening
    MaxTasks   \* bound on the commands

Across == 30  \* PAD_SHARE, MIN_BOX_WIDTH, HOLD_S, in the model's own pixels and frames
Pad    == 1
Least  == 4
Hold   == 1

\* What a sampled frame may show.
Samples == [plates : SUBSET (0 .. Across - 1), face : BOOLEAN]

\* Events are numbered in the order of their names.
ASSUME ShareAssumption ==
    /\ DOMAIN Footage \subseteq Nat
    /\ \A e \in DOMAIN Footage : Footage[e] \in Seq(Samples)
    /\ \A given \in Given : given.plan \in Seq(DOMAIN Footage)
    /\ {Passes, Rounds, MaxTasks} \subseteq Nat

VARIABLES
    parcel,    \* the directory: [clips, portable, listed, record, manifest, film]
    task,      \* the command under way
    sampled,   \* the frames in its working directory
    read,      \* the plates read and to be blurred: <<event, frame, place>>
    verdict,   \* [built, whole, settled]: how the last build and the last command ended
    tasks      \* [begun, builds]

shareVars == <<parcel, task, sampled, read, verdict, tasks>>

Resting == [step |-> "idle", how |-> "none", left |-> <<>>, plan |-> <<>>, regions |-> {},
            pass |-> 0, round |-> 0, changed |-> FALSE, bought |-> TRUE, music |-> TRUE]

-----------------------------------------------------------------------------

\* as_video_box and _at_least: padded, kept in the picture, widened to the
\* least there must be, and both edges brought to even pixels.
Widened(x, right) ==
    IF right - x >= Least THEN <<x, right>>
    ELSE LET middle == (x + right) \div 2
             from   == Max({0, Min({Across - Least, middle - (Least \div 2)})})
         IN  <<from, from + Least>>

BoxAround(place) ==
    LET wide == Widened(Max({0, place - Pad}), Min({Across, place + 1 + Pad}))
    IN  <<wide[1] - (wide[1] % 2), (wide[2] - wide[1]) - ((wide[2] - wide[1]) % 2)>>

Sighting(frame, place) ==
    [from |-> Max({0, frame - Hold}), to |-> frame + Hold,
     x |-> BoxAround(place)[1], width |-> BoxAround(place)[2]]

Touches(r, s) ==
    /\ r.to >= s.from /\ s.to >= r.from
    /\ r.x + r.width >= s.x /\ s.x + s.width >= r.x

JoinedRegion(r, s) ==
    LET x == Min({r.x, s.x})
    IN  [from |-> Min({r.from, s.from}), to |-> Max({r.to, s.to}),
         x |-> x, width |-> Max({r.x + r.width, s.x + s.width}) - x]

\* The earliest of them, the one furthest to the left where several are.
FirstRegion(regions) ==
    CHOOSE r \in regions : \A s \in regions : r.from < s.from \/ (r.from = s.from /\ r.x <= s.x)

\* A region goes into the first of the kept it touches, or beside them.
Into(kept, r) ==
    LET at == {i \in DOMAIN kept : Touches(kept[i], r)}
    IN  IF at = {} THEN Append(kept, r)
        ELSE [kept EXCEPT ![Min(at)] = JoinedRegion(kept[Min(at)], r)]

Absorbed(so) == LET r == FirstRegion(so.left)
             IN  [kept |-> Into(so.kept, r), left |-> so.left \ {r}]

\* Each region, in their order.
MergedRegions(regions) ==
    LET merged[n \in 0 .. Cardinality(regions)] ==
            IF n = 0 THEN [kept |-> <<>>, left |-> regions] ELSE Absorbed(merged[n - 1])
    IN  Range(merged[Cardinality(regions)].kept)

\* Samples are counted from 0, as the reader counts them.
MadeOut(frame) == IF frame.plates = {} THEN {} ELSE {Min(frame.plates)}
Sightings(frames) == UNION {{<<t - 1, p>> : p \in MadeOut(frames[t])} : t \in DOMAIN frames}
PlateRegions(frames) == MergedRegions({Sighting(s[1], s[2]) : s \in Sightings(frames)})
FaceSeconds(frames) == {t - 1 : t \in {u \in DOMAIN frames : frames[u].face}}

BlurredOver(region, frame, place) ==
    /\ region.from <= frame /\ frame <= region.to
    /\ region.x <= place /\ place < region.x + region.width

\* blur_filter, blur_command, blur_plates: a copy with the regions made soft.
Blurred(frames, regions) ==
    [t \in DOMAIN frames |->
        [frames[t] EXCEPT !.plates = {p \in @ : \A r \in regions : ~BlurredOver(r, t - 1, p)}]]

\* sample_command, inspect_footage: the frames are written over what the
\* working directory holds, and all that it holds is then looked at.
Sampled(frames) ==
    [t \in 1 .. Max({Len(sampled), Len(frames)}) |-> IF t \in DOMAIN frames THEN frames[t] ELSE sampled[t]]

-----------------------------------------------------------------------------

Built == DOMAIN parcel.clips
Put(event, frames) ==
    [parcel EXCEPT !.clips = [e \in Built \cup {event} |-> IF e = event THEN frames ELSE @[e]]]

\* What build_package asks of the package it is given and of the recordings.
Buildable(given) ==
    /\ given.plan # <<>>
    /\ Range(given.plan) \subseteq given.judged \cap given.catalogued \cap given.found

\* check_private_package_health, of a judged package: nothing blocks.
Ready == parcel.record.events # {} /\ parcel.record.bought /\ parcel.record.clocks

ShareInit ==
    /\ parcel = [clips |-> <<>>, portable |-> FALSE, listed |-> {},
                 record |-> [events |-> {}, bought |-> FALSE, clocks |-> FALSE],
                 manifest |-> "none", film |-> <<>>]
    /\ task = Resting
    /\ sampled = <<>>
    /\ read = {}
    /\ verdict = [built |-> FALSE, whole |-> FALSE, settled |-> FALSE]
    /\ tasks = [begun |-> 0, builds |-> 0]

Begin(new) ==
    /\ task = Resting
    /\ tasks.begun < MaxTasks
    /\ tasks' = [tasks EXCEPT !.begun = @ + 1, !.builds = @ + (IF new.how = "build" THEN 1 ELSE 0)]
    /\ verdict' = IF new.how = "film" THEN verdict
                  ELSE [built |-> verdict.built /\ new.how = "harden", whole |-> FALSE, settled |-> FALSE]
    /\ task' = new
    /\ sampled' = <<>>

\* load_film_sources, in the order of their names.
ByName(events) ==
    CHOOSE order \in [1 .. Cardinality(events) -> events] :
        /\ Range(order) = events
        /\ \A i, j \in DOMAIN order : i < j => order[i] < order[j]

\* build_package, as far as its checks.
BuildPackage ==
    /\ \E given \in Given :
          /\ Buildable(given)
          /\ Begin([Resting EXCEPT !.step = "cut", !.how = "build", !.left = given.plan,
                                   !.plan = given.plan, !.bought = given.bought, !.music = given.music])
    /\ UNCHANGED <<parcel, read>>

HardenPackage ==
    /\ parcel.portable
    /\ Begin([Resting EXCEPT !.step = "look", !.how = "harden", !.round = 1, !.left = ByName(parcel.listed)])
    /\ UNCHANGED <<parcel, read>>

Event  == Head(task.left)
Source == IF task.how = "build" THEN Footage[Event] ELSE parcel.clips[Event]
OwnReads(event, frames) == {<<event, s[1], s[2]>> : s \in Sightings(frames)}

\* build_portable_sources, blur_until_clean: the first pass.  A window that
\* is cut again has nothing of its earlier clip.
FirstPass ==
    /\ sampled' = Sampled(Source)
    /\ parcel' = Put(Event, Blurred(Source, PlateRegions(sampled')))
    /\ read' = OwnReads(Event, Source)
               \cup {s \in read : s[1] # Event \/ task.how # "build"}
    /\ task' = [task EXCEPT !.step = "again", !.pass = 1, !.regions = PlateRegions(sampled')]
    /\ UNCHANGED <<verdict, tasks>>

CutWindow == task.step = "cut" /\ task.left # <<>> /\ FirstPass

Onward == [task EXCEPT !.step = IF task.how = "build" THEN "cut" ELSE "look", !.left = Tail(@)]

\* Everything found so far, applied to the source.
AllFound(regions) == MergedRegions(task.regions \cup regions)

BlurAgain ==
    /\ task.step = "again"
    /\ IF task.pass >= Passes
       THEN task' = Onward /\ UNCHANGED <<parcel, sampled, read>>
       ELSE LET again == PlateRegions(Sampled(parcel.clips[Event]))
            IN  /\ sampled' = Sampled(parcel.clips[Event])
                /\ IF again = {} THEN task' = Onward /\ UNCHANGED <<parcel, read>>
                   ELSE /\ task' = [task EXCEPT !.pass = @ + 1, !.regions = AllFound(again)]
                        /\ parcel' = Put(Event, Blurred(Source, AllFound(again)))
                        /\ read' = read \cup OwnReads(Event, parcel.clips[Event])
    /\ UNCHANGED <<verdict, tasks>>

\* The judgement narrowed to what is shipped, then the manifest, the track and
\* the music, and the map last.
WriteRecord ==
    /\ task.step = "cut" /\ task.left = <<>>
    /\ parcel' = [parcel EXCEPT !.record = [events |-> Range(task.plan), bought |-> task.bought, clocks |-> TRUE]]
    /\ task' = [task EXCEPT !.step = "manifest"]
    /\ UNCHANGED <<sampled, read, verdict, tasks>>

WriteManifest ==
    /\ task.step = "manifest" /\ task.music
    /\ parcel' = [parcel EXCEPT !.manifest = "home"]
    /\ task' = [task EXCEPT !.step = "map"]
    /\ UNCHANGED <<sampled, read, verdict, tasks>>

WriteFilmSources ==
    /\ task.step = "map"
    /\ parcel' = [parcel EXCEPT !.portable = TRUE, !.listed = Range(task.plan)]
    /\ task' = Resting
    /\ verdict' = [built |-> TRUE, whole |-> TRUE, settled |-> FALSE]
    /\ UNCHANGED <<sampled, read, tasks>>

\* harden_package, a clip: gone already, a face, plates, or clean.
PassOver ==
    /\ Event \notin Built
    /\ task' = Onward
    /\ UNCHANGED <<parcel, sampled, read, verdict, tasks>>

DropFace ==
    /\ Event \in Built
    /\ FaceSeconds(Sampled(parcel.clips[Event])) # {}
    /\ sampled' = Sampled(parcel.clips[Event])
    /\ parcel' = [parcel EXCEPT !.clips = Restrict(@, Built \ {Event})]
    /\ task' = [Onward EXCEPT !.changed = TRUE]
    /\ UNCHANGED <<read, verdict, tasks>>

\* A variant of BlurPlates: a clip blurred in this round is taken for clean.
BlurPlatesOnce ==
    /\ Event \in Built
    /\ FaceSeconds(Sampled(parcel.clips[Event])) = {}
    /\ PlateRegions(Sampled(parcel.clips[Event])) # {}
    /\ FirstPass

BlurPlates ==
    /\ Event \in Built
    /\ FaceSeconds(Sampled(parcel.clips[Event])) = {}
    /\ PlateRegions(Sampled(parcel.clips[Event])) # {}
    /\ sampled' = Sampled(parcel.clips[Event])
    /\ parcel' = Put(Event, Blurred(Source, PlateRegions(sampled')))
    /\ read' = read \cup OwnReads(Event, Source)
    /\ task' = [task EXCEPT !.step = "again", !.pass = 1, !.regions = PlateRegions(sampled'), !.changed = TRUE]
    /\ UNCHANGED <<verdict, tasks>>

FindClean ==
    /\ Event \in Built
    /\ FaceSeconds(Sampled(parcel.clips[Event])) = {}
    /\ PlateRegions(Sampled(parcel.clips[Event])) = {}
    /\ sampled' = Sampled(parcel.clips[Event])
    /\ task' = Onward
    /\ UNCHANGED <<parcel, read, verdict, tasks>>

LookAtClip ==
    /\ task.step = "look" /\ task.left # <<>>
    /\ PassOver \/ DropFace \/ BlurPlates \/ FindClean

\* _narrow_to_clips: the map, then the judgement; with no clip left, neither.
NarrowSources ==
    /\ task.step = "look" /\ task.left = <<>>
    /\ parcel.listed \cap Built # {}
    /\ parcel' = [parcel EXCEPT !.listed = @ \cap Built]
    /\ task' = [task EXCEPT !.step = "judgement"]
    /\ UNCHANGED <<sampled, read, verdict, tasks>>

NarrowRecord ==
    /\ task.step = "judgement"
    /\ parcel' = [parcel EXCEPT !.record.events = @ \cap parcel.listed]
    /\ IF task.changed /\ task.round < Rounds
       THEN /\ task' = [task EXCEPT !.step = "look", !.round = @ + 1, !.changed = FALSE, !.left = ByName(parcel.listed)]
            /\ UNCHANGED verdict
       ELSE task' = Resting /\ verdict' = [verdict EXCEPT !.whole = verdict.built, !.settled = ~task.changed]
    /\ UNCHANGED <<sampled, read, tasks>>

\* A command fails or is stopped.
TaskFails ==
    /\ task # Resting
    /\ task' = Resting
    /\ UNCHANGED <<parcel, sampled, read, verdict, tasks>>

\* The film of the package: windows it lists and has judged, in some order.
CutFilm ==
    /\ task = Resting /\ parcel.portable /\ parcel.manifest = "here" /\ Ready
    /\ LET shown == parcel.listed \cap parcel.record.events
       IN  /\ shown # {} /\ shown \subseteq Built
           /\ \E order \in SetToSeqs(shown) :
                 parcel' = [parcel EXCEPT !.film = FlattenSeq([i \in DOMAIN order |->
                    [t \in DOMAIN parcel.clips[order[i]] |->
                        [event |-> order[i], frame |-> parcel.clips[order[i]][t]]]])]
    /\ parcel' # parcel
    /\ UNCHANGED <<task, sampled, read, verdict, tasks>>

\* harden_from_film: what shows in the film, each region traced by its middle
\* to the window shown then, and blurred in that clip for its whole length.
FilmRegions ==
    LET seen(t) == parcel.film[t].frame.plates
    IN  MergedRegions({Sighting(t - 1, Max(seen(t))) : t \in {u \in DOMAIN parcel.film : seen(u) # {}}})
FromFilm ==
    [event : Range([t \in DOMAIN parcel.film |-> parcel.film[t].event]), region : FilmRegions]
Traced == {w \in FromFilm : LET middle == (w.region.from + w.region.to) \div 2
                            IN  middle < Len(parcel.film) /\ parcel.film[middle + 1].event = w.event}

HardenFromFilm ==
    /\ parcel.film # <<>> /\ {w.event : w \in Traced} \cap parcel.listed # {}
    /\ Begin([Resting EXCEPT !.step = "trace", !.how = "film",
                             !.regions = {w \in Traced : w.event \in parcel.listed},
                             !.left = ByName({w.event : w \in Traced} \cap parcel.listed)])
    /\ UNCHANGED <<parcel, read>>

BlurFromFilm ==
    /\ task.step = "trace" /\ task.left # <<>>
    /\ IF Event \notin Built THEN UNCHANGED parcel
       ELSE parcel' = Put(Event, Blurred(Source,
                {[w.region EXCEPT !.from = 0, !.to = Len(Source)] : w \in {v \in task.regions : v.event = Event}}))
    /\ task' = IF Len(task.left) = 1 THEN Resting ELSE [task EXCEPT !.left = Tail(@)]
    /\ UNCHANGED <<sampled, read, verdict, tasks>>

\* settle_package, and the package carried to another machine before it.
SettlePackage ==
    /\ task = Resting /\ parcel.portable /\ parcel.manifest = "home"
    /\ parcel' = [parcel EXCEPT !.manifest = "here"]
    /\ UNCHANGED <<task, sampled, read, verdict, tasks>>

ShareNext ==
    \/ BuildPackage \/ CutWindow \/ BlurAgain \/ WriteRecord \/ WriteManifest \/ WriteFilmSources
    \/ HardenPackage \/ LookAtClip \/ NarrowSources \/ NarrowRecord
    \/ HardenFromFilm \/ BlurFromFilm
    \/ CutFilm \/ SettlePackage \/ TaskFails

ShareSpec == ShareInit /\ [][ShareNext]_shareVars

-----------------------------------------------------------------------------

\* A plate that a pass has read in a clip cannot be made out in it again,
\* whatever is found later and whichever copy is blurred.
ReadIsBlurred ==
    \A s \in read : s[1] \in Built => s[3] \notin parcel.clips[s[1]][s[2] + 1].plates

\* A package whose hardening settled lists clips that show no face and in
\* which no plate is to be made out.
SettledIsClean ==
    verdict.settled => \A e \in parcel.listed :
        e \in Built /\ \A t \in DOMAIN parcel.clips[e] : parcel.clips[e][t] = [plates |-> {}, face |-> FALSE]

\* The map never lists a window the judgement does not hold, wherever a
\* command stopped, so what is portable can be cut; one built into a directory
\* that held another is whole again only when it is done.
ListedIsJudged ==
    /\ (parcel.portable /\ tasks.builds = 1) => parcel.listed # {} /\ parcel.listed \subseteq parcel.record.events
    /\ verdict.whole => parcel.listed = parcel.record.events /\ parcel.listed \subseteq Built

\* A clip is dropped for a face of its own.
DroppedForItsFace ==
    [][\A e \in Built \ DOMAIN parcel'.clips : FaceSeconds(parcel.clips[e]) # {}]_shareVars

\* portable_package.py and plate_blur.py: what was read stays blurred, a package
\* that settled is clean, and one that may be cut lists what it can show.
ParcelIsSound == ReadIsBlurred /\ SettledIsClean /\ ListedIsJudged
=============================================================================
