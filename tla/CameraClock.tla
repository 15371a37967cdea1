---------------------------- MODULE CameraClock ----------------------------
(***************************************************************************)
(* Whose clock a recording carries: the catalog of the recordings          *)
(* (app/video/local_catalog.py), the shift of the camera's clock that a    *)
(* person is asked to confirm (app/clock_offset.py) and the clock read     *)
(* from the camera's own GPS (app/gopro_gps.py).                           *)
(*                                                                         *)
(* A file of the day is a record of what it shows and says: [at, length]   *)
(* in true seconds, [began] when its recording began, [off] how much is to *)
(* be added to the camera's clock, [recording, chapter] from its name      *)
(* (chapter 0: a name that tells none), [probed] whether it can be read,   *)
(* and [fixes] its GPS, second by second: [trusted, by], wrong by so much. *)
(* A GoPro gives every chapter of a recording the time at which the        *)
(* recording began, whether or not its first chapter is still there.       *)
(***************************************************************************)
EXTENDS Integers, FiniteSets, Sequences, FiniteSetsExt, Functions

CONSTANTS
    Days,       \* the days: sets of files
    RideFrom, RideTo,
    Steps,      \* _CANDIDATE_STEPS_S
    MinFixes,   \* MIN_FIXES
    Agreement,  \* AGREEMENT_S
    Noise       \* what a trusted fix may be wrong by

\* What a file of a day shows and says.
DayFile == [at : Int, began : Int, length : Nat \ {0}, off : Int, recording : Nat, chapter : Nat,
            probed : BOOLEAN, fixes : Seq([trusted : BOOLEAN, by : Int])]

ASSUME ClockAssumption ==
    /\ {RideFrom, RideTo} \subseteq Int /\ Steps \subseteq Int /\ IsFiniteSet(Steps)
    /\ MinFixes \in Nat \ {0} /\ {Agreement, Noise} \subseteq Nat

\* A camera films the chapters of a recording one after the other, the first
\* from when the recording began, and what tells no chapter is a recording of
\* its own; a fix that can be trusted is wrong by no more than noise.
ASSUME DayAssumption ==
    \A d \in Days :
        /\ IsFiniteSet(d) /\ d \subseteq DayFile
        /\ \A f, g \in d : f.recording = g.recording =>
              /\ f.chapter = 0 => f = g
              /\ g.began = f.began
              /\ g.chapter = f.chapter + 1 => g.at = f.at + f.length
        /\ \A f \in d : f.began <= f.at /\ (f.chapter \in {0, 1} => f.began = f.at)
        /\ \A f \in d : \A t \in DOMAIN f.fixes :
              f.fixes[t].trusted => f.fixes[t].by \in -Noise .. Noise

VARIABLES day, clockStep, entries, proposal, gps
clockVars == <<day, clockStep, entries, proposal, gps>>

Nowhere == [offset |-> 0, found |-> FALSE, sure |-> FALSE]

\* The time the container carries, on the camera's clock.
Began(f) == f.began - f.off

-----------------------------------------------------------------------------

\* build_local_video_catalog: the files that can be read, the chapters of a
\* recording one after the other, and no chapter of one with a gap, with a
\* file that cannot be read or begun at more than one time.
ChaptersOf(f) == {g \in day : g.recording = f.recording}
WholeRecording(f) ==
    LET chapters == ChaptersOf(f)
    IN  /\ \A g \in chapters : g.probed
        /\ {g.chapter : g \in chapters} = 1 .. Cardinality(chapters)
        /\ \A g, h \in chapters : Began(g) - Began(h) <= 2

\* A variant of EarlierChapters: the chapters are taken to begin together.
NoEarlierChapters(f) == 0

EarlierChapters(f) ==
    LET cumulative[k \in 1 .. f.chapter] ==
            IF k = 1 THEN 0
            ELSE cumulative[k - 1] + (CHOOSE g \in ChaptersOf(f) : g.chapter = k - 1).length
    IN  cumulative[f.chapter]

CatalogEntry(f) == [file |-> f, start |-> Began(f) + (IF f.chapter = 0 THEN 0 ELSE EarlierChapters(f))]

BuildCatalog ==
    /\ clockStep = "catalog"
    /\ entries' = {CatalogEntry(f) : f \in {x \in day : x.probed /\ (x.chapter = 0 \/ WholeRecording(x))}}
    /\ clockStep' = "proposal"
    /\ UNCHANGED <<day, proposal, gps>>

-----------------------------------------------------------------------------

\* _recordings: every file that can be read, at the time its container carries.
Recordings == {f \in day : f.probed}
From(f, offset) == Began(f) + offset
To1(f, offset)  == Began(f) + offset + f.length
Meets(f, offset)  == To1(f, offset) > RideFrom /\ From(f, offset) < RideTo
Inside(f, offset) == RideFrom <= From(f, offset) /\ To1(f, offset) <= RideTo

\* _score
Score(offset) ==
    LET inside == {f \in Recordings : Meets(f, offset) /\ Inside(f, offset)}
        met    == {f \in Recordings : Meets(f, offset)}
    IN  [offset |-> offset, inside |-> Cardinality(inside), clipped |-> Cardinality(met \ inside),
         covered |-> Cardinality({t \in RideFrom .. (RideTo - 1) :
                        \E f \in met : From(f, offset) <= t /\ t < To1(f, offset)})]

Better(a, b) ==
    \/ a.inside > b.inside
    \/ a.inside = b.inside /\ a.clipped < b.clipped
    \/ a.inside = b.inside /\ a.clipped = b.clipped /\ a.covered > b.covered
    \/ /\ a.inside = b.inside /\ a.clipped = b.clipped /\ a.covered = b.covered
       /\ \/ Max({a.offset, -a.offset}) < Max({b.offset, -b.offset})
          \/ a.offset = -b.offset /\ a.offset <= b.offset

\* propose_clock_offset and is_unambiguous: nothing else places as many inside.
ProposeClockOffset ==
    /\ clockStep = "proposal"
    /\ LET scored == {Score(offset) : offset \in Steps}
           best   == CHOOSE s \in scored : \A other \in scored : s = other \/ Better(s, other)
       IN  proposal' = IF Recordings = {} \/ best.inside = 0 THEN Nowhere
                       ELSE [offset |-> best.offset, found |-> TRUE,
                             sure |-> \A s \in scored \ {best} : s.inside < best.inside]
    /\ clockStep' = "gps"
    /\ UNCHANGED <<day, entries, gps>>

-----------------------------------------------------------------------------

\* parse_gps_fixes and is_trusted
Trusted(fix) == fix.trusted

\* statistics.median, in whole seconds: of the k-th of the values, in order.
Value(values, k) ==
    CHOOSE v \in Range(values) :
        /\ Cardinality({i \in DOMAIN values : values[i] < v}) < k
        /\ k <= Cardinality({i \in DOMAIN values : values[i] <= v})
Median(values) ==
    LET n == Cardinality(DOMAIN values)
    IN  (Value(values, (n + 1) \div 2) + Value(values, (n \div 2) + 1)) \div 2

\* recording_clock: what is to be added, at each second that can be trusted.
RecordingClock(e) ==
    LET seconds == {t \in DOMAIN e.file.fixes : Trusted(e.file.fixes[t])}
    IN  IF Cardinality(seconds) < MinFixes THEN Nowhere
        ELSE [offset |-> Median([t \in seconds |-> (e.file.at + e.file.fixes[t].by) - e.start]),
              found |-> TRUE, sure |-> TRUE]

\* day_clock: the median of the recordings that so placed lie in the ride.
PlacedInRide == {e \in {x \in entries : RecordingClock(x).found} :
              LET from == e.start + RecordingClock(e).offset
              IN  from < RideTo /\ from + e.file.length > RideFrom}

DayClock ==
    /\ clockStep = "gps"
    /\ gps' = IF PlacedInRide = {} THEN Nowhere
              ELSE LET offsets == [e \in PlacedInRide |-> RecordingClock(e).offset]
                   IN  [offset |-> Median(offsets), found |-> TRUE,
                        sure |-> Max(Range(offsets)) - Min(Range(offsets)) <= Agreement]
    /\ clockStep' = "done"
    /\ UNCHANGED <<day, entries, proposal>>

ClockInit ==
    /\ day \in Days
    /\ clockStep = "catalog"
    /\ entries = {}
    /\ proposal = Nowhere
    /\ gps = Nowhere

ClockNext == BuildCatalog \/ ProposeClockOffset \/ DayClock

ClockSpec == ClockInit /\ [][ClockNext]_clockVars

-----------------------------------------------------------------------------

\* With the camera's clock put right, every entry of the catalog stands where
\* its file was shot, whichever chapters there are and can be read.
CatalogIsTrue == \A e \in entries : e.start + e.file.off = e.file.at

\* Of a day shot on one clock, all of it during the ride and out by a step
\* that is tried, the shift proposed is the right one, or a person is told
\* that others do as well; and what the GPS is sure of is right to within what
\* its fixes and the recordings may differ by.
ClockIsTrue ==
    /\ LET off == {f.off : f \in Recordings}
       IN  (clockStep = "done" /\ Recordings # {} /\ Cardinality(off) = 1 /\ off \subseteq Steps
              /\ \A f \in day : RideFrom <= f.began /\ f.at + f.length <= RideTo)
           => proposal.found /\ (proposal.sure => proposal.offset \in off)
    /\ gps.sure => \A e \in PlacedInRide : gps.offset - e.file.off \in (-(Agreement + Noise)) .. (Agreement + Noise)

\* The day's recordings are placed where they were shot, or it is said that
\* they may not be.
DayIsPlaced == CatalogIsTrue /\ ClockIsTrue
=============================================================================
