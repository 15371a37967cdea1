----------------------------- MODULE LocalStory -----------------------------
(***************************************************************************)
(* From a route and a folder of recordings to a director's script, all on  *)
(* this machine: the events of app/gps/events.py, the highlights handed    *)
(* over by app/video/highlight_story_bridge.py, the recordings of          *)
(* app/video/catalog.py, the plan of app/agents/story_planner.py and       *)
(* app/edit/candidate_planner.py, the roles of app/director.py and the     *)
(* checks of app/executor.py, in the order app/local_pipeline.py calls     *)
(* them.  Times are whole units; a route's points are its indices, and     *)
(* only those at which a threshold is passed are named.                    *)
(***************************************************************************)
EXTENDS Integers, FiniteSets, Sequences, Functions, SequencesExt

CONSTANTS
    Routes,      \* [last, long, marks: [point -> set of event types]]
    Catalogs,    \* sequences of recordings: [start, length], their order the folder's
    Offers,      \* sets of highlights: [id, method, rank, start, length, score]
    Decisions,   \* what the owner may make of an event: "confirmed", ...
    PointTime,   \* of each point, the time of the one before and its own
    Window,      \* within which turns and speed changes are one
    Requested,   \* the length an event of the route asks for
    Target,      \* the length of the film
    MaxComposed  \* bound: clips of which a model is asked to compose

ASSUME LocalStoryAssumption == /\ {Window, Requested, Target, MaxComposed} \subseteq Nat \ {0}
                               /\ Decisions \subseteq {"awaiting", "confirmed", "rejected"}

MostPoints == 100000   \* bound: points of a route, more than a day has seconds

\* A highlight handed over: its window, and how its method ranked it.
Highlight == [id : Nat, method : STRING, rank : Nat, start : Int, length : Nat, score : Nat]

\* Identifiers of highlights are unique (HighlightBridgeCandidateSet); a route's
\* events lie at its points.
ASSUME RideAndFootageAssumption ==
    /\ Catalogs \subseteq Seq([start : Int, length : Nat])
    /\ \A offer \in Offers : /\ IsFiniteSet(offer) /\ offer \subseteq Highlight
                            /\ \A c, d \in offer : c.id = d.id => c = d
    /\ \A r \in Routes : /\ r.last \in 0 .. MostPoints - 1 /\ r.long \in BOOLEAN
                         /\ DOMAIN r.marks \subseteq 0 .. r.last
                         /\ {0, r.last} \cup DOMAIN r.marks \subseteq DOMAIN PointTime
    /\ \A p \in DOMAIN PointTime : PointTime[p] \in Int \X Int

VARIABLES
    phase,      \* what comes next
    route,      \* the route
    catalog,    \* the recordings
    offered,    \* the highlights
    events,     \* the events of the story pool
    clips,      \* the clips of the plan: [event, asset, from, to]
    preferred,     \* the highlight picked by the owner for an event: [event -> id]
    decided,    \* the evidence decisions: [event -> decision]
    script      \* the scenes: [role -> sequence of clips]

storyVars == <<phase, route, catalog, offered, events, clips, preferred, decided, script>>

Types    == {"stop", "elevation_change", "speed_change", "direction_change"}
Volatile == {"speed_change", "direction_change"}
Roles    == {"hook", "build_up", "climax", "resolution"}

Importance(type) ==
    CASE type = "departure" -> 55        [] type = "stop" -> 45
      [] type = "elevation_change" -> 70 [] type = "speed_change" -> 50
      [] type = "direction_change" -> 65 [] type = "long_ride" -> 60
      [] OTHER -> 75

\* An identifier's place in the alphabet: the points in three digits or more,
\* of one point its types, then the arrival, the long ride and the highlights.
\* A further digit sorts below the underscore that ends three.
Digits(point) ==
    CASE point < 1000 -> point * 121 + 120
      [] point >= 1000 /\ point < 10000 -> (point \div 10) * 121 + (point % 10) * 11 + 10
      [] OTHER -> (point \div 100) * 121 + ((point \div 10) % 10) * 11 + (point % 10)

Alphabet(event) ==
    LET letter == CASE event.type = "direction_change" -> 1 [] event.type = "elevation_change" -> 2
                    [] event.type = "speed_change" -> 3 [] event.type = "stop" -> 4 [] OTHER -> 0
    IN  CASE event.type = "arrival_candidate" -> 1000000
          [] event.type = "long_ride" -> 1000001
          [] event.type = "visual_highlight" -> 1000002 + event.point
          [] OTHER -> Digits(event.point) * 5 + letter

Earlier(a, b) == \/ a.start < b.start
                 \/ a.start = b.start /\ Alphabet(a) < Alphabet(b)
Stronger(a, b) == \/ a.importance > b.importance
                  \/ a.importance = b.importance /\ Earlier(a, b)

GpsEvent(type, point, start, end) ==
    [type |-> type, point |-> point, start |-> start, end |-> end,
     importance |-> Importance(type), requested |-> Requested, from |-> 0]

\* extract_events
Extracted ==
    LET from == PointTime[0][2]
        to   == PointTime[route.last][2]
    IN  {GpsEvent("departure", 0, from, from), GpsEvent("arrival_candidate", route.last, to, to)}
    \cup (IF route.long THEN {GpsEvent("long_ride", route.last, from, to)} ELSE {})
    \cup {GpsEvent(mark[2], mark[1], PointTime[mark[1]][1], PointTime[mark[1]][2]) :
            mark \in {m \in (DOMAIN route.marks) \X Types : m[2] \in route.marks[m[1]]}}

\* _consolidate_type: a cluster begins with the earliest event, and the next
\* with the earliest that is the window or more after the last began.
ClusterHeads(these) ==
    LET heads[k \in 0 .. Cardinality(these)] ==
            IF k = 0 THEN {}
            ELSE LET after == {e \in these : \A h \in heads[k - 1] : e.start - h.start >= Window}
                 IN  heads[k - 1] \cup {e \in after : \A o \in after : o = e \/ Earlier(e, o)}
    IN  heads[Cardinality(these)]

Representative(cluster) == CHOOSE e \in cluster : \A o \in cluster : o = e \/ Stronger(e, o)

Consolidated(these) ==
    {e \in these : e.type \notin Volatile}
    \cup UNION {LET ofType == {e \in these : e.type = type}
                    heads == ClusterHeads(ofType)
                IN  {Representative({e \in ofType : /\ ~Earlier(e, h)
                                                    /\ \A g \in heads : Earlier(h, g) => Earlier(e, g)}) :
                        h \in heads} : type \in Volatile}

Overlap(start, end, start2, end2) == start < end2 /\ start2 < end

\* build_highlight_gps_events: not where the route has an event already, and
\* once for one stretch of time (of the first method that chose it).
Promoted(these) ==
    LET free == {c \in offered : \A e \in these :
                    ~Overlap(c.start, c.start + c.length, e.start, e.end)}
    IN  {[type |-> "visual_highlight", point |-> c.id, start |-> c.start,
          end |-> c.start + c.length, importance |-> c.score,
          requested |-> c.length, from |-> 0] :
            c \in {c \in free : \A o \in free :
                    (o.start = c.start /\ o.length = c.length) => c.id <= o.id}}

Covers(recording, time) == recording.start <= time /\ time < recording.start + recording.length
Filmed(event) == \E i \in DOMAIN catalog : Covers(catalog[i], event.start)

\* _requested_clip_duration_s of all of them, second by second.
SumOf(these) == Cardinality(UNION {{e} \X (1 .. e.requested) : e \in these})

\* select_video_backed_events: the strongest of each type, then the strongest
\* while the film is not filled.
Selected ==
    LET covered == {e \in events : e.requested > 0 /\ Filmed(e)}
        firsts == {e \in covered : \A o \in covered :
                      (o.type = e.type /\ o # e) => Stronger(e, o)}
    IN  firsts \cup {e \in covered \ firsts :
            SumOf(firsts \cup {o \in covered \ firsts : Stronger(o, e)}) < Target}

\* A variant of Resolved: the clip is not kept inside the recording's end.
ResolvedPastEnd(event) ==
    LET asset == CHOOSE i \in DOMAIN catalog :
                    /\ Covers(catalog[i], event.start)
                    /\ \A j \in 1 .. i - 1 : ~Covers(catalog[j], event.start)
        offset == event.start - catalog[asset].start
        from == IF offset < event.requested \div 2 THEN 0 ELSE offset - event.requested \div 2
    IN  [event |-> event, asset |-> asset, from |-> from, to |-> from + event.requested]

\* _resolve_event: centred on the event, inside the first recording that has it.
Resolved(event) ==
    LET asset == CHOOSE i \in DOMAIN catalog :
                    /\ Covers(catalog[i], event.start)
                    /\ \A j \in 1 .. i - 1 : ~Covers(catalog[j], event.start)
        offset == event.start - catalog[asset].start
        low(x) == IF x < 0 THEN 0 ELSE x
        high(x) == IF x > catalog[asset].length THEN catalog[asset].length ELSE x
        end == high(low(offset - event.requested \div 2) + event.requested)
    IN  [event |-> event, asset |-> asset, from |-> low(end - event.requested), to |-> end]

\* The highlights over a clip that lie in its recording (_reinforce_one_clip).
Over(clip) ==
    LET start == catalog[clip.asset].start
    IN  {c \in offered :
            /\ Overlap(c.start, c.start + c.length, start + clip.from, start + clip.to)
            /\ start <= c.start /\ c.start + c.length <= start + catalog[clip.asset].length}

\* _select_unambiguous_candidate: the one candidate, or the first rank of one
\* method; methods are not ranked against each other.
Unambiguous(candidates) ==
    {c \in candidates : \A o \in candidates \ {c} : o.method = c.method /\ c.rank < o.rank}

Cut(clip, c) ==
    LET offset == c.start - catalog[clip.asset].start
    IN  [clip EXCEPT !.from = IF @ < offset THEN offset ELSE @,
                     !.to = IF @ > offset + c.length THEN offset + c.length ELSE @]
Narrower(cut, clip) == cut.from < cut.to /\ cut.to - cut.from < clip.to - clip.from

\* A variant of Narrowed: what the owner picked is taken from all that is offered.
PickedAnywhere(clip) ==
    IF clip.event \in DOMAIN preferred THEN {c \in offered : c.id = preferred[clip.event]}
    ELSE Unambiguous(Over(clip))

\* _select_candidate: the owner's pick, or nothing if it is not over the clip.
Narrowed(clip) ==
    IF clip.event \in DOMAIN preferred THEN {c \in Over(clip) : c.id = preferred[clip.event]}
    ELSE Unambiguous(Over(clip))

\* reinforce_resolved_clips_with_highlights, of one clip.
Reinforced(clip) ==
    IF \E c \in Narrowed(clip) : Narrower(Cut(clip, c), clip)
    THEN Cut(clip, CHOOSE c \in Narrowed(clip) : TRUE) ELSE clip

\* _valid_narrowing_candidates
Narrowing(clip) == {c \in Over(clip) : Narrower(Cut(clip, c), clip)}

\* find_highlight_reinforcement_conflicts: what the owner is asked to settle.
Conflicts(clip) == IF Unambiguous(Narrowing(clip)) = {} THEN Narrowing(clip) ELSE {}

Confirmed == {clip \in clips : decided[clip.event] = "confirmed"}

\* The order a director takes for that of the ride: where in its own request
\* an event begins, then its identifier.
DirectedEarlier(a, b) == \/ a.event.from < b.event.from
                         \/ a.event.from = b.event.from /\ Alphabet(a.event) < Alphabet(b.event)
Sorted(these) ==
    [k \in 1 .. Cardinality(these) |->
        CHOOSE c \in these : Cardinality({o \in these : DirectedEarlier(o, c)}) = k - 1]

RanksAbove(a, b) == Stronger(a.event, b.event)

\* _claim_best_available
BestOf(these, nonDeparture) ==
    LET open == {c \in these : nonDeparture => c.event.type # "departure"}
    IN  {c \in open : \A o \in open \ {c} : RanksAbove(c, o)}

\* What a ride ends with: the last arrival, or the last of all.
Closing(these) ==
    LET arrivals == {c \in these : c.event.type = "arrival_candidate"}
        among    == IF arrivals # {} THEN arrivals ELSE these
    IN  IF Cardinality(these) < 2 THEN {}
        ELSE {c \in among : \A o \in among \ {c} : DirectedEarlier(o, c)}

\* A variant of Cast: a hook is looked for among all, and what it takes is shown twice.
CastTwice(these) ==
    LET resolution == Closing(these)
        climax == BestOf(these \ resolution, TRUE)
        hook == BestOf(these \ climax, TRUE)
    IN  [resolution |-> resolution, climax |-> climax, hook |-> hook,
         build_up |-> these \ (resolution \cup climax \cup hook)]

\* _assign_arcs
Cast(these) ==
    LET resolution == Closing(these)
        climax == BestOf(these \ resolution, TRUE)
        left == these \ (resolution \cup climax)
        hook == IF BestOf(left, TRUE) # {} THEN BestOf(left, TRUE) ELSE BestOf(left, FALSE)
    IN  [resolution |-> resolution, climax |-> climax, hook |-> hook,
         build_up |-> left \ hook]

\* _validated_gemini_script: scenes in the order of the roles, each role and
\* each event at most once.
Composed(these) ==
    {[role \in Roles |-> SetToSeq({c \in these : roles[c] = role})] :
        roles \in {r \in [these -> Roles \cup {"unused"}] : \E c \in these : r[c] # "unused"}}

\* ScriptExecutor.execute: a scene shows exactly the clip that was resolved.
Executable(scenes) == \A role \in Roles : \A i \in DOMAIN scenes[role] : scenes[role][i] \in clips

-----------------------------------------------------------------------------

StoryInit ==
    /\ phase = "route"
    /\ route \in Routes
    /\ catalog \in Catalogs
    /\ offered \in Offers
    /\ events = {} /\ clips = {} /\ preferred = <<>> /\ decided = <<>> /\ script = <<>>

FindEvents ==
    /\ phase = "route"
    /\ LET found == Consolidated(Extracted) IN events' = found \cup Promoted(found)
    /\ phase' = "plan"
    /\ UNCHANGED <<route, catalog, offered, clips, preferred, decided, script>>

\* A ride no recording overlaps is refused.
PlanClips ==
    /\ phase = "plan"
    /\ clips' = {Resolved(e) : e \in Selected}
    /\ phase' = IF Selected = {} THEN "refused" ELSE "choose"
    /\ UNCHANGED <<route, catalog, offered, events, preferred, decided, script>>

\* The owner settles one conflict: one highlight for an event, one event for a
\* highlight.  A list that names one highlight twice is not made.
Choose ==
    /\ phase = "choose"
    /\ \A a, b \in clips : a # b => Conflicts(a) \cap Conflicts(b) = {}
    /\ \E clip \in clips : \E c \in Conflicts(clip) :
          preferred' = [e \in {clip.event} \cup {e \in DOMAIN preferred : preferred[e] # c.id} |->
                        IF e = clip.event THEN c.id ELSE preferred[e]]
    /\ UNCHANGED <<phase, route, catalog, offered, events, clips, decided, script>>

\* The package is made again from other recordings or highlights, with the
\* picks saved before.
Remake ==
    /\ phase = "choose" /\ preferred # <<>>
    /\ \/ catalog' \in Catalogs \ {catalog} /\ UNCHANGED offered
       \/ \E c \in offered : offered' = offered \ {c} /\ UNCHANGED catalog
    /\ phase' = "route"
    /\ UNCHANGED <<route, events, clips, preferred, decided, script>>

Reinforce ==
    /\ phase = "choose"
    /\ clips' = {Reinforced(clip) : clip \in clips}
    /\ phase' = "review"
    /\ UNCHANGED <<route, catalog, offered, events, preferred, decided, script>>

\* Every clip has a recording, so the machine confirms all; the owner may have
\* said otherwise of any.
Review ==
    /\ phase = "review"
    /\ \E other \in [clips -> Decisions] :
          decided' = [e \in {clip.event : clip \in clips} |->
                        other[CHOOSE clip \in clips : clip.event = e]]
    /\ phase' = "direct"
    /\ UNCHANGED <<route, catalog, offered, events, clips, preferred, script>>

\* The director is only asked about confirmed clips, and not without any.
Direct ==
    /\ phase = "direct"
    /\ IF Confirmed = {} THEN phase' = "undirected" /\ UNCHANGED script
       ELSE /\ phase' = "directed"
            /\ script' = [role \in Roles |-> Sorted(Cast(Confirmed)[role])]
    /\ UNCHANGED <<route, catalog, offered, events, clips, preferred, decided>>

\* A model may compose instead; an answer that does not hold up, or none,
\* leaves it to the rules.
Compose ==
    /\ phase = "direct"
    /\ Confirmed # {} /\ Cardinality(Confirmed) <= MaxComposed
    /\ script' \in Composed(Confirmed)
    /\ phase' = "composed"
    /\ UNCHANGED <<route, catalog, offered, events, clips, preferred, decided>>

StoryNext ==
    FindEvents \/ PlanClips \/ Choose \/ Remake \/ Reinforce \/ Review \/ Direct \/ Compose

StorySpec == StoryInit /\ [][StoryNext]_storyVars

-----------------------------------------------------------------------------

\* Every scene is a confirmed clip, no clip is shown twice, something is shown,
\* and what the executor is given is what was resolved, so that the script of
\* a package is never refused for a clip that has moved since.
ScriptIsSound ==
    phase \in {"directed", "composed"} =>
        LET shown == UNION {Range(script[role]) : role \in Roles}
        IN  /\ Executable(script)
            /\ shown # {} /\ shown \subseteq Confirmed
            /\ \A a, b \in Roles : a # b => Range(script[a]) \cap Range(script[b]) = {}

\* The plan has each filmed type's strongest event, is as long as the film
\* unless the ride has no more to give, and its clips lie in one recording
\* and show the moment the event begins.
PlanFollowsFootage ==
    phase = "choose" =>
        LET filmed == {e \in events : e.requested > 0 /\ Filmed(e)}
            told   == {clip.event : clip \in clips}
        IN  /\ told \subseteq filmed
            /\ {e.type : e \in told} = {e.type : e \in filmed}
            /\ told = filmed \/ SumOf(told) >= Target
            /\ \A clip \in clips :
                  LET start == catalog[clip.asset].start
                  IN  /\ 0 <= clip.from /\ clip.from < clip.to
                      /\ clip.to <= catalog[clip.asset].length
                      /\ start + clip.from <= clip.event.start
                      /\ clip.event.start <= start + clip.to

\* A highlight put to the owner is one that works: taken, it narrows the clip.
OfferedIsTaken ==
    phase = "choose" =>
        \A clip \in clips : \A c \in Conflicts(clip) :
            (clip.event \in DOMAIN preferred /\ preferred[clip.event] = c.id)
                => Narrower(Reinforced(clip), clip)

\* A reinforced clip is part of the clip it was, of the same recording, and
\* lies in one highlight of that recording; no clip is lost or gained.
OnlyNarrowed ==
    [][(phase = "choose" /\ phase' = "review") =>
        /\ {clip.event : clip \in clips'} = {clip.event : clip \in clips}
        /\ \A new \in clips' : \E old \in clips :
              /\ new.event = old.event /\ new.asset = old.asset
              /\ old.from <= new.from /\ new.from < new.to /\ new.to <= old.to
              /\ new # old => \E c \in offered :
                    /\ c.start <= catalog[new.asset].start + new.from
                    /\ catalog[new.asset].start + new.to <= c.start + c.length
                    /\ catalog[new.asset].start <= c.start
                    /\ c.start + c.length
                         <= catalog[new.asset].start + catalog[new.asset].length]_storyVars

\* The plan that is put to the owner can be cut, and so can every pick.
PlanCanBeCut == PlanFollowsFootage /\ OfferedIsTaken
=============================================================================
