------------------------------ MODULE FilmPlan ------------------------------
(***************************************************************************)
(* From the footage of a ride to the plan of its film and the segments the *)
(* film is cut from: the rest of plan_journey_film and the middle of       *)
(* run_private_journey_film (app/private_journey_film.py).  A judged ride  *)
(* is told leg by leg (app/ride_chapters.py), framed by its opening and a  *)
(* closing card (app/story_opening.py), and given its lines                *)
(* (app/story_sections.py).  A ride without a judgement shows its          *)
(* confirmed clips, a card for every stretch nothing covers                *)
(* (app/journey_gaps.py, app/story_timeline.py).                           *)
(*                                                                         *)
(* A title, a body and a line are what they are about, not their wording.  *)
(***************************************************************************)
EXTENDS FilmChoice

CardHold     == 6 * Second
TasteHold    == Second
MinimumGap   == 60 * Second
SectionHold  == 4 * Second
SectionTail  == Second
SectionLeast == (5 * Second) \div 2
SectionLead  == 30 * Second
RepeatWithin == 1800 * Second

VARIABLES
    timeline,   \* the ride as beats: cards and cuts
    plan,       \* the film as beats
    cues,       \* the subtitles, [from, to, card]
    film,       \* the segments the film is cut from
    refusal     \* why no plan was made

planVars == <<timeline, plan, cues, film, refusal>>
journeyVars == <<choiceVars, planVars>>

NoCard    == [about |-> "none", leg |-> 0]
NoSection == [kind |-> "none", text |-> "none", at |-> 0, stays |-> 0]
Beat == [kind |-> "footage", window |-> 0, from |-> 0, to |-> 0, screen |-> 0, offset |-> 0,
         card |-> NoCard, section |-> NoSection, taste |-> FALSE]

Card(about, n, from, to, screen) ==
    [Beat EXCEPT !.kind = "card", !.from = from, !.to = to, !.screen = screen, !.card = [about |-> about, leg |-> n]]
Shot(cut) ==
    [Beat EXCEPT !.window = cut.window, !.from = cut.from, !.to = cut.to, !.screen = cut.to - cut.from,
                 !.offset = cut.from - W(cut.window).start]
Of(kind, beats) == SelectSeq(beats, LAMBDA b : b.kind = kind)
Length(beats) == FoldLeft(LAMBDA a, b : a + b.screen, 0, beats)

\* A timeline refuses beats out of order, beats that overlap and an event twice.
TimelineHolds(beats) ==
    /\ beats # <<>>
    /\ \A i \in DOMAIN beats : beats[i].from < beats[i].to /\ beats[i].screen > 0
    /\ \A i \in 1..(Len(beats) - 1) : beats[i].to <= beats[i + 1].from
    /\ \A i, j \in DOMAIN beats : beats[i].kind = "footage" /\ i # j => beats[i].window # beats[j].window

-----------------------------------------------------------------------------
\* A judged ride: each leg opens with its card, then shows its cuts.

Never == 0 - 1000000

\* The card takes the second before a first cut that begins with the leg.
LegBeats(s, n) ==
    LET l == ride.legs[n]
        inside == SelectSeq(footage, LAMBDA c : l.from <= c.from /\ c.from < l.to)
        end    == IF inside = <<>> THEN l.to ELSE inside[1].from
        opens  == More(l.from, s.cursor)
        start  == IF end <= opens THEN end - Second ELSE opens
    IN  IF ~s.room THEN s
        ELSE [room   |-> end > opens \/ start >= s.cursor,
              cursor |-> IF inside = <<>> THEN end ELSE inside[Len(inside)].to,
              beats  |-> s.beats \o <<Card("leg", n, start, end, CardHold)>>
                                 \o [i \in DOMAIN inside |-> Shot(inside[i])]]

BuildChapterTimeline ==
    /\ phase = "footage"
    /\ LET told == FoldLeft(LegBeats, [room |-> TRUE, cursor |-> Never, beats |-> <<>>],
                            [n \in Legs |-> n])
       IN  /\ timeline' = told.beats
           /\ refusal' = IF ~told.room THEN "no room" ELSE IF ~TimelineHolds(told.beats) THEN "timeline" ELSE "none"
    /\ phase' = IF refusal' = "none" THEN "timeline" ELSE "refused"
    /\ UNCHANGED <<ride, proven, fixed, places, opening, leg, targets, chosen, footage, plan, cues, film>>

-----------------------------------------------------------------------------
\* A ride without a judgement: its confirmed clips and the gaps between them.

\* _merged_windows
Merged(spans) ==
    LET order == SetToSortSeq(spans, LAMBDA a, b : a # b /\ Before(<<a.from, a.to>>, <<b.from, b.to>>))
        Join(m, s) == IF m # <<>> /\ s.from <= m[Len(m)].to
                      THEN [m EXCEPT ![Len(m)].to = More(@, s.to)] ELSE Append(m, s)
    IN  FoldLeft(Join, <<>>, order)

\* _segment_for
GapBetween(from, to) ==
    IF to - from < MinimumGap \/ Cardinality({p \in ride.points : from <= p /\ p <= to}) < 2
    THEN <<>> ELSE <<[from |-> from, to |-> to]>>

\* A variant of Gaps: what comes after the last clip is left out.
GapsInside(spans) ==
    LET merged == Merged(spans)
        Next1(s, m) == [cursor |-> More(s.cursor, m.to),
                        gaps |-> IF m.from > s.cursor /\ s.cursor < ride.to
                                 THEN s.gaps \o GapBetween(s.cursor, Less(m.from, ride.to)) ELSE s.gaps]
    IN  FoldLeft(Next1, [cursor |-> ride.from, gaps |-> <<>>], merged).gaps

\* build_journey_gap_plan: stretches of a minute and more that no clip covers
Gaps(spans) ==
    LET merged == Merged(spans)
        Next1(s, m) == [cursor |-> More(s.cursor, m.to),
                        gaps |-> IF m.from > s.cursor /\ s.cursor < ride.to
                                 THEN s.gaps \o GapBetween(s.cursor, Less(m.from, ride.to)) ELSE s.gaps]
        covered == FoldLeft(Next1, [cursor |-> ride.from, gaps |-> <<>>], merged)
    IN  IF covered.cursor < ride.to THEN covered.gaps \o GapBetween(covered.cursor, ride.to) ELSE covered.gaps

\* gap_card_screen_duration_s
GapHold(gap) == Less(8 * Second, More(3 * Second, (gap.to - gap.from) \div 240))

\* classify_gap, as far as it is where the gap is
GapAbout(gap) == IF gap.from = ride.from THEN "departure" ELSE IF gap.to = ride.to THEN "arrival" ELSE "between"

ConfirmedClips == InOrder(ride.confirmed, Earliest)

BuildStoryTimeline ==
    /\ phase = "confirmed"
    /\ LET clips == [i \in DOMAIN ConfirmedClips |-> LET w == ConfirmedClips[i] IN
                        [window |-> w, from |-> W(w).start, to |-> Ends(w)]]
           gaps  == Gaps({[from |-> W(w).start, to |-> Ends(w)] : w \in ride.confirmed})
           beats == [i \in DOMAIN clips |-> Shot(clips[i])]
                    \o [i \in DOMAIN gaps |-> Card(GapAbout(gaps[i]), 0, gaps[i].from, gaps[i].to, GapHold(gaps[i]))]
           order == SortSeq(beats, LAMBDA a, b : Before(<<a.from, a.to>>, <<b.from, b.to>>))
       IN  /\ footage' = clips
           /\ timeline' = order
           /\ refusal' = IF clips = <<>> THEN "no clip" ELSE IF TimelineHolds(order) THEN "none" ELSE "timeline"
    /\ phase' = IF refusal' = "none" THEN "timeline" ELSE "refused"
    /\ UNCHANGED <<ride, proven, fixed, places, opening, leg, targets, chosen, plan, cues, film>>

-----------------------------------------------------------------------------
\* The plan.

\* A plan refuses an event told twice, a taste of a window tasted before, and
\* a title, a section or a taste where none may be.
PlanHolds(beats) ==
    /\ beats # <<>>
    /\ \A i \in DOMAIN beats : LET b == beats[i] IN
          /\ b.screen > 0 /\ b.offset >= 0
          /\ b.kind = "footage" => b.section.stays <= b.screen /\ (b.taste => b.section = NoSection)
          /\ b.kind = "card" => b.section = NoSection /\ ~b.taste
    /\ \A i, j \in DOMAIN beats : i # j /\ beats[i].kind = "footage" /\ beats[i].taste = beats[j].taste
                                  => beats[i].window # beats[j].window

\* What a plan made of `beats` changes: it stands, or nothing comes of it.
Planned(beats, next) ==
    /\ plan' = beats
    /\ refusal' = IF PlanHolds(beats) THEN "none" ELSE "plan"
    /\ phase' = IF PlanHolds(beats) THEN next ELSE "refused"

BuildPlan ==
    /\ phase = "timeline"
    /\ Planned(timeline, IF ride.record THEN "plan" ELSE "planned")
    /\ UNCHANGED <<ride, proven, fixed, places, opening, leg, targets, chosen, footage, timeline, cues, film>>

\* _window_preference
Preference(w) == (IF W(w).rank # 0 THEN 100 * W(w).rank ELSE 100000 + (100 - Score(w)))
                 + (IF W(w).halt # 0 THEN 1000000 ELSE 0)

\* The windows the film opens on, in the order of the ride.
Tasted ==
    LET shown == {footage[i].window : i \in DOMAIN footage}
        best  == InOrder(shown, LAMBDA w : <<Preference(w), W(w).start, w>>)
        some  == IF opening # {} THEN opening \cap shown
                 ELSE {best[i] : i \in {k \in DOMAIN best : k <= OpeningCount}}
    IN  SelectSeq(Of("footage", plan), LAMBDA b : b.window \in some)

\* frame_the_film
FrameTheFilm ==
    /\ phase = "plan"
    /\ LET taste == [i \in DOMAIN Tasted |-> [Tasted[i] EXCEPT !.screen = Less(TasteHold, @), !.taste = TRUE]]
       IN  Planned(IF Of("footage", plan) = <<>> THEN plan
                   ELSE taste \o plan \o <<Card("close", 0, 0, 0, CardHold)>>, "framed")
    /\ UNCHANGED <<ride, proven, fixed, places, opening, leg, targets, chosen, footage, timeline, cues, film>>

Reach(kind) == CASE kind = "place" -> 180 * Second
                 [] kind \in {"town", "town_in", "pass"} -> 300 * Second
                 [] kind \in {"halt_place", "road"} -> 480 * Second
                 [] OTHER -> 1200 * Second

\* Where a line may be laid, given the cuts taken: the beats that begin from a
\* little before its moment to its reach after it.
Begins(b) == (CHOOSE i \in DOMAIN footage : footage[i].window = b.window)
Behind(b, e) == footage[Begins(b)].from - e.at
CanCarry(beats, taken, e) ==
    {i \in DOMAIN beats : /\ beats[i].kind = "footage" /\ beats[i].card = NoCard /\ i \notin taken
                          /\ 0 - SectionLead <= Behind(beats[i], e) /\ Behind(beats[i], e) <= Reach(e.kind)}

\* A variant of Attach: a line stays as long as its cut.
AttachWhole(s, e) ==
    LET repeated == \E d \in s.said : d.kind = e.kind /\ d.text = e.text /\ e.at - d.at < RepeatWithin
        can   == CanCarry(s.beats, s.taken, e)
        best  == First(can, LAMBDA i : <<Abs(Behind(s.beats[i], e)), i>>)
        stays == s.beats[best].screen + SectionTail
    IN  IF repeated \/ can = {} \/ stays < SectionLeast THEN s
        ELSE [beats |-> [s.beats EXCEPT ![best].section = [kind |-> e.kind, text |-> e.text, at |-> e.at, stays |-> stays]],
              taken |-> s.taken \cup {best}, said |-> s.said \cup {e}]

\* One line, laid on the nearest of the beats that can carry it.
Attach(s, e) ==
    LET repeated == \E d \in s.said : d.kind = e.kind /\ d.text = e.text /\ e.at - d.at < RepeatWithin
        can   == CanCarry(s.beats, s.taken, e)
        best  == First(can, LAMBDA i : <<Abs(Behind(s.beats[i], e)), i>>)
        stays == Less(SectionHold, s.beats[best].screen - SectionTail)
    IN  IF repeated \/ can = {} \/ stays < SectionLeast THEN s
        ELSE [beats |-> [s.beats EXCEPT ![best].section = [kind |-> e.kind, text |-> e.text, at |-> e.at, stays |-> stays]],
              taken |-> s.taken \cup {best}, said |-> s.said \cup {e}]

\* attach_sections
AttachSections ==
    /\ phase = "framed"
    /\ LET events == InOrder(ride.events, LAMBDA e : <<e.at, e.order>>)
       IN  Planned(FoldLeft(Attach, [beats |-> plan, taken |-> {}, said |-> {}], events).beats, "planned")
    /\ UNCHANGED <<ride, proven, fixed, places, opening, leg, targets, chosen, footage, timeline, cues, film>>

-----------------------------------------------------------------------------
\* The subtitles and the segments.

\* build_subtitle_cues: a cue for every card, where the film has come to
CuesOf(beats) ==
    LET Cue(s, b) == [at |-> s.at + b.screen,
                      cues |-> IF b.kind = "card"
                               THEN Append(s.cues, [from |-> s.at, to |-> s.at + b.screen, card |-> b.card])
                               ELSE s.cues]
    IN  FoldLeft(Cue, [at |-> 0, cues |-> <<>>], beats).cues

\* write_position_maps: one map for a window, that of its last beat
MapOf(w) ==
    LET beats == SelectSeq(Of("footage", plan), LAMBDA b : b.window = w)
        last  == beats[Len(beats)]
    IN  W(w).start + last.offset + (last.screen \div 2)

\* build_story_film_segments: a cut is read from its recording, where its
\* window begins there and as far on as the plan says
Segments ==
    LET drawn == SelectSeq(plan, LAMBDA b : b.card # NoCard)
        Cut(s, b) == IF b.kind = "card"
                     THEN [next |-> s.next + 1,
                           film |-> Append(s.film, [kind |-> "card", screen |-> b.screen, from |-> 0, map |-> 0,
                                                     card |-> drawn[s.next].card, section |-> NoSection])]
                     ELSE [next |-> s.next,
                           film |-> Append(s.film, [kind |-> "footage", screen |-> b.screen,
                                                     from |-> W(b.window).start + b.offset,
                                                     map |-> IF ride.record THEN MapOf(b.window) ELSE 0,
                                                     card |-> NoCard, section |-> b.section])]
    IN  FoldLeft(Cut, [next |-> 1, film |-> <<>>], plan).film

\* The segments and, the film being cut, the subtitles, which a cue too short to
\* read refuses, and a plan without a card to make a cue of.
CutSegments ==
    /\ phase = "planned"
    /\ film' = Segments
    /\ cues' = CuesOf(plan)
    /\ refusal' = IF cues' = <<>> THEN "no cue"
                  ELSE IF \A i \in DOMAIN cues' : cues'[i].to - cues'[i].from >= Second THEN "none" ELSE "cue"
    /\ phase' = IF refusal' = "none" THEN "film" ELSE "refused"
    /\ UNCHANGED <<ride, proven, fixed, places, opening, leg, targets, chosen, footage, timeline, plan>>

-----------------------------------------------------------------------------

PlanInit == ChoiceInit /\ timeline = <<>> /\ plan = <<>> /\ cues = <<>> /\ film = <<>> /\ refusal = "none"
PlanNext == \/ ChoiceNext /\ UNCHANGED planVars
            \/ BuildChapterTimeline \/ BuildStoryTimeline \/ BuildPlan \/ FrameTheFilm
            \/ AttachSections \/ CutSegments

\* A minute or more of the ride, with two points of its track, that no clip shows.
LeftBare ==
    LET edges == {ride.from, ride.to} \cup UNION {{W(w).start, Ends(w)} : w \in ride.confirmed}
    IN  \E a, b \in {t \in edges : ride.from <= t /\ t <= ride.to} :
            /\ b - a >= MinimumGap
            /\ \E p, q \in ride.points : a <= p /\ p < q /\ q <= b
            /\ \A w \in ride.confirmed : Ends(w) <= a \/ b <= W(w).start

\* Of all that timeline, plan, sections and subtitles refuse, a judged ride can
\* meet one, at the border of a leg: its first cut begins where the cut before it
\* was shortened to end, both windows the film had to carry, or on the border
\* itself while the leg before it shows nothing.  A ride without a judgement is
\* refused only where its clips overlap, where none is confirmed, or where they
\* show so much of it that no minute of its track is left for a card.
RefusedOnlyAtABorder ==
    phase = "refused" =>
        IF ride.record
        THEN refusal = "no room" /\ \E i \in DOMAIN footage, n \in Legs \ {1} :
                LET before == {k \in DOMAIN footage : footage[k].from < footage[i].from}
                    told   == {k \in before : footage[k].from >= ride.legs[n - 1].from}
                IN  /\ \A k \in before : footage[k].from < ride.legs[n].from
                    /\ \/ footage[i].from = ride.legs[n].from /\ told = {}
                       \/ \E k \in before : footage[k].to = footage[i].from
                              /\ {footage[k].window, footage[i].window} \subseteq Required
        ELSE \/ refusal = "no clip" /\ ride.confirmed = {}
             \/ refusal = "timeline"
                /\ \E v, w \in ride.confirmed : v # w /\ W(v).start <= W(w).start /\ W(w).start < Ends(v)
             \/ refusal = "no cue" /\ ~LeftBare

\* The film tells the whole ride: every leg has its card and every cut stands
\* once, in full, behind the card of its leg and before the next leg's; what it
\* opens on comes back.  Without a judgement every minute that no clip shows
\* and the track covers is under a card.
PlanTellsTheRide ==
    phase = "film" =>
        LET full == SelectSeq(plan, LAMBDA b : ~b.taste /\ b.card.about # "close")
            cuts == Of("footage", full)
            LegOf(i) == CHOOSE n \in Legs : ride.legs[n].from <= full[i].from /\ full[i].from < ride.legs[n].to
            Opens(n) == {i \in DOMAIN full : full[i].card = [about |-> "leg", leg |-> n]}
        IN  /\ [i \in DOMAIN cuts |-> cuts[i].window] = [i \in DOMAIN footage |-> footage[i].window]
            /\ \A i \in DOMAIN plan : plan[i].taste => \E k \in DOMAIN cuts : cuts[k].window = plan[i].window
            /\ IF ride.record
               THEN /\ \A n \in Legs : Cardinality(Opens(n)) = 1
                    /\ \A i \in DOMAIN full : full[i].kind = "footage" =>
                          /\ \A k \in Opens(LegOf(i)) : k < i
                          /\ \A n \in Legs : n > LegOf(i) => \A k \in Opens(n) : i < k
               ELSE \A t \in (ride.from \div 60)..(ride.to \div 60) :
                       LET from == 60 * t  to == 60 * t + MinimumGap  IN
                       (to <= ride.to /\ Cardinality({p \in ride.points : from <= p /\ p <= to}) >= 2) =>
                          \/ \E w \in ride.confirmed : W(w).start < to /\ from < Ends(w)
                          \/ \E i \in DOMAIN full : full[i].kind = "card" /\ full[i].from <= from /\ to <= full[i].to

\* Sound picture and words agree: a cue stands exactly under its card's segment,
\* a segment shows the seconds of the ride its cut is about, the corner map marks
\* a place of that cut, and a line is gone before its cut ends.
FilmFollowsPlan ==
    phase = "film" =>
        LET Starts(i) == Length(SubSeq(film, 1, i - 1))
            cards == {i \in DOMAIN film : film[i].kind = "card"}
        IN  /\ {<<Starts(i), Starts(i + 1), film[i].card>> : i \in cards}
               = {<<cues[k].from, cues[k].to, cues[k].card>> : k \in DOMAIN cues}
            /\ \A i \in DOMAIN film : film[i].kind = "footage" =>
                  \E k \in DOMAIN footage :
                      /\ film[i].from = footage[k].from /\ film[i].from + film[i].screen <= footage[k].to
                      /\ ride.record => footage[k].from <= film[i].map /\ film[i].map <= footage[k].to
                      /\ film[i].section.stays + SectionTail <= film[i].screen \/ film[i].section = NoSection

\* The plan tells the whole ride, and what is rendered from it shows, says and
\* marks the seconds the plan is about.
FilmTellsTheRide == PlanTellsTheRide /\ FilmFollowsPlan

=============================================================================
